---------------------------- MODULE HostRequests ----------------------------
(***************************************************************************)
(* The requests of HostLifecycle as they run: concurrently, each in its    *)
(* own database session.  A request loads the host's row, decides on what  *)
(* it has loaded (the callback even awaits its body in between), and       *)
(* commits later.  Nothing locks the row or compares a version, and the    *)
(* UPDATE writes exactly the columns the request changed.                  *)
(*                                                                         *)
(* What else a handler reads (the latest build record, the assets, the     *)
(* default profile) it reads right before it commits, and that part is one *)
(* step here.                                                              *)
(***************************************************************************)
EXTENDS HostProperties

CONSTANTS
  Workers,  (* threads that may serve requests at the same time            *)
  Overlap   (* whether two requests about one host may be in flight        *)

ASSUME OverlapAssumption == Overlap \in BOOLEAN

VARIABLE req  (* the request each worker has loaded, if any                *)

requestVars == <<vars, req>>

Idle == [op |-> "none"]

MachineOps == {"boot", "register", "config", "callback"}

InFlight == {w \in Workers : req[w] # Idle}
OperatorsInFlight == {w \in InFlight : req[w].op \notin MachineOps}

RequestInit == Init /\ req = [w \in Workers |-> Idle]

-----------------------------------------------------------------------------
(* Loading: the guards are the handlers' early returns.                    *)

Load(w, h, op, arg) ==
  /\ req[w] = Idle
  /\ Overlap \/ \A v \in InFlight : req[v].host # h
  /\ req' = [req EXCEPT ![w] =
               [op |-> op, host |-> h, snap |-> hosts[h], arg |-> arg]]
  /\ UNCHANGED vars

LoadBoot(w, h) == \E op \in {"boot", "register"} : Load(w, h, op, "none")

LoadConfig(w, h) ==
  /\ hosts[h].token \in offered[h]
  /\ Known(h) /\ Configurable(hosts[h])
  /\ Load(w, h, "config", "none")

LoadCallback(w, h) ==
  /\ hosts[h].token \in served[h]
  /\ Known(h)
  /\ \E outcome \in {"PROVISIONED", "FAILED"} : Load(w, h, "callback", outcome)

LoadOperator(w, h) ==
  /\ ops + Cardinality(OperatorsInFlight) < MaxOps
  /\ \/ /\ ~ Known(h)
        /\ \E p \in ProfileId, n \in Hostname :
             Load(w, h, "create", [profile |-> p, hostname |-> n])
     \/ /\ Known(h)
        /\ \/ \E p \in ProfileId \cup {Unset}, s \in HostState \cup {Unset},
                 n \in Hostname \cup {Unset} :
                Load(w, h, "patch", [profile |-> p, state |-> s, hostname |-> n])
           \/ \E p \in ProfileId, s \in HostState, n \in Hostname :
                Load(w, h, "form", [profile |-> p, state |-> s, hostname |-> n])
           \/ hosts[h].profile # NoProfile /\ Load(w, h, "install", "none")
           \/ Load(w, h, "decommission", "none")

-----------------------------------------------------------------------------
(* Committing.                                                             *)

(* What a machine's request works on when it found no row.                 *)
Base(q) == IF q.snap.state = Absent THEN Registered(1) ELSE q.snap

(* Slip: the UPDATE writes every column of the row that was loaded.        *)
WriteWholeRow(h, snap, new) == new

(* The row after the UPDATE of a request that loaded snap and left new:    *)
(* only the columns that differ from what was loaded are written.          *)
Column(cur, snap, new) == IF new # snap THEN new ELSE cur

WriteChangedColumns(h, snap, new) ==
  LET cur == hosts[h] IN
  [state |-> Column(cur.state, snap.state, new.state),
   profile |-> Column(cur.profile, snap.profile, new.profile),
   hostname |-> Column(cur.hostname, snap.hostname, new.hostname),
   token |-> Column(cur.token, snap.token, new.token)]

(* An INSERT of a row that exists by now violates the unique MAC.          *)
Insertable(q) == q.snap.state = Absent => ~ Known(q.host)

Done(w) == req' = [req EXCEPT ![w] = Idle]

CommitBoot(w, q) ==
  LET h == q.host
      r == Base(q)
      d == DefaultProfile
      assigned == /\ UnattendedAssigns(r, d)
                  /\ q.op = "boot" => r.state = "PENDING"
      booted == IF assigned
                THEN ApplyUnattended(r, d, RowOrRegistered(h).token + 1)
                ELSE r
      given == IF q.op = "boot" THEN Configurable(booted) ELSE UnattendedApplies(r, d)
  IN  /\ q.op \in {"boot", "register"}
      /\ Insertable(q)
      /\ Enrol(h, WriteChangedColumns(h, q.snap, booted), assigned,
               IF given THEN InstallScript(booted) ELSE {})
      /\ Done(w)

CommitConfig(w, q) ==
  LET h == q.host IN
  /\ q.op = "config"
  /\ q.snap.profile # NoProfile
  /\ hosts' = [hosts EXCEPT ![h] =
                 WriteChangedColumns(h, q.snap, ConfigFetched(q.snap))]
  /\ builds' = [builds EXCEPT ![h] =
                  IF q.snap.state = "READY"
                  THEN StartBuildRecord(@, q.snap) ELSE @]
  /\ served' = [served EXCEPT ![h] = @ \cup {q.snap.token}]
  /\ UNCHANGED <<runs, assets, unattendedDefault, offered, ops>>
  /\ Done(w)

CommitConfigFails(w, q) ==
  LET h == q.host IN
  /\ q.op = "config"
  /\ hosts' = [hosts EXCEPT ![h] =
                 WriteChangedColumns(h, q.snap, RenderFailed(q.snap))]
  /\ UNCHANGED <<builds, runs, assets, unattendedDefault, offered, served, ops>>
  /\ Done(w)

CommitCallback(w, q) ==
  LET h == q.host IN
  /\ q.op = "callback"
  /\ ~ TagClash(h, q.snap)
  /\ assets' = AssetsAfterCallback(h, q.snap, q.arg)
  /\ builds' = [builds EXCEPT ![h] = FinishLatestBuildRecord(@, q.snap, q.arg)]
  /\ runs' = IF q.arg = "PROVISIONED"
             THEN [runs EXCEPT ![h] = QueueAnsibleRun(@, builds'[h], q.snap)]
             ELSE runs
  /\ hosts' = [hosts EXCEPT ![h] =
                 WriteChangedColumns(h, q.snap, CalledBack(q.snap, q.arg, Fresh(h)))]
  /\ UNCHANGED <<unattendedDefault, offered, served, ops>>
  /\ Done(w)

(* The row an operator's request leaves in its session.                    *)
Operated(q) ==
  LET t == Fresh(q.host) IN
  CASE q.op = "create" -> NewHost(q.arg.profile, q.arg.hostname, t)
    [] q.op = "patch" ->
         PatchHost(q.snap, q.arg.profile, q.arg.state, q.arg.hostname, t)
    [] q.op = "form" ->
         SubmitHostForm(q.snap, q.arg.profile, q.arg.state, q.arg.hostname, t)
    [] q.op = "install" -> ReadyForInstall(q.snap, t)
    [] q.op = "decommission" -> Decommissioned(q.snap, t)

CommitOperator(w, q) ==
  /\ q.op \notin MachineOps
  /\ Insertable(q)
  /\ Operate(q.host, WriteChangedColumns(q.host, q.snap, Operated(q)))
  /\ Done(w)

(* Slip: the new state of a host whose config is fetched is committed on   *)
(* its own, before the config is rendered and the record is made.          *)
RollbackAfterStateCommit(w) ==
  LET q == req[w] IN
  /\ Done(w)
  /\ hosts' = IF q.op = "config"
              THEN [hosts EXCEPT ![q.host] =
                      WriteChangedColumns(q.host, q.snap, ConfigFetched(q.snap))]
              ELSE hosts
  /\ UNCHANGED <<builds, runs, assets, unattendedDefault, offered, served, ops>>

(* A request that ends without a commit: an exception (an INSERT that      *)
(* violates a constraint among them), a lost connection, a restart.        *)
Rollback(w) == Done(w) /\ UNCHANGED vars

Commit(w, q) ==
  \/ CommitBoot(w, q)
  \/ CommitConfig(w, q) \/ CommitConfigFails(w, q)
  \/ CommitCallback(w, q)
  \/ CommitOperator(w, q)

RequestNext ==
  \/ \E w \in Workers, h \in Hosts :
       LoadBoot(w, h) \/ LoadConfig(w, h) \/ LoadCallback(w, h) \/ LoadOperator(w, h)
  \/ \E w \in InFlight : Commit(w, req[w]) \/ Rollback(w)

RequestSpec == RequestInit /\ [][RequestNext]_requestVars

-----------------------------------------------------------------------------
(***************************************************************************)
(* Requests that do not overlap on one host are served as if each of them  *)
(* were one step, also when requests about other hosts commit in between   *)
(* and change the assets and the default profile they share: the handlers  *)
(* read those only after what they wait for (boot.py:226-278).             *)
(***************************************************************************)
ImplementsSerial == Spec

(***************************************************************************)
(* Whatever overlaps, a token that has been replaced never becomes current *)
(* again, although requests that loaded it are still to commit: they write *)
(* the token only if they generated one (boot.py:269, database.py:33).     *)
(***************************************************************************)
RetiredTokensStayRetired ==
  [][\A h \in Hosts : hosts'[h].token >= hosts[h].token]_requestVars

(***************************************************************************)
(* A hostname that an operator saves while a machine's request about the   *)
(* same row is in flight is not lost when that request commits: only the   *)
(* requests of operators about a host change its hostname.                 *)
(***************************************************************************)
HostnameEditsSurvive ==
  [][\A h \in Hosts :
       hosts'[h].hostname # hosts[h].hostname
         => \E w \in OperatorsInFlight :
              req[w].host = h /\ CommitOperator(w, req[w])]_requestVars

(***************************************************************************)
(* However late a callback commits, the run that it queues is for a token  *)
(* that is retired by then and a record that exists: this much of          *)
(* RunsFollowInstalls is left when requests about one host overlap         *)
(* (boot.py:226-278).                                                      *)
(***************************************************************************)
RunsAreForRetiredTokens ==
  \A h \in Hosts : \A i \in DOMAIN runs[h] :
    /\ runs[h][i].token < hosts[h].token
    /\ runs[h][i].build \in DOMAIN builds[h]

(***************************************************************************)
(* Only a request that had loaded a host before it was finished can still  *)
(* change it: whatever a PROVISIONED or DECOMMISSIONED machine asks for    *)
(* afterwards, alone or next to other requests, it stays as it is until an *)
(* operator acts (boot.py:111-116, 163-173).                               *)
(***************************************************************************)
OnlyStaleRequestsReopen ==
  [][\A h \in Hosts :
       hosts[h].state \in {"PROVISIONED", "DECOMMISSIONED"} /\ hosts'[h] # hosts[h]
         => \E w \in InFlight :
              /\ req[w].host = h /\ Commit(w, req[w])
              /\ \/ w \in OperatorsInFlight
                 \/ req[w].snap.state \notin {"PROVISIONED", "DECOMMISSIONED"}]_requestVars
=============================================================================
