----------------------------- MODULE HostProofs -----------------------------
(***************************************************************************)
(* Proofs that HostLifecycle keeps the invariants of HostProperties for    *)
(* any hosts, profiles, hostnames and number of operator requests; that    *)
(* the overlapping requests of HostRequests keep those on tokens,          *)
(* hostnames and finished machines; and that requests which do not overlap *)
(* on one host implement HostLifecycle.                                    *)
(***************************************************************************)
EXTENDS HostRequests, TLAPS

(***************************************************************************)
(* What every request that only replaces the row of h leaves: a row that   *)
(* exists, with a token not used before or with the old token and state.   *)
(* This is the discipline of generate_install_token(): whoever changes the *)
(* state outside an installation rotates the token.                        *)
(***************************************************************************)
Succeeds(r, q) ==
  /\ q \in HostRow
  /\ q.state # Absent
  /\ \/ q.token > r.token
     \/ q.token = r.token /\ q.state = r.state

-----------------------------------------------------------------------------
(* The row operators of the operators' requests.                           *)

(* A new row succeeds the row that does not exist.                         *)
LEMMA NewHostSucceeds ==
  ASSUME NEW p \in ProfileId, NEW n \in Hostname, NEW t \in Nat, t > 0
  PROVE  Succeeds(NoRow, NewHost(p, n, t))
BY DEF Succeeds, NewHost, NoRow, HostRow, HostState, Absent

(* A patched row succeeds the row it was made from, and its token is that  *)
(* of the row or the fresh one.                                            *)
LEMMA PatchHostSucceeds ==
  ASSUME NEW r \in HostRow, r.state # Absent, NEW t \in Nat, t > r.token,
         NEW p \in ProfileId \cup {Unset}, NEW s \in HostState \cup {Unset},
         NEW n \in Hostname \cup {Unset}
  PROVE  /\ Succeeds(r, PatchHost(r, p, s, n, t))
         /\ PatchHost(r, p, s, n, t).token \in {r.token, t}
<1> DEFINE profiled == IF p = Unset THEN r ELSE ApplyProfile(r, p, t)
           named == IF n = Unset THEN profiled
                    ELSE [profiled EXCEPT !.hostname = n]
<1>1. r.token \in Nat
  BY DEF HostRow
<1>2. Succeeds(r, profiled) /\ profiled.token \in {r.token, t}
  BY <1>1 DEF Succeeds, ApplyProfile, HostRow, HostState, Absent
<1>3. Succeeds(r, named) /\ named.token \in {r.token, t}
  BY <1>2 DEF Succeeds, HostRow
<1> DEFINE stated == IF s = Unset THEN named
                     ELSE [named EXCEPT !.state = s, !.token = t]
<1>4. Succeeds(r, stated) /\ stated.token \in {r.token, t}
  BY <1>1, <1>3 DEF Succeeds, HostRow, HostState, Absent
<1>5. QED
  BY <1>4 DEF PatchHost

(* So does a row submitted with the form, and the two buttons next to it.  *)
LEMMA SubmitHostFormSucceeds ==
  ASSUME NEW r \in HostRow, NEW t \in Nat, t > r.token,
         NEW p \in ProfileId, NEW s \in HostState, NEW n \in Hostname
  PROVE  /\ Succeeds(r, SubmitHostForm(r, p, s, n, t))
         /\ SubmitHostForm(r, p, s, n, t).token \in {r.token, t}
<1> DEFINE q == SubmitHostForm(r, p, s, n, t)
<1>1. r.token \in Nat
  BY DEF HostRow
<1>2. CASE r.state # s \/ r.profile # p
  <2>1. q = [r EXCEPT !.profile = p, !.state = s, !.hostname = n, !.token = t]
    BY <1>2 DEF SubmitHostForm
  <2>2. q \in HostRow /\ q.state = s /\ q.token = t
    BY <2>1 DEF HostRow
  <2>3. QED
    BY <1>1, <2>2 DEF Succeeds, HostState, Absent
<1>3. CASE ~ (r.state # s \/ r.profile # p)
  <2>1. q = [r EXCEPT !.profile = p, !.state = s, !.hostname = n]
    BY <1>3 DEF SubmitHostForm, HostRow
  <2>2. q \in HostRow /\ q.state = s /\ q.token = r.token
    BY <1>1, <2>1 DEF HostRow
  <2>3. QED
    BY <1>1, <1>3, <2>2 DEF Succeeds, HostState, Absent
<1>4. QED
  BY <1>2, <1>3

LEMMA ReadyForInstallSucceeds ==
  ASSUME NEW r \in HostRow, NEW t \in Nat, t > r.token
  PROVE  Succeeds(r, ReadyForInstall(r, t)) /\ ReadyForInstall(r, t).token = t
<1> DEFINE q == ReadyForInstall(r, t)
<1>1. q \in HostRow /\ q.state = "READY" /\ q.token = t
  BY DEF ReadyForInstall, HostRow, HostState
<1>2. QED
  BY <1>1 DEF Succeeds, Absent

LEMMA DecommissionedSucceeds ==
  ASSUME NEW r \in HostRow, NEW t \in Nat, t > r.token
  PROVE  Succeeds(r, Decommissioned(r, t)) /\ Decommissioned(r, t).token = t
<1> DEFINE q == Decommissioned(r, t)
<1>1. q \in HostRow /\ q.state = "DECOMMISSIONED" /\ q.token = t
  BY DEF Decommissioned, HostRow, HostState
<1>2. QED
  BY <1>1 DEF Succeeds, Absent

(* And a row to which the unattended profile was applied.                  *)
LEMMA ApplyUnattendedSucceeds ==
  ASSUME NEW r \in HostRow, r.state # Absent, NEW d \in ProfileId,
         NEW t \in Nat, t > r.token
  PROVE  /\ Succeeds(r, ApplyUnattended(r, d, t))
         /\ ApplyUnattended(r, d, t).token \in {r.token, t}
<1> DEFINE q == [r EXCEPT !.profile = d, !.state = "READY", !.token = t]
<1>1. r.token \in Nat
  BY DEF HostRow
<1>2. q \in HostRow /\ q.state = "READY" /\ q.token = t
  BY DEF HostRow, HostState
<1>3. Succeeds(r, r) /\ Succeeds(r, q)
  BY <1>1, <1>2 DEF Succeeds, Absent
<1>4. QED
  BY <1>2, <1>3 DEF ApplyUnattended

(* The token that the next request generates is fresh.                     *)
LEMMA NextTokenIsFresh ==
  ASSUME NEW r \in HostRow
  PROVE  r.token + 1 \in Nat /\ r.token + 1 > r.token
BY DEF HostRow

-----------------------------------------------------------------------------
(* The inductive invariant.                                                *)

(* Tokens in use are not newer than the current one, a host that does not  *)
(* exist has used none, and the current one is served only during an       *)
(* installation.                                                           *)
TokenInv(h) ==
  /\ \A t \in served[h] : t <= hosts[h].token
  /\ hosts[h].state = Absent
       => hosts[h] = NoRow /\ served[h] = {} /\ builds[h] = << >>
  /\ hosts[h].token \in served[h] => hosts[h].state \in {"INSTALLING", "FAILED"}

(* Records are made for served tokens, in their order; the record of the   *)
(* current token is the latest and open.                                   *)
RecordInv(h) ==
  /\ \A i \in DOMAIN builds[h] : builds[h][i].token \in served[h]
  /\ \A i, j \in DOMAIN builds[h] :
       i < j => builds[h][i].token < builds[h][j].token
  /\ \A i \in DOMAIN builds[h] :
       builds[h][i].token = hosts[h].token
         => i = Len(builds[h]) /\ builds[h][i].state = "INSTALLING"

(* Runs are queued for retired tokens, in their order, and for the record  *)
(* of their token if there is one.                                         *)
RunInv(h) ==
  /\ \A i, j \in DOMAIN runs[h] : i < j => runs[h][i].token < runs[h][j].token
  /\ \A i \in DOMAIN runs[h] :
       /\ runs[h][i].token < hosts[h].token
       /\ runs[h][i].build \in DOMAIN builds[h]
       /\ \A j \in DOMAIN builds[h] :
            builds[h][j].token = runs[h][i].token => j = runs[h][i].build

IInv == TypeOK /\ \A h \in Hosts : TokenInv(h) /\ RecordInv(h) /\ RunInv(h)

(* The step of h that only replaces its row.                               *)
Replaces(h, q) ==
  /\ Succeeds(hosts[h], q)
  /\ hosts' = [hosts EXCEPT ![h] = q]
  /\ UNCHANGED <<builds, runs, served>>

(* Replacing a row in this way keeps the invariant of every host.          *)
LEMMA ReplacingKeepsInv ==
  ASSUME IInv, NEW h \in Hosts, NEW q, Replaces(h, q), NEW g \in Hosts
  PROVE  (TokenInv(g) /\ RecordInv(g) /\ RunInv(g))'
<1>1. CASE g # h
  <2>1. hosts'[g] = hosts[g]
    BY <1>1 DEF Replaces, IInv, TypeOK
  <2>2. QED
    BY <2>1 DEF Replaces, IInv, TokenInv, RecordInv, RunInv
<1>2. CASE g = h
  <2> DEFINE r == hosts[h]
  <2>1. /\ hosts'[h] = q /\ r \in HostRow /\ served[h] \in SUBSET Nat
        /\ builds[h] \in Seq(BuildRow) /\ runs[h] \in Seq(RunRow)
        /\ builds'[h] = builds[h] /\ runs'[h] = runs[h]
        /\ served'[h] = served[h]
    BY DEF Replaces, IInv, TypeOK
  <2>2. q \in HostRow /\ q.state # Absent /\ q.token \in Nat /\ r.token \in Nat
    BY <2>1 DEF Replaces, Succeeds, HostRow
  <2>3. \/ q.token > r.token
        \/ q.token = r.token /\ q.state = r.state
    BY DEF Replaces, Succeeds
  <2>4. TokenInv(h)'
    BY <2>1, <2>2, <2>3 DEF Replaces, IInv, TokenInv
  <2>5. RecordInv(h)'
    <3>1. ASSUME NEW i \in DOMAIN builds[h]
          PROVE  builds[h][i].token \in served[h] /\ builds[h][i].token <= r.token
      BY DEF IInv, RecordInv, TokenInv
    <3>2. ASSUME NEW i \in DOMAIN builds[h], builds[h][i].token = q.token
          PROVE  i = Len(builds[h]) /\ builds[h][i].state = "INSTALLING"
      <4>1. q.token = r.token
        BY <2>2, <2>3, <3>1, <3>2
      <4>2. QED
        BY <3>2, <4>1 DEF IInv, RecordInv
    <3>3. \A i, j \in DOMAIN builds[h] :
            i < j => builds[h][i].token < builds[h][j].token
      BY DEF IInv, RecordInv
    <3>4. QED
      BY <2>1, <3>1, <3>2, <3>3 DEF RecordInv
  <2>6. RunInv(h)'
    <3>1. ASSUME NEW i \in DOMAIN runs[h]
          PROVE  runs[h][i].token < q.token
      <4>1. runs[h][i] \in RunRow
        BY <2>1
      <4>2. runs[h][i].token \in Nat
        BY <4>1 DEF RunRow
      <4>3. runs[h][i].token < r.token
        BY DEF IInv, RunInv
      <4>4. QED
        BY <2>2, <2>3, <4>2, <4>3
    <3>2. QED
      BY <2>1, <3>1 DEF Replaces, IInv, RunInv
  <2>7. QED
    BY <1>2, <2>4, <2>5, <2>6
<1>3. QED
  BY <1>1, <1>2

-----------------------------------------------------------------------------
(* Requests that only replace a row: booting, registering, operating.      *)

LEMMA SucceedsIsTransitive ==
  ASSUME NEW a \in HostRow, NEW b, NEW c, Succeeds(a, b), Succeeds(b, c)
  PROVE  Succeeds(a, c)
<1>1. a.token \in Nat /\ b.token \in Nat /\ c.token \in Nat /\ c \in HostRow
  BY DEF Succeeds, HostRow
<1>2. QED
  BY <1>1 DEF Succeeds

(* The row that boot_ipxe and register_host go on with.                    *)
LEMMA RowOrRegisteredSucceeds ==
  ASSUME IInv, NEW h \in Hosts
  PROVE  Succeeds(hosts[h], RowOrRegistered(h))
<1>1. hosts[h] \in HostRow
  BY DEF IInv, TypeOK
<1>2. CASE Known(h)
  BY <1>1, <1>2 DEF RowOrRegistered, Known, Succeeds
<1>3. CASE ~ Known(h)
  <2>1. hosts[h] = NoRow
    BY <1>3 DEF IInv, TokenInv, Known
  <2>2. Succeeds(NoRow, NewHost(NoProfile, NoName, 1))
    BY NewHostSucceeds DEF ProfileId, Hostname
  <2>3. QED
    BY <1>3, <2>1, <2>2 DEF RowOrRegistered, Registered
<1>4. QED
  BY <1>2, <1>3

LEMMA DefaultProfileType ==
  ASSUME TypeOK
  PROVE  DefaultProfile \in ProfileId
BY HostAssumption DEF TypeOK, DefaultProfile

LEMMA EnrolReplaces ==
  ASSUME IInv, NEW h \in Hosts, NEW q, Succeeds(hosts[h], q),
         NEW assigned, NEW script \in SUBSET Nat, Enrol(h, q, assigned, script)
  PROVE  TypeOK' /\ Replaces(h, q)
<1>1. TypeOK /\ q \in HostRow
  BY DEF IInv, Succeeds
<1>2. hosts' \in [Hosts -> HostRow] /\ offered' \in [Hosts -> SUBSET Nat]
  BY <1>1 DEF Enrol, TypeOK
<1>3. unattendedDefault' \in ProfileId
  BY <1>1, DefaultProfileType DEF Enrol, TypeOK
<1>4. QED
  BY <1>1, <1>2, <1>3 DEF Enrol, TypeOK, Replaces

LEMMA InstallScriptType ==
  ASSUME NEW r \in HostRow
  PROVE  InstallScript(r) \in SUBSET Nat
BY DEF InstallScript, HostRow

LEMMA BootIpxeReplaces ==
  ASSUME IInv, NEW h \in Hosts, BootIpxe(h)
  PROVE  TypeOK' /\ \E q : Replaces(h, q)
<1> DEFINE r == RowOrRegistered(h)
           assigned == r.state = "PENDING" /\ UnattendedAssigns(r, DefaultProfile)
           booted == IF assigned
                     THEN ApplyUnattended(r, DefaultProfile, r.token + 1)
                     ELSE r
           script == IF Configurable(booted) THEN InstallScript(booted) ELSE {}
<1>1. Succeeds(hosts[h], r) /\ r \in HostRow /\ r.state # Absent
  BY RowOrRegisteredSucceeds DEF Succeeds
<1>2. DefaultProfile \in ProfileId
  BY DefaultProfileType DEF IInv
<1>3. Succeeds(r, ApplyUnattended(r, DefaultProfile, r.token + 1))
  BY <1>1, <1>2, NextTokenIsFresh, ApplyUnattendedSucceeds
<1>4. hosts[h] \in HostRow
  BY DEF IInv, TypeOK
<1>5. Succeeds(hosts[h], booted)
  BY <1>1, <1>3, <1>4, SucceedsIsTransitive
<1>6. script \in SUBSET Nat
  BY <1>5, InstallScriptType DEF Succeeds
<1>7. Enrol(h, booted, assigned, script)
  BY DEF BootIpxe
<1> HIDE DEF r, assigned, booted, script
<1>8. QED
  BY <1>5, <1>6, <1>7, EnrolReplaces

LEMMA RegisterHostReplaces ==
  ASSUME IInv, NEW h \in Hosts, RegisterHost(h)
  PROVE  TypeOK' /\ \E q : Replaces(h, q)
<1> DEFINE r == RowOrRegistered(h)
           d == DefaultProfile
           registered == ApplyUnattended(r, d, r.token + 1)
           assigned == UnattendedAssigns(r, d)
           script == IF UnattendedApplies(r, d)
                     THEN InstallScript(registered) ELSE {}
<1>1. Succeeds(hosts[h], r) /\ r \in HostRow /\ r.state # Absent
  BY RowOrRegisteredSucceeds DEF Succeeds
<1>2. d \in ProfileId
  BY DefaultProfileType DEF IInv
<1>3. Succeeds(r, registered)
  BY <1>1, <1>2, NextTokenIsFresh, ApplyUnattendedSucceeds
<1>4. hosts[h] \in HostRow
  BY DEF IInv, TypeOK
<1>5. Succeeds(hosts[h], registered)
  BY <1>1, <1>3, <1>4, SucceedsIsTransitive
<1>6. script \in SUBSET Nat
  BY <1>5, InstallScriptType DEF Succeeds
<1>7. Enrol(h, registered, assigned, script)
  BY DEF RegisterHost
<1> HIDE DEF r, d, registered, assigned, script
<1>8. QED
  BY <1>5, <1>6, <1>7, EnrolReplaces

LEMMA OperateReplaces ==
  ASSUME IInv, NEW h \in Hosts, NEW q, Succeeds(hosts[h], q), Operate(h, q)
  PROVE  TypeOK' /\ \E w : Replaces(h, w)
<1>1. TypeOK /\ q \in HostRow
  BY DEF IInv, Succeeds
<1>2. hosts' \in [Hosts -> HostRow] /\ ops' \in Nat
  BY <1>1 DEF Operate, TypeOK
<1>3. TypeOK' /\ Replaces(h, q)
  BY <1>1, <1>2 DEF Operate, TypeOK, Replaces
<1>4. QED
  BY <1>3

(* Every request of an operator to one host.                               *)
LEMMA HostOperatorReplaces ==
  ASSUME IInv, NEW h \in Hosts, HostOperator(h)
  PROVE  TypeOK' /\ \E w : Replaces(h, w)
<1> DEFINE r == hosts[h]
<1>1. r \in HostRow
  BY DEF IInv, TypeOK
<1>2. ~ Known(h) => r = NoRow
  BY DEF IInv, TokenInv, Known
<1>3. Known(h) => r.state # Absent
  BY DEF Known
<1>4. ASSUME NEW p \in ProfileId, NEW n \in Hostname,
             CreateHost(h, p, n) \/ CreateHostForm(h, p, n)
      PROVE  TypeOK' /\ \E w : Replaces(h, w)
  <2>1. Succeeds(r, NewHost(p, n, 1)) /\ Operate(h, NewHost(p, n, 1))
    BY <1>2, <1>4, NewHostSucceeds DEF CreateHost, CreateHostForm
  <2>2. QED
    BY <2>1, OperateReplaces
<1>5. ASSUME NEW p \in ProfileId \cup {Unset}, NEW s \in HostState \cup {Unset},
             NEW n \in Hostname \cup {Unset}, UpdateHost(h, p, s, n)
      PROVE  TypeOK' /\ \E w : Replaces(h, w)
  <2> DEFINE q == PatchHost(r, p, s, n, r.token + 1)
  <2>1. Succeeds(r, q)
    BY <1>1, <1>3, <1>5, NextTokenIsFresh, PatchHostSucceeds DEF UpdateHost
  <2>2. Operate(h, q)
    BY <1>5 DEF UpdateHost, Fresh
  <2>3. QED
    BY <2>1, <2>2, OperateReplaces
<1>6. ASSUME NEW p \in ProfileId, NEW s \in HostState, NEW n \in Hostname,
             UpdateHostForm(h, p, s, n)
      PROVE  TypeOK' /\ \E w : Replaces(h, w)
  <2> DEFINE q == SubmitHostForm(r, p, s, n, r.token + 1)
  <2>1. Succeeds(r, q)
    BY <1>1, NextTokenIsFresh, SubmitHostFormSucceeds
  <2>2. Operate(h, q)
    BY <1>6 DEF UpdateHostForm, Fresh
  <2>3. QED
    BY <2>1, <2>2, OperateReplaces
<1>7. CASE RequestInstall(h) \/ RequestInstallForm(h)
  <2>1. Succeeds(r, ReadyForInstall(r, r.token + 1))
    BY <1>1, NextTokenIsFresh, ReadyForInstallSucceeds
  <2>2. Operate(h, ReadyForInstall(r, r.token + 1))
    BY <1>7 DEF RequestInstall, RequestInstallForm, Fresh
  <2>3. QED
    BY <2>1, <2>2, OperateReplaces
<1>8. CASE DecommissionHost(h) \/ DecommissionHostForm(h)
  <2>1. Succeeds(r, Decommissioned(r, r.token + 1))
    BY <1>1, NextTokenIsFresh, DecommissionedSucceeds
  <2>2. Operate(h, Decommissioned(r, r.token + 1))
    BY <1>8 DEF DecommissionHost, DecommissionHostForm, Fresh
  <2>3. QED
    BY <2>1, <2>2, OperateReplaces
<1>9. QED
  BY <1>4, <1>5, <1>6, <1>7, <1>8 DEF HostOperator

-----------------------------------------------------------------------------
(* Requests that touch the records of the installation.                    *)

RowsInv(h) == TokenInv(h) /\ RecordInv(h) /\ RunInv(h)

(* The hosts that a request is not about keep their invariant.             *)
LEMMA OthersKeepInv ==
  ASSUME IInv, NEW g \in Hosts,
         hosts'[g] = hosts[g], builds'[g] = builds[g],
         runs'[g] = runs[g], served'[g] = served[g]
  PROVE  RowsInv(g)'
BY DEF IInv, RowsInv, TokenInv, RecordInv, RunInv

(* Serving the config of a READY host appends a record for its token,      *)
(* which no record has yet: the token would not be served and READY.       *)
LEMMA BootConfigKeepsInv ==
  ASSUME IInv, NEW h \in Hosts, NEW t, BootConfig(h, t), NEW g \in Hosts
  PROVE  TypeOK' /\ RowsInv(g)'
<1> DEFINE r == hosts[h]
           bs == builds[h]
           b == [token |-> r.token, profile |-> r.profile, state |-> "INSTALLING"]
<1>1. /\ r \in HostRow /\ bs \in Seq(BuildRow) /\ runs[h] \in Seq(RunRow)
      /\ served[h] \in SUBSET Nat /\ t = r.token /\ r.token \in Nat
      /\ r.profile \in ProfileId
  BY DEF IInv, TypeOK, BootConfig, HostByToken, HostRow
<1>2. r.state \in {"READY", "INSTALLING"} /\ r.state # Absent
  BY DEF BootConfig, Configurable, Absent
<1>3. /\ hosts'[h] = ConfigFetched(r)
      /\ builds'[h] = IF r.state = "READY" THEN Append(bs, b) ELSE bs
      /\ served'[h] = served[h] \cup {t}
      /\ runs'[h] = runs[h]
  BY DEF BootConfig, IInv, TypeOK, StartBuildRecord
<1>4. /\ ConfigFetched(r) \in HostRow
      /\ ConfigFetched(r).state = "INSTALLING"
      /\ ConfigFetched(r).token = r.token
  BY <1>1 DEF ConfigFetched, HostRow, HostState
<1>5. b \in BuildRow
  BY <1>1 DEF BuildRow, BuildState
<1>6. TypeOK'
  <2>1. hosts' \in [Hosts -> HostRow]
    BY <1>4 DEF BootConfig, IInv, TypeOK
  <2>2. builds' \in [Hosts -> Seq(BuildRow)]
    <3>1. (IF r.state = "READY" THEN StartBuildRecord(bs, r) ELSE bs)
            \in Seq(BuildRow)
      BY <1>1, <1>5 DEF StartBuildRecord
    <3>2. QED
      BY <3>1 DEF BootConfig, IInv, TypeOK
  <2>3. served' \in [Hosts -> SUBSET Nat]
    BY <1>1 DEF BootConfig, IInv, TypeOK
  <2>4. QED
    BY <2>1, <2>2, <2>3 DEF BootConfig, IInv, TypeOK
<1>7. CASE g = h
  <2>1. TokenInv(h)'
    BY <1>1, <1>2, <1>3, <1>4 DEF IInv, TokenInv, Absent
  <2>2. RecordInv(h)'
    <3>1. CASE r.state = "INSTALLING"
      <4>1. builds'[h] = bs
        BY <1>3, <3>1
      <4>2. QED
        BY <1>1, <1>3, <1>4, <4>1 DEF IInv, RecordInv
    <3>2. CASE r.state = "READY"
      <4>1. builds'[h] = Append(bs, b)
        BY <1>3, <3>2
      <4>2. r.token \notin served[h]
        BY <3>2, <1>2 DEF IInv, TokenInv
      <4>3. ASSUME NEW i \in DOMAIN bs
            PROVE  bs[i].token < r.token /\ bs[i].token \in served[h]
        <5>1. bs[i].token \in served[h] /\ bs[i].token <= r.token
          BY DEF IInv, RecordInv, TokenInv
        <5>2. QED
          BY <1>1, <4>2, <5>1
      <4>4. /\ DOMAIN Append(bs, b) = 1 .. (Len(bs) + 1)
            /\ DOMAIN bs = 1 .. Len(bs)
            /\ Len(bs) \in Nat
            /\ Len(Append(bs, b)) = Len(bs) + 1
            /\ \A i \in 1 .. Len(bs) : Append(bs, b)[i] = bs[i]
            /\ Append(bs, b)[Len(bs) + 1] = b
        BY <1>1, <1>5
      <4>5. b.token = r.token /\ b.state = "INSTALLING"
        OBVIOUS
      <4>6. \A i \in DOMAIN builds'[h] : builds'[h][i].token \in served'[h]
        BY <1>1, <1>3, <4>1, <4>3, <4>4, <4>5
      <4>7. \A i, j \in DOMAIN builds'[h] :
              i < j => builds'[h][i].token < builds'[h][j].token
        <5> SUFFICES ASSUME NEW i \in 1 .. (Len(bs) + 1),
                            NEW j \in 1 .. (Len(bs) + 1), i < j
                     PROVE  Append(bs, b)[i].token < Append(bs, b)[j].token
          BY <4>1, <4>4
        <5>1. i \in 1 .. Len(bs)
          BY <4>4
        <5>2. CASE j \in 1 .. Len(bs)
          BY <4>4, <5>1, <5>2 DEF IInv, RecordInv
        <5>3. CASE j = Len(bs) + 1
          BY <4>3, <4>4, <4>5, <5>1, <5>3
        <5>4. QED
          BY <4>4, <5>2, <5>3
      <4>8. \A i \in DOMAIN builds'[h] :
              builds'[h][i].token = hosts'[h].token
                => i = Len(builds'[h]) /\ builds'[h][i].state = "INSTALLING"
        <5> SUFFICES ASSUME NEW i \in 1 .. (Len(bs) + 1),
                            Append(bs, b)[i].token = r.token
                     PROVE  i = Len(bs) + 1 /\ Append(bs, b)[i].state = "INSTALLING"
          BY <1>3, <1>4, <4>1, <4>4
        <5>1. i \notin 1 .. Len(bs)
          <6> SUFFICES ASSUME i \in 1 .. Len(bs) PROVE FALSE
            OBVIOUS
          <6>1. bs[i].token < r.token /\ bs[i].token = r.token
            BY <4>3, <4>4
          <6>2. QED
            BY <1>1, <6>1
        <5>2. QED
          BY <4>4, <4>5, <5>1
      <4>9. QED
        BY <4>6, <4>7, <4>8 DEF RecordInv
    <3>3. QED
      BY <1>2, <3>1, <3>2
  <2>3. RunInv(h)'
    <3>1. DOMAIN bs \subseteq DOMAIN builds'[h]
      BY <1>1, <1>3, <1>5
    <3>2. ASSUME NEW i \in DOMAIN runs[h]
          PROVE  /\ runs[h][i].token < hosts'[h].token
                 /\ runs[h][i].build \in DOMAIN builds'[h]
                 /\ \A j \in DOMAIN builds'[h] :
                      builds'[h][j].token = runs[h][i].token
                        => j = runs[h][i].build
      <4>1. runs[h][i].token < r.token /\ runs[h][i].build \in DOMAIN bs
        BY DEF IInv, RunInv
      <4>2. \A j \in DOMAIN bs :
              bs[j].token = runs[h][i].token => j = runs[h][i].build
        BY DEF IInv, RunInv
      <4>3. runs[h][i].token \in Nat
        <5>1. runs[h][i] \in RunRow
          BY <1>1
        <5>2. QED
          BY <5>1 DEF RunRow
      <4>4. ASSUME NEW j \in DOMAIN builds'[h],
                   builds'[h][j].token = runs[h][i].token
            PROVE  j \in DOMAIN bs /\ builds'[h][j] = bs[j]
        <5>1. CASE builds'[h] = bs
          BY <5>1
        <5>2. CASE builds'[h] = Append(bs, b)
          <6>1. j \in 1 .. (Len(bs) + 1) /\ Append(bs, b)[Len(bs) + 1].token = r.token
            BY <1>1, <1>5, <5>2
          <6>2. j # Len(bs) + 1
            BY <1>1, <4>1, <4>3, <4>4, <5>2, <6>1
          <6>3. QED
            BY <1>1, <1>5, <5>2, <6>1, <6>2
        <5>3. QED
          BY <1>3, <5>1, <5>2
      <4>5. QED
        BY <1>3, <1>4, <3>1, <4>1, <4>2, <4>4
    <3>3. QED
      BY <1>3, <3>2 DEF IInv, RunInv
  <2>4. QED
    BY <1>6, <1>7, <2>1, <2>2, <2>3 DEF RowsInv
<1>8. CASE g # h
  <2>1. /\ hosts'[g] = hosts[g] /\ builds'[g] = builds[g]
        /\ runs'[g] = runs[g] /\ served'[g] = served[g]
    BY <1>8 DEF BootConfig, IInv, TypeOK
  <2>2. QED
    BY <1>6, <2>1, OthersKeepInv
<1>9. QED
  BY <1>7, <1>8

(* A rendering error changes the state to FAILED and keeps the token.      *)
LEMMA BootConfigFailsKeepsInv ==
  ASSUME IInv, NEW h \in Hosts, NEW t, BootConfigFails(h, t), NEW g \in Hosts
  PROVE  TypeOK' /\ RowsInv(g)'
<1> DEFINE r == hosts[h]
<1>1. r \in HostRow /\ r.state # Absent
  BY DEF IInv, TypeOK, BootConfigFails, HostByToken, Known
<1>2. /\ RenderFailed(r) \in HostRow
      /\ RenderFailed(r).state = "FAILED" /\ RenderFailed(r).token = r.token
  BY <1>1 DEF RenderFailed, HostRow, HostState
<1>3. TypeOK'
  <2>1. hosts' \in [Hosts -> HostRow]
    BY <1>2 DEF BootConfigFails, IInv, TypeOK
  <2>2. QED
    BY <2>1 DEF BootConfigFails, IInv, TypeOK
<1>4. CASE g = h
  <2>1. /\ hosts'[h] = RenderFailed(r) /\ builds'[h] = builds[h]
        /\ runs'[h] = runs[h] /\ served'[h] = served[h]
    BY DEF BootConfigFails, IInv, TypeOK
  <2>2. TokenInv(h)'
    BY <1>2, <2>1 DEF IInv, TokenInv, Absent
  <2>3. RecordInv(h)' /\ RunInv(h)'
    BY <1>2, <2>1 DEF IInv, RecordInv, RunInv
  <2>4. QED
    BY <1>3, <1>4, <2>2, <2>3 DEF RowsInv
<1>5. CASE g # h
  <2>1. /\ hosts'[g] = hosts[g] /\ builds'[g] = builds[g]
        /\ runs'[g] = runs[g] /\ served'[g] = served[g]
    BY <1>5 DEF BootConfigFails, IInv, TypeOK
  <2>2. QED
    BY <1>3, <2>1, OthersKeepInv
<1>6. QED
  BY <1>4, <1>5

(* finish_latest_build_record keeps the tokens and the number of records,  *)
(* except that a host without records gets one for its token.              *)
LEMMA FinishKeepsTokens ==
  ASSUME NEW bs \in Seq(BuildRow), NEW r \in HostRow,
         NEW outcome \in BuildState,
         NEW fs, fs = FinishLatestBuildRecord(bs, r, outcome)
  PROVE  /\ fs \in Seq(BuildRow)
         /\ bs # << >> =>
              /\ DOMAIN fs = DOMAIN bs
              /\ Len(fs) = Len(bs)
              /\ Len(bs) \in DOMAIN bs
              /\ \A i \in DOMAIN bs : fs[i].token = bs[i].token
         /\ bs = << >> =>
              /\ DOMAIN fs = {1}
              /\ Len(fs) = 1
              /\ fs[1].token = r.token
<1> DEFINE fresh == [token |-> r.token, profile |-> r.profile, state |-> outcome]
<1>1. r.token \in Nat /\ r.profile \in ProfileId
  BY DEF HostRow
<1>2. CASE bs = << >>
  <2>1. fs = << fresh >> /\ fresh \in BuildRow /\ fresh.token = r.token
    BY <1>1, <1>2 DEF FinishLatestBuildRecord, BuildRow
  <2> HIDE DEF fresh
  <2>2. /\ << fresh >> \in Seq(BuildRow) /\ DOMAIN << fresh >> = {1}
        /\ Len(<< fresh >>) = 1 /\ << fresh >>[1] = fresh
    BY <2>1
  <2>3. QED
    BY <1>2, <2>1, <2>2
<1>3. CASE bs # << >>
  <2>1. Len(bs) \in DOMAIN bs /\ bs[Len(bs)] \in BuildRow
    BY <1>3
  <2> DEFINE b == [bs[Len(bs)] EXCEPT !.state = outcome]
  <2>2. b \in BuildRow /\ b.token = bs[Len(bs)].token
    BY <2>1 DEF BuildRow
  <2>3. fs = [bs EXCEPT ![Len(bs)] = b]
    BY <1>3 DEF FinishLatestBuildRecord
  <2>4. fs \in Seq(BuildRow) /\ DOMAIN fs = DOMAIN bs /\ Len(fs) = Len(bs)
    BY <2>1, <2>2, <2>3
  <2>5. ASSUME NEW i \in DOMAIN bs
        PROVE  fs[i].token = bs[i].token
    <3>1. fs[i] = IF i = Len(bs) THEN b ELSE bs[i]
      BY <2>3
    <3> HIDE DEF b
    <3>2. QED
      BY <2>2, <3>1
  <2>6. QED
    BY <1>3, <2>1, <2>4, <2>5
<1>4. QED
  BY <1>2, <1>3

LEMMA AssetsAfterCallbackType ==
  ASSUME TypeOK, NEW h \in Hosts, NEW r \in HostRow, NEW outcome
  PROVE  AssetsAfterCallback(h, r, outcome) \subseteq AssetRow
<1>1. assets \subseteq AssetRow
  BY DEF TypeOK
<1>2. CASE HasAsset(h)
  <2>1. \A a \in assets : Activated(a) \in AssetRow
    BY <1>1, HostAssumption DEF Activated, AssetRow
  <2>2. QED
    BY <1>1, <1>2, <2>1 DEF AssetsAfterCallback
<1>3. CASE ~ HasAsset(h)
  <2>1. TagOf(h, r) \in Hosts \cup Hostname
    BY DEF TagOf, HostRow
  <2>2. NewAsset(h, r) \in AssetRow
    BY <2>1, HostAssumption DEF NewAsset, AssetRow
  <2>3. QED
    BY <1>1, <1>3, <2>2 DEF AssetsAfterCallback
<1>4. QED
  BY <1>2, <1>3

(* The run that a successful callback may queue.                           *)
LEMMA QueueAnsibleRunIs ==
  ASSUME NEW rs \in Seq(RunRow), NEW fs \in Seq(BuildRow), NEW r \in HostRow
  PROVE  /\ QueueAnsibleRun(rs, fs, r) \in Seq(RunRow)
         /\ \/ QueueAnsibleRun(rs, fs, r) = rs
            \/ \E run \in RunRow :
                 /\ QueueAnsibleRun(rs, fs, r) = Append(rs, run)
                 /\ run.token = r.token /\ run.build = Len(fs)
<1> DEFINE run == [token |-> r.token, profile |-> r.profile, build |-> Len(fs)]
<1>1. r.profile \in Playbooks => run \in RunRow
  BY ProfileAssumption DEF RunRow, HostRow
<1>2. run.token = r.token /\ run.build = Len(fs)
  OBVIOUS
<1> HIDE DEF run
<1>3. CASE r.profile \in Playbooks
  <2>1. QueueAnsibleRun(rs, fs, r) = Append(rs, run)
    BY <1>3 DEF QueueAnsibleRun, run
  <2>2. QED
    BY <1>1, <1>2, <1>3, <2>1
<1>4. CASE r.profile \notin Playbooks
  BY <1>4 DEF QueueAnsibleRun
<1>5. QED
  BY <1>3, <1>4

(* A callback retires the token it came with, closes the latest record and *)
(* appends at most one run: for that token, which no earlier run has.      *)
LEMMA BootCallbackKeepsInv ==
  ASSUME IInv, NEW h \in Hosts, NEW t \in served[h],
         NEW outcome \in {"PROVISIONED", "FAILED"}, BootCallback(h, t, outcome),
         NEW g \in Hosts
  PROVE  TypeOK' /\ RowsInv(g)'
<1> DEFINE r == hosts[h]
           bs == builds[h]
           fs == FinishLatestBuildRecord(bs, r, outcome)
           rs == runs[h]
           q == CalledBack(r, outcome, r.token + 1)
<1>1. /\ r \in HostRow /\ r.token \in Nat /\ t = r.token
      /\ bs \in Seq(BuildRow) /\ rs \in Seq(RunRow)
      /\ served[h] \in SUBSET Nat
  BY DEF IInv, TypeOK, BootCallback, HostByToken, HostRow
<1>2. q \in HostRow /\ q.token = r.token + 1 /\ q.state = outcome
  <2>1. r.token + 1 \in Nat /\ outcome \in HostState \cup {Absent}
    BY <1>1 DEF HostState
  <2>2. QED
    BY <1>1, <2>1 DEF CalledBack, HostRow
<1>3. fs = FinishLatestBuildRecord(bs, r, outcome)
  OBVIOUS
<1>4. /\ hosts'[h] = q /\ builds'[h] = fs /\ served'[h] = served[h]
      /\ hosts' = [hosts EXCEPT ![h] = q] /\ builds' = [builds EXCEPT ![h] = fs]
  BY DEF BootCallback, IInv, TypeOK, Fresh
<1> HIDE DEF q, fs
<1>5. /\ fs \in Seq(BuildRow)
      /\ Len(fs) \in DOMAIN fs
      /\ bs # << >> =>
           /\ DOMAIN fs = DOMAIN bs
           /\ \A i \in DOMAIN bs : fs[i].token = bs[i].token
      /\ bs = << >> =>
           /\ DOMAIN fs = {1}
           /\ Len(fs) = 1
           /\ fs[1].token = r.token
      /\ bs # << >> => Len(fs) = Len(bs)
  <2>1. outcome \in BuildState
    BY DEF BuildState
  <2>2. QED
    BY <1>1, <1>3, <2>1, FinishKeepsTokens
<1>6. /\ runs'[h] \in Seq(RunRow)
      /\ \/ runs'[h] = rs
         \/ \E run \in RunRow :
              /\ runs'[h] = Append(rs, run)
              /\ run.token = r.token /\ run.build = Len(fs)
  <2>1. runs'[h] = rs \/ runs'[h] = QueueAnsibleRun(rs, fs, r)
    BY <1>4 DEF BootCallback, IInv, TypeOK
  <2> DEFINE ns == QueueAnsibleRun(rs, fs, r)
  <2>2. /\ ns \in Seq(RunRow)
        /\ \/ ns = rs
           \/ \E run \in RunRow :
                /\ ns = Append(rs, run)
                /\ run.token = r.token /\ run.build = Len(fs)
    BY <1>1, <1>5, QueueAnsibleRunIs
  <2> HIDE DEF ns
  <2>3. CASE runs'[h] = rs
    BY <1>1, <2>3
  <2>4. CASE runs'[h] = ns
    BY <2>2, <2>4
  <2>5. QED
    BY <2>1, <2>3, <2>4 DEF ns
<1>7. TypeOK'
  <2>1. hosts' \in [Hosts -> HostRow] /\ builds' \in [Hosts -> Seq(BuildRow)]
    BY <1>2, <1>4, <1>5 DEF IInv, TypeOK
  <2>2. assets' \subseteq AssetRow
    BY <1>1, AssetsAfterCallbackType DEF BootCallback, IInv
  <2>3. runs' \in [Hosts -> Seq(RunRow)]
    BY <1>6 DEF BootCallback, IInv, TypeOK
  <2>4. QED
    BY <2>1, <2>2, <2>3 DEF BootCallback, IInv, TypeOK
<1>8. \A i \in DOMAIN fs : fs[i].token \in served[h] /\ fs[i].token <= r.token
  <2>1. CASE bs = << >>
    BY <1>1, <1>5, <2>1
  <2>2. CASE bs # << >>
    BY <1>1, <1>5, <2>2 DEF IInv, RecordInv, TokenInv
  <2>3. QED
    BY <2>1, <2>2
<1>9. \A j \in DOMAIN fs : fs[j].token = r.token => j = Len(fs)
  <2>1. CASE bs = << >>
    BY <1>1, <1>5, <2>1
  <2>2. CASE bs # << >>
    BY <1>1, <1>5, <2>2 DEF IInv, RecordInv
  <2>3. QED
    BY <2>1, <2>2
<1>10. \A i, j \in DOMAIN fs : i < j => fs[i].token < fs[j].token
  <2>1. CASE bs = << >>
    BY <1>1, <1>5, <2>1
  <2>2. CASE bs # << >>
    BY <1>1, <1>5, <2>2 DEF IInv, RecordInv
  <2>3. QED
    BY <2>1, <2>2
<1>11. CASE g = h
  <2>1. TokenInv(h)'
    <3>1. \A u \in served[h] : u <= r.token
      BY DEF IInv, TokenInv
    <3>2. \A u \in served[h] : u < q.token
      BY <1>1, <1>2, <3>1
    <3>3. QED
      BY <1>1, <1>2, <1>4, <3>2 DEF TokenInv, Absent
  <2>2. RecordInv(h)'
    <3>1. \A i \in DOMAIN fs : fs[i].token # q.token
      BY <1>1, <1>2, <1>8
    <3>2. QED
      BY <1>4, <1>8, <1>10, <3>1 DEF RecordInv
  <2>3. RunInv(h)'
    <3>1. ASSUME NEW i \in DOMAIN rs
          PROVE  /\ rs[i].token \in Nat /\ rs[i].token < r.token
                 /\ rs[i].build \in DOMAIN fs
                 /\ \A j \in DOMAIN fs : fs[j].token = rs[i].token => j = rs[i].build
      <4>1. rs[i] \in RunRow
        BY <1>1
      <4>2. rs[i].token \in Nat
        BY <4>1 DEF RunRow
      <4>3. /\ rs[i].token < r.token /\ rs[i].build \in DOMAIN bs
            /\ \A j \in DOMAIN bs : bs[j].token = rs[i].token => j = rs[i].build
        BY DEF IInv, RunInv
      <4>4. bs # << >>
        BY <4>3
      <4>5. DOMAIN fs = DOMAIN bs /\ \A j \in DOMAIN bs : fs[j].token = bs[j].token
        BY <1>5, <4>4
      <4>6. QED
        BY <4>2, <4>3, <4>5
    <3>2. \A i, j \in DOMAIN rs : i < j => rs[i].token < rs[j].token
      BY DEF IInv, RunInv
    <3>3. CASE runs'[h] = rs
      BY <1>1, <1>2, <1>4, <3>1, <3>2, <3>3 DEF RunInv
    <3>4. ASSUME NEW run \in RunRow, runs'[h] = Append(rs, run),
                 run.token = r.token, run.build = Len(fs)
          PROVE  RunInv(h)'
      <4> DEFINE as == Append(rs, run)
      <4>1. /\ DOMAIN as = 1 .. (Len(rs) + 1) /\ DOMAIN rs = 1 .. Len(rs)
            /\ Len(rs) \in Nat /\ as[Len(rs) + 1] = run
            /\ \A i \in DOMAIN rs : as[i] = rs[i]
        BY <1>1
      <4> HIDE DEF as
      <4>2. /\ \A i \in DOMAIN as : i \in DOMAIN rs \/ i = Len(rs) + 1
            /\ \A i, j \in DOMAIN as : i < j => i \in DOMAIN rs
        BY <4>1
      <4>3. ASSUME NEW i \in DOMAIN as
            PROVE  /\ as[i].token < q.token
                   /\ as[i].build \in DOMAIN fs
                   /\ \A j \in DOMAIN fs :
                        fs[j].token = as[i].token => j = as[i].build
        <5>1. CASE i \in DOMAIN rs
          <6>1. as[i] = rs[i]
            BY <4>1, <5>1
          <6>2. rs[i].token < q.token
            BY <1>1, <1>2, <3>1, <5>1
          <6>3. QED
            BY <3>1, <5>1, <6>1, <6>2
        <5>2. CASE i = Len(rs) + 1
          <6>1. as[i] = run
            BY <4>1, <5>2
          <6>2. as[i].token < q.token
            BY <1>1, <1>2, <3>4, <6>1
          <6>3. as[i].build \in DOMAIN fs
            BY <1>5, <3>4, <6>1
          <6>4. QED
            BY <1>9, <3>4, <6>1, <6>2, <6>3
        <5>3. QED
          BY <4>2, <5>1, <5>2
      <4>4. ASSUME NEW i \in DOMAIN as, NEW j \in DOMAIN as, i < j
            PROVE  as[i].token < as[j].token
        <5>1. i \in DOMAIN rs
          BY <4>4, <4>2
        <5>2. CASE j \in DOMAIN rs
          BY <3>2, <4>1, <4>4, <5>1, <5>2
        <5>3. CASE j = Len(rs) + 1
          BY <3>1, <3>4, <4>1, <5>1, <5>3
        <5>4. QED
          BY <4>2, <5>2, <5>3
      <4>5. runs'[h] = as
        BY <3>4 DEF as
      <4>6. QED
        BY <1>4, <4>3, <4>4, <4>5 DEF RunInv
    <3>5. QED
      BY <1>6, <3>3, <3>4
  <2>4. QED
    BY <1>7, <1>11, <2>1, <2>2, <2>3 DEF RowsInv
<1>12. CASE g # h
  <2>1. /\ hosts'[g] = hosts[g] /\ builds'[g] = builds[g]
        /\ runs'[g] = runs[g] /\ served'[g] = served[g]
    BY <1>12 DEF BootCallback, IInv, TypeOK
  <2>2. QED
    BY <1>7, <2>1, OthersKeepInv
<1>13. QED
  BY <1>11, <1>12

-----------------------------------------------------------------------------
(* The invariant is inductive.                                             *)

LEMMA InitEstablishesInv == Init => IInv
<1> SUFFICES ASSUME Init PROVE IInv
  OBVIOUS
<1>1. NoRow \in HostRow
  BY DEF NoRow, HostRow, ProfileId, Hostname, HostState
<1>2. unattendedDefault \in ProfileId
  BY HostAssumption DEF Init
<1>3. TypeOK
  BY <1>1, <1>2 DEF Init, TypeOK
<1>4. ASSUME NEW h \in Hosts
      PROVE  TokenInv(h) /\ RecordInv(h) /\ RunInv(h)
  <2>1. hosts[h] = NoRow /\ builds[h] = << >> /\ runs[h] = << >> /\ served[h] = {}
    BY DEF Init
  <2>2. DOMAIN builds[h] = {} /\ DOMAIN runs[h] = {}
    BY <2>1
  <2>3. QED
    BY <2>1, <2>2 DEF TokenInv, RecordInv, RunInv
<1>5. QED
  BY <1>3, <1>4 DEF IInv

(* Requests about assets and settings leave what the invariant is about.   *)
LEMMA OtherRequestsKeepInv ==
  ASSUME IInv, TypeOK', UNCHANGED <<hosts, builds, runs, served>>
  PROVE  IInv'
BY DEF IInv, TokenInv, RecordInv, RunInv

AssetRequest(a) ==
  \/ CreateAsset(a) \/ CreateAssetForm(a)
  \/ \E old \in assets : UpdateAsset(old, a) \/ UpdateAssetForm(old, a)

LEMMA AssetRequestTypes ==
  ASSUME TypeOK, NEW a \in AssetRow, AssetRequest(a)
  PROVE  TypeOK' /\ UNCHANGED <<hosts, builds, runs, served>>
<1>1. PICK old : SaveAsset(old, a)
  BY DEF AssetRequest, CreateAsset, CreateAssetForm, UpdateAsset, UpdateAssetForm
<1>2. QED
  BY <1>1 DEF SaveAsset, TypeOK

(* A request that only replaces the row of h.                              *)
LEMMA ReplacesKeepsIInv ==
  ASSUME IInv, TypeOK', NEW h \in Hosts, \E q : Replaces(h, q)
  PROVE  IInv'
<1>1. \A g \in Hosts : (TokenInv(g) /\ RecordInv(g) /\ RunInv(g))'
  BY ReplacingKeepsInv
<1>2. QED
  BY <1>1 DEF IInv

LEMMA MachineKeepsInv ==
  ASSUME IInv, NEW h \in Hosts, Machine(h)
  PROVE  IInv'
<1>1. CASE BootIpxe(h)
  BY <1>1, BootIpxeReplaces, ReplacesKeepsIInv
<1>2. CASE RegisterHost(h)
  BY <1>2, RegisterHostReplaces, ReplacesKeepsIInv
<1>3. CASE FetchConfig(h)
  <2>1. PICK t \in offered[h] : BootConfig(h, t)
    BY <1>3 DEF FetchConfig
  <2>2. \A g \in Hosts : TypeOK' /\ RowsInv(g)'
    BY <2>1, BootConfigKeepsInv
  <2>3. QED
    BY <2>2 DEF IInv, RowsInv
<1>4. CASE FetchConfigFails(h)
  <2>1. PICK t \in offered[h] : BootConfigFails(h, t)
    BY <1>4 DEF FetchConfigFails
  <2>2. \A g \in Hosts : TypeOK' /\ RowsInv(g)'
    BY <2>1, BootConfigFailsKeepsInv
  <2>3. QED
    BY <2>2 DEF IInv, RowsInv
<1>5. CASE CallBack(h)
  <2>1. PICK t \in served[h], outcome \in {"PROVISIONED", "FAILED"} :
               BootCallback(h, t, outcome)
    BY <1>5 DEF CallBack
  <2>2. \A g \in Hosts : TypeOK' /\ RowsInv(g)'
    BY <2>1, BootCallbackKeepsInv
  <2>3. QED
    BY <2>2 DEF IInv, RowsInv
<1>6. QED
  BY <1>1, <1>2, <1>3, <1>4, <1>5 DEF Machine

LEMMA OperatorKeepsInv ==
  ASSUME IInv, Operator
  PROVE  IInv'
<1>1. ASSUME NEW h \in Hosts, HostOperator(h)
      PROVE  IInv'
  BY <1>1, HostOperatorReplaces, ReplacesKeepsIInv
<1>2. ASSUME NEW p \in Profiles, SetUnattendedDefault(p)
      PROVE  IInv'
  <2>1. TypeOK'
    BY <1>2 DEF SetUnattendedDefault, IInv, TypeOK, ProfileId
  <2>2. QED
    BY <1>2, <2>1, OtherRequestsKeepInv DEF SetUnattendedDefault
<1>3. ASSUME NEW a \in AssetRow, AssetRequest(a)
      PROVE  IInv'
  <2>1. TypeOK' /\ UNCHANGED <<hosts, builds, runs, served>>
    BY <1>3, AssetRequestTypes DEF IInv
  <2>2. QED
    BY <2>1, OtherRequestsKeepInv
<1>4. QED
  BY <1>1, <1>2, <1>3 DEF Operator, AssetRequest

LEMMA NextKeepsInv == IInv /\ [Next]_vars => IInv'
<1> SUFFICES ASSUME IInv, [Next]_vars PROVE IInv'
  OBVIOUS
<1>1. CASE \E h \in Hosts : Machine(h)
  BY <1>1, MachineKeepsInv
<1>2. CASE Operator
  BY <1>2, OperatorKeepsInv
<1>3. CASE UNCHANGED vars
  <2>1. TypeOK'
    BY <1>3 DEF IInv, TypeOK, vars
  <2>2. QED
    BY <1>3, <2>1, OtherRequestsKeepInv DEF vars
<1>4. QED
  BY <1>1, <1>2, <1>3 DEF Next

-----------------------------------------------------------------------------
(* The inductive invariant holds in every reachable state.                 *)
THEOREM InvariantHolds == Spec => []IInv
<1>1. QED
  BY InitEstablishesInv, NextKeepsInv, PTL DEF Spec

(* Every row, record, run, asset and setting keeps its type, whatever the  *)
(* requests and their order.                                               *)
THEOREM TypeCorrect == Spec => []TypeOK
<1>1. IInv => TypeOK
  BY DEF IInv
<1>2. QED
  BY <1>1, InvariantHolds, PTL

(* No handler leaves a host outside an installation with a token that a    *)
(* machine could still call back with.                                     *)
THEOREM ServedTokensAreInstalling == Spec => []ServedTokenIsInstalling
<1>1. IInv => ServedTokenIsInstalling
  BY DEF IInv, TokenInv, ServedTokenIsInstalling
<1>2. QED
  BY <1>1, InvariantHolds, PTL

(* No token starts or closes two build records, in any order of serial     *)
(* requests.                                                               *)
THEOREM RecordsAreOnePerToken == Spec => []OneRecordPerToken
<1>1. IInv => OneRecordPerToken
  BY DEF IInv, RecordInv, OneRecordPerToken
<1>2. QED
  BY <1>1, InvariantHolds, PTL

(* "The latest record" is the record of the installation that is ending.   *)
THEOREM CurrentRecordsAreOpen == Spec => []CurrentRecordIsOpen
<1>1. IInv => CurrentRecordIsOpen
  BY DEF IInv, RecordInv, CurrentRecordIsOpen
<1>2. QED
  BY <1>1, InvariantHolds, PTL

(* No installation queues two post-install runs.                           *)
THEOREM RunsAreOnePerToken == Spec => []OneRunPerToken
<1>1. IInv => OneRunPerToken
  BY DEF IInv, RunInv, OneRunPerToken
<1>2. QED
  BY <1>1, InvariantHolds, PTL

(* Every queued run belongs to a retired token and to its record.          *)
THEOREM RunsAreForInstalls == Spec => []RunsFollowInstalls
<1>1. IInv => RunsFollowInstalls
  BY DEF IInv, RunInv, RunsFollowInstalls
<1>2. QED
  BY <1>1, InvariantHolds, PTL

(* A machine that is PROVISIONED or DECOMMISSIONED cannot change its row,  *)
(* its records or its runs: booting and registering leave its row alone,   *)
(* and none of the tokens it holds is the current one.                     *)
THEOREM FinishedMachinesStayFinished == Spec => FinishedStaysFinished
<1> DEFINE Kept == \A h \in Hosts :
             Machine(h) /\ hosts[h].state \in {"PROVISIONED", "DECOMMISSIONED"}
               => UNCHANGED <<hosts[h], builds[h], runs[h]>>
<1>1. IInv /\ [Next]_vars => [Kept]_vars
  <2> SUFFICES ASSUME IInv, NEW h \in Hosts, Machine(h),
                      hosts[h].state \in {"PROVISIONED", "DECOMMISSIONED"}
               PROVE  UNCHANGED <<hosts[h], builds[h], runs[h]>>
    OBVIOUS
  <2> DEFINE r == hosts[h]
  <2>1. RowOrRegistered(h) = r /\ r.state \notin {"PENDING", "READY"}
    BY DEF RowOrRegistered, Known, Absent
  <2>2. ~ UnattendedAssigns(r, DefaultProfile)
    BY <2>1 DEF UnattendedAssigns
  <2>3. ~ Configurable(r)
    BY DEF Configurable
  <2>4. r.token \notin served[h]
    BY DEF IInv, TokenInv
  <2>5. CASE BootIpxe(h)
    <3>1. hosts' = [hosts EXCEPT ![h] = r] /\ UNCHANGED <<builds, runs>>
      BY <2>1, <2>2, <2>5 DEF BootIpxe, Enrol
    <3>2. QED
      BY <3>1 DEF IInv, TypeOK
  <2>6. CASE RegisterHost(h)
    <3>1. hosts' = [hosts EXCEPT ![h] = r] /\ UNCHANGED <<builds, runs>>
      BY <2>1, <2>2, <2>6 DEF RegisterHost, Enrol, ApplyUnattended
    <3>2. QED
      BY <3>1 DEF IInv, TypeOK
  <2>7. ~ FetchConfig(h) /\ ~ FetchConfigFails(h)
    BY <2>3 DEF FetchConfig, FetchConfigFails, BootConfig, BootConfigFails
  <2>8. ~ CallBack(h)
    BY <2>4 DEF CallBack, BootCallback, HostByToken
  <2>9. QED
    BY <2>5, <2>6, <2>7, <2>8 DEF Machine
<1>2. QED
  BY <1>1, InvariantHolds, PTL DEF Spec, FinishedStaysFinished

-----------------------------------------------------------------------------
(* What the machine's requests may do to its own row and records.          *)

(* The row that a boot or a registration starts from.                      *)
LEMMA RowOrRegisteredIs ==
  ASSUME IInv, NEW h \in Hosts
  PROVE  /\ RowOrRegistered(h) \in HostRow
         /\ hosts[h].state = Absent
              => /\ RowOrRegistered(h).state = "PENDING"
                 /\ hosts[h].profile = NoProfile
         /\ hosts[h].state # Absent => RowOrRegistered(h) = hosts[h]
<1>1. CASE hosts[h].state = Absent
  <2>1. hosts[h].profile = NoProfile  BY <1>1 DEF IInv, TokenInv, NoRow
  <2>2. RowOrRegistered(h) = Registered(1)  BY <1>1 DEF RowOrRegistered, Known
  <2>3. Registered(1) \in HostRow /\ Registered(1).state = "PENDING"
    BY DEF Registered, NewHost, HostRow, HostState, ProfileId, Hostname
  <2> QED  BY <1>1, <2>1, <2>2, <2>3
<1>2. CASE hosts[h].state # Absent
  BY <1>2 DEF RowOrRegistered, Known, IInv, TypeOK
<1> QED  BY <1>1, <1>2

(* Without PXE_UNATTENDED_AUTO_ENROLL a machine that is unknown or PENDING *)
(* gets no script, no config and no state but PENDING, whatever it sends   *)
(* (unattended.py:63).                                                     *)
THEOREM OperatorsHaveToDecide == Spec => OperatorsDecide
<1> DEFINE Decide == \A h \in Hosts :
             Machine(h) /\ hosts[h].state \in {Absent, "PENDING"}
               => \/ UnattendedAutoEnroll
                  \/ /\ hosts'[h].state = "PENDING"
                     /\ UNCHANGED <<offered[h], served[h]>>
<1>1. IInv /\ [Next]_vars => [Decide]_vars
  <2> SUFFICES ASSUME IInv, NEW h \in Hosts, Machine(h), ~ UnattendedAutoEnroll,
                      hosts[h].state \in {Absent, "PENDING"}
               PROVE  hosts'[h].state = "PENDING" /\ UNCHANGED <<offered[h], served[h]>>
    OBVIOUS
  <2>1. PICK r : r = RowOrRegistered(h)  OBVIOUS
  <2>2. r.state = "PENDING"  BY <2>1, RowOrRegisteredIs
  <2>d. PICK d : d = DefaultProfile  OBVIOUS
  <2>3. /\ ~ UnattendedAssigns(r, d) /\ ~ UnattendedApplies(r, d)
        /\ ApplyUnattended(r, d, r.token + 1) = r
    BY DEF UnattendedAssigns, UnattendedApplies, UnattendedKeeps, ApplyUnattended
  <2>4. ~ Configurable(r) /\ ~ Configurable(hosts[h])
    BY <2>2 DEF Configurable, Absent
  <2>5. CASE BootIpxe(h)
    <3>1. /\ hosts' = [hosts EXCEPT ![h] = r]
          /\ offered' = [offered EXCEPT ![h] = @ \cup {}]
          /\ served' = served
      BY <2>1, <2>d, <2>3, <2>4, <2>5 DEF BootIpxe, Enrol
    <3> QED  BY <2>2, <3>1 DEF IInv, TypeOK
  <2>6. CASE RegisterHost(h)
    <3>1. /\ hosts' = [hosts EXCEPT ![h] = r]
          /\ offered' = [offered EXCEPT ![h] = @ \cup {}]
          /\ served' = served
      BY <2>1, <2>d, <2>3, <2>6 DEF RegisterHost, Enrol
    <3> QED  BY <2>2, <3>1 DEF IInv, TypeOK
  <2>7. ~ FetchConfig(h) /\ ~ FetchConfigFails(h)
    BY <2>4 DEF FetchConfig, FetchConfigFails, BootConfig, BootConfigFails
  <2>8. ~ CallBack(h)
    BY DEF CallBack, BootCallback, HostByToken, Known, IInv, TokenInv, Absent
  <2> QED  BY <2>5, <2>6, <2>7, <2>8 DEF Machine
<1> QED  BY <1>1, InvariantHolds, PTL DEF Spec, OperatorsDecide

(* Boots, registrations, config fetches and callbacks never replace the    *)
(* profile of a host that has left PENDING (unattended.py:65-68).          *)
THEOREM ChosenProfilesAreKept == Spec => ChosenProfileIsKept
<1> DEFINE Kept == \A h \in Hosts :
             Machine(h) /\ hosts[h].state # "PENDING"
               => hosts'[h].profile = hosts[h].profile \/ hosts[h].profile = NoProfile
<1>1. IInv /\ [Next]_vars => [Kept]_vars
  <2> SUFFICES ASSUME IInv, NEW h \in Hosts, Machine(h), hosts[h].state # "PENDING",
                      hosts[h].profile # NoProfile
               PROVE  hosts'[h].profile = hosts[h].profile
    OBVIOUS
  <2>1. PICK r : r = hosts[h]  OBVIOUS
  <2>2. r \in HostRow /\ hosts \in [Hosts -> HostRow]  BY <2>1 DEF IInv, TypeOK
  <2>3. r = RowOrRegistered(h) /\ r.profile # NoProfile /\ r.state # "PENDING"
    BY <2>1, RowOrRegisteredIs
  <2>d. PICK d : d = DefaultProfile  OBVIOUS
  <2>4. ~ UnattendedAssigns(r, d) /\ ApplyUnattended(r, d, r.token + 1) = r
    BY <2>3 DEF UnattendedAssigns, UnattendedKeeps, ApplyUnattended
  <2>5. CASE BootIpxe(h)
    <3>1. hosts' = [hosts EXCEPT ![h] = r]
      BY <2>3, <2>d, <2>4, <2>5 DEF BootIpxe, Enrol
    <3> QED  BY <2>1, <2>2, <3>1
  <2>6. CASE RegisterHost(h)
    <3>1. hosts' = [hosts EXCEPT ![h] = r]
      BY <2>3, <2>d, <2>4, <2>6 DEF RegisterHost, Enrol
    <3> QED  BY <2>1, <2>2, <3>1
  <2>7. CASE FetchConfig(h)
    <3>1. hosts' = [hosts EXCEPT ![h] = ConfigFetched(r)]
      BY <2>1, <2>7 DEF FetchConfig, BootConfig
    <3>2. ConfigFetched(r).profile = r.profile  BY <2>2 DEF ConfigFetched, HostRow
    <3> QED  BY <2>1, <2>2, <3>1, <3>2
  <2>8. CASE FetchConfigFails(h)
    <3>1. hosts' = [hosts EXCEPT ![h] = RenderFailed(r)]
      BY <2>1, <2>8 DEF FetchConfigFails, BootConfigFails
    <3>2. RenderFailed(r).profile = r.profile  BY <2>2 DEF RenderFailed, HostRow
    <3> QED  BY <2>1, <2>2, <3>1, <3>2
  <2>9. CASE CallBack(h)
    <3>1. PICK outcome : hosts' = [hosts EXCEPT ![h] = CalledBack(r, outcome, Fresh(h))]
      BY <2>1, <2>9 DEF CallBack, BootCallback
    <3>2. CalledBack(r, outcome, Fresh(h)).profile = r.profile
      BY <2>2 DEF CalledBack, HostRow
    <3> QED  BY <2>1, <2>2, <3>1, <3>2
  <2> QED  BY <2>5, <2>6, <2>7, <2>8, <2>9 DEF Machine
<1> QED  BY <1>1, InvariantHolds, PTL DEF Spec, ChosenProfileIsKept

(* While a record of the current token exists a callback closes that       *)
(* record and no other (builds.py:51-69): a config fetch only appends, and *)
(* the latest record, which a callback rewrites, is that of the token.     *)
THEOREM CallbacksCloseTheirOwnRecords == Spec => CallbackClosesOwnRecord
<1> DEFINE Own == \A h \in Hosts : \A i \in DOMAIN builds[h] :
             builds'[h][i] # builds[h][i] /\ hosts[h].token \in RecordTokens(h)
               => builds[h][i].token = hosts[h].token
<1>1. IInv /\ [Next]_vars => [Own]_vars
  <2> SUFFICES ASSUME IInv, Next, NEW h \in Hosts, NEW i \in DOMAIN builds[h],
                      builds'[h][i] # builds[h][i],
                      hosts[h].token \in RecordTokens(h)
               PROVE  builds[h][i].token = hosts[h].token
    OBVIOUS
  <2>1. builds \in [Hosts -> Seq(BuildRow)] /\ builds[h] \in Seq(BuildRow)
    BY DEF IInv, TypeOK
  <2>2. PICK g \in Hosts : FetchConfig(g) \/ CallBack(g)
    <3>1. \A g \in Hosts : ~ BootIpxe(g) /\ ~ RegisterHost(g) /\ ~ FetchConfigFails(g)
      BY DEF BootIpxe, RegisterHost, Enrol, FetchConfigFails, BootConfigFails
    <3>2. ~ Operator
      BY DEF Operator, HostOperator, CreateHost, CreateHostForm, UpdateHost,
             UpdateHostForm, RequestInstall, RequestInstallForm, DecommissionHost,
             DecommissionHostForm, Operate, SetUnattendedDefault, CreateAsset,
             CreateAssetForm, UpdateAsset, UpdateAssetForm, SaveAsset
    <3> QED  BY <3>1, <3>2 DEF Next, Machine
  <2>3. CASE FetchConfig(g)
    <3>1. \/ builds' = [builds EXCEPT ![g] = StartBuildRecord(@, hosts[g])]
          \/ builds' = [builds EXCEPT ![g] = @]
      BY <2>3 DEF FetchConfig, BootConfig
    <3>2. \A x : Append(builds[h], x)[i] = builds[h][i]
      BY <2>1
    <3> QED  BY <2>1, <3>1, <3>2 DEF StartBuildRecord
  <2>4. CASE CallBack(g)
    <3>1. PICK outcome : builds' = [builds EXCEPT ![g] =
                                      FinishLatestBuildRecord(@, hosts[g], outcome)]
      BY <2>4 DEF CallBack, BootCallback
    <3>2. g = h /\ builds[h] # << >> /\ i = Len(builds[h])
      BY <2>1, <3>1 DEF FinishLatestBuildRecord
    <3>3. PICK j \in DOMAIN builds[h] : builds[h][j].token = hosts[h].token
      BY DEF RecordTokens
    <3>4. j = Len(builds[h])  BY <3>3 DEF IInv, RecordInv
    <3> QED  BY <3>2, <3>3, <3>4
  <2> QED  BY <2>2, <2>3, <2>4
<1> QED  BY <1>1, InvariantHolds, PTL DEF Spec, CallbackClosesOwnRecord

(* No callback touches the asset of another host, and a failed one leaves  *)
(* the status that an operator gave (builds.py:48-49): a host with an asset *)
(* of its own, tagged or not, gets no other one, and one without gets a    *)
(* tag that nobody has.                                                    *)
THEOREM OtherAssetsAreKept == Spec => AssetsOfOthersAreKept
<1> DEFINE Others == \A h \in Hosts : Machine(h) =>
       /\ \A a \in assets \ assets' : a.host = h /\ hosts'[h].state = "PROVISIONED"
       /\ \A a \in assets' \ assets :
            /\ a.host = h
            /\ IF HasAsset(h) THEN hosts'[h].state = "PROVISIONED"
               ELSE \A b \in assets : b.tag # a.tag
<1>1. IInv /\ [Next]_vars => [Others]_vars
  <2> SUFFICES ASSUME IInv, NEW h \in Hosts, Machine(h), assets' # assets
               PROVE  /\ \A a \in assets \ assets' :
                           a.host = h /\ hosts'[h].state = "PROVISIONED"
                      /\ \A a \in assets' \ assets :
                           /\ a.host = h
                           /\ IF HasAsset(h) THEN hosts'[h].state = "PROVISIONED"
                              ELSE \A b \in assets : b.tag # a.tag
    OBVIOUS
  <2>1. CallBack(h)
    BY DEF Machine, BootIpxe, RegisterHost, Enrol, FetchConfig, BootConfig,
           FetchConfigFails, BootConfigFails
  <2>2. PICK t \in served[h], outcome \in {"PROVISIONED", "FAILED"} :
               BootCallback(h, t, outcome)
    BY <2>1 DEF CallBack
  <2>3. /\ ~ TagClash(h, hosts[h])
        /\ assets' = AssetsAfterCallback(h, hosts[h], outcome)
        /\ hosts' = [hosts EXCEPT ![h] = CalledBack(@, outcome, Fresh(h))]
    BY <2>2 DEF BootCallback
  <2>4. CASE HasAsset(h)
    <3>1. outcome = "PROVISIONED"
      BY <2>3, <2>4 DEF AssetsAfterCallback
    <3>2. hosts[h] \in HostRow /\ hosts \in [Hosts -> HostRow] /\ assets \subseteq AssetRow
      BY DEF IInv, TypeOK
    <3>3. hosts'[h].state = "PROVISIONED"
      BY <2>3, <3>1, <3>2 DEF CalledBack, HostRow
    <3>4. \A a \in assets : Activated(a).host = a.host
      BY <3>2 DEF Activated, AssetRow
    <3> QED  BY <2>3, <2>4, <3>3, <3>4 DEF AssetsAfterCallback
  <2>5. CASE ~ HasAsset(h)
    BY <2>3, <2>5 DEF AssetsAfterCallback, NewAsset, TagClash
  <2> QED  BY <2>4, <2>5
<1> QED  BY <1>1, InvariantHolds, PTL DEF Spec, AssetsOfOthersAreKept

-----------------------------------------------------------------------------
(***************************************************************************)
(* Overlapping requests, however many and in whatever order they load and  *)
(* commit, never bring a retired token back and never leave a served token *)
(* current outside an installation.                                        *)
(***************************************************************************)

(* The types that the argument needs.                                      *)
RowType ==
  /\ hosts \in [Hosts -> HostRow]
  /\ served \in [Hosts -> SUBSET Nat]
  /\ unattendedDefault \in ProfileId
  /\ req = [w \in Workers |-> req[w]]

(* The tokens served to h are not newer than the current one, and the      *)
(* current one is served only during an installation.                      *)
RowInv(h) ==
  /\ \A t \in served[h] : t <= hosts[h].token
  /\ hosts[h].state = Absent => hosts[h] = NoRow /\ served[h] = {}
  /\ hosts[h].token \in served[h] => hosts[h].state \in {"INSTALLING", "FAILED"}

(* The row that q loaded is not newer than the current one; as long as the *)
(* token is the same, only a config fetch can have changed the state.      *)
SnapInv(q) ==
  LET r == q.snap
      cur == hosts[q.host]
  IN  /\ q.host \in Hosts
      /\ r \in HostRow
      /\ r.token <= cur.token
      /\ r.state = Absent => r = NoRow
      /\ r.state # Absent => cur.state # Absent
      /\ r.state # Absent /\ r.token = cur.token =>
           cur.state = r.state \/ cur.state \in {"INSTALLING", "FAILED"}

(* What the guards of the loading handlers have established.               *)
ArgInv(q) ==
  LET r == q.snap IN
  /\ q.op \in MachineOps \cup
               {"create", "patch", "form", "install", "decommission"}
  /\ q.op = "config" => r.state \in {"READY", "INSTALLING"}
  /\ q.op = "callback" => /\ r.state \in {"INSTALLING", "FAILED"}
                          /\ q.arg \in {"PROVISIONED", "FAILED"}
  /\ q.op = "install" => r.state # Absent /\ r.profile # NoProfile
  /\ q.op = "decommission" => r.state # Absent
  /\ q.op = "create" => /\ r.state = Absent
                        /\ q.arg.profile \in ProfileId
                        /\ q.arg.hostname \in Hostname
  /\ q.op = "patch" => /\ r.state # Absent
                       /\ q.arg.profile \in ProfileId \cup {Unset}
                       /\ q.arg.state \in HostState \cup {Unset}
                       /\ q.arg.hostname \in Hostname \cup {Unset}
  /\ q.op = "form" => /\ r.state # Absent
                      /\ q.arg.profile \in ProfileId
                      /\ q.arg.state \in HostState
                      /\ q.arg.hostname \in Hostname

RInv ==
  /\ RowType
  /\ \A h \in Hosts : RowInv(h)
  /\ \A w \in Workers : req[w] # Idle => SnapInv(req[w]) /\ ArgInv(req[w])

(***************************************************************************)
(* What a commit does to the row of h, to the tokens served, and to the    *)
(* requests in flight: it writes a fresh token, or it leaves the token and *)
(* leaves the state too unless it is a config fetch.                       *)
(***************************************************************************)
Advances(w, h, m, S) ==
  /\ m \in HostRow /\ m.state # Absent
  /\ \/ m.token > hosts[h].token
     \/ /\ m.token = hosts[h].token
        /\ m.state = hosts[h].state \/ m.state \in {"INSTALLING", "FAILED"}
  /\ \A t \in S : t <= hosts[h].token
  /\ m.token \in served[h] \cup S => m.state \in {"INSTALLING", "FAILED"}
  /\ hosts' = [hosts EXCEPT ![h] = m]
  /\ served' = [served EXCEPT ![h] = @ \cup S]
  /\ unattendedDefault' \in ProfileId
  /\ req' = [req EXCEPT ![w] = Idle]

LEMMA AdvancingKeepsInv ==
  ASSUME RInv, NEW w \in Workers, NEW h \in Hosts, NEW m, NEW S \in SUBSET Nat,
         Advances(w, h, m, S)
  PROVE  RInv'
<1> DEFINE cur == hosts[h]
<1>1. cur \in HostRow /\ cur.token \in Nat /\ m.token \in Nat /\ m.token >= cur.token
  BY DEF RInv, RowType, Advances, HostRow
<1>2. RowType'
  BY DEF RInv, RowType, Advances
<1>3. /\ hosts'[h] = m /\ served'[h] = served[h] \cup S
      /\ \A g \in Hosts : g # h => hosts'[g] = hosts[g] /\ served'[g] = served[g]
  BY DEF RInv, RowType, Advances
<1>4. ASSUME NEW g \in Hosts
      PROVE  RowInv(g)'
  <2>1. CASE g # h
    BY <1>3, <2>1 DEF RInv, RowInv
  <2>2. CASE g = h
    <3>1. \A t \in served[h] : t <= cur.token
      BY DEF RInv, RowInv
    <3>2. \A t \in served[h] \cup S : t \in Nat /\ t <= cur.token
      BY <3>1 DEF Advances, RInv, RowType
    <3>3. \A t \in served[h] \cup S : t <= m.token
      BY <1>1, <3>2
    <3>4. QED
      BY <1>3, <2>2, <3>3 DEF Advances, RowInv
  <2>3. QED
    BY <2>1, <2>2
<1>5. ASSUME NEW v \in Workers, req'[v] # Idle
      PROVE  SnapInv(req[v])' /\ ArgInv(req[v])'
  <2>1. PICK q : q = req'[v]
    OBVIOUS
  <2>2. req[v] = q /\ q # Idle
    BY <1>5, <2>1 DEF Advances, RInv, RowType
  <2>3. SnapInv(q) /\ ArgInv(q)
    BY <2>2 DEF RInv
  <2>4. SnapInv(q)'
    <3>1. CASE q.host # h
      <4>1. hosts'[q.host] = hosts[q.host]
        BY <1>3, <2>3, <3>1 DEF SnapInv
      <4>2. QED
        BY <2>3, <4>1 DEF SnapInv
    <3>2. CASE q.host = h
      <4>1. q.snap.token \in Nat /\ q.snap.token <= cur.token
        BY <2>3, <3>2 DEF SnapInv, HostRow
      <4>2. q.snap.token <= m.token
        BY <1>1, <4>1
      <4>3. q.snap.state # Absent /\ q.snap.token = m.token =>
              m.state = q.snap.state \/ m.state \in {"INSTALLING", "FAILED"}
        <5> SUFFICES ASSUME q.snap.state # Absent, q.snap.token = m.token
                     PROVE  m.state = q.snap.state \/ m.state \in {"INSTALLING", "FAILED"}
          OBVIOUS
        <5>1. m.token = cur.token
          BY <1>1, <4>1
        <5>2. cur.state = q.snap.state \/ cur.state \in {"INSTALLING", "FAILED"}
          BY <2>3, <3>2, <5>1 DEF SnapInv
        <5>3. m.state = cur.state \/ m.state \in {"INSTALLING", "FAILED"}
          BY <1>1, <5>1 DEF Advances
        <5>4. QED
          BY <5>2, <5>3
      <4>4. m.state # Absent
        BY DEF Advances
      <4>5. QED
        BY <1>3, <2>3, <3>2, <4>2, <4>3, <4>4 DEF SnapInv
    <3>3. QED
      BY <3>1, <3>2
  <2>5. QED
    BY <2>1, <2>3, <2>4 DEF SnapInv, ArgInv
<1>6. QED
  BY <1>2, <1>4, <1>5 DEF RInv

-----------------------------------------------------------------------------
(* What the UPDATE leaves when the request's row succeeds the loaded one.  *)
LEMMA WrittenRow ==
  ASSUME NEW h \in Hosts, hosts[h] \in HostRow, NEW r \in HostRow,
         NEW new, r.token <= hosts[h].token,
         r.state # Absent => hosts[h].state # Absent,
         Succeeds(r, new), new.token \in {r.token, Fresh(h)},
         NEW m, m = WriteChangedColumns(h, r, new)
  PROVE  /\ m \in HostRow /\ m.state # Absent
         /\ \/ m.token = Fresh(h) /\ new.token = Fresh(h)
            \/ /\ m.token = hosts[h].token /\ m.state = hosts[h].state
               /\ new.token = r.token
<1> DEFINE cur == hosts[h]
           t == Fresh(h)
<1>1. t \in Nat /\ t > cur.token
  BY DEF Fresh, HostRow
<1> HIDE DEF t
<1>2. /\ new \in HostRow /\ new.state # Absent
      /\ cur.token \in Nat /\ r.token \in Nat /\ new.token \in Nat
  BY DEF Succeeds, HostRow
<1>3. /\ m.state = Column(cur.state, r.state, new.state)
      /\ m.token = Column(cur.token, r.token, new.token)
  BY DEF WriteChangedColumns
<1>4. m \in HostRow
  BY <1>2 DEF WriteChangedColumns, Column, HostRow
<1>5. m.state # Absent
  BY <1>2, <1>3 DEF Column
<1>6. CASE new.token = t
  <2>1. m.token = t
    BY <1>1, <1>2, <1>3, <1>6 DEF Column
  <2>2. QED
    BY <1>4, <1>5, <1>6, <2>1 DEF t
<1>7. CASE new.token = r.token
  <2>1. new.state = r.state
    BY <1>2, <1>7 DEF Succeeds
  <2>2. m.token = cur.token /\ m.state = cur.state
    BY <1>3, <1>7, <2>1 DEF Column
  <2>3. QED
    BY <1>4, <1>5, <1>7, <2>2
<1>8. QED
  BY <1>6, <1>7 DEF t

(* What the invariant says of the request that commits.                    *)
LEMMA CommitFacts ==
  ASSUME RInv, NEW w \in InFlight, NEW q, q = req[w]
  PROVE  /\ w \in Workers /\ q.host \in Hosts
         /\ hosts[q.host] \in HostRow /\ hosts[q.host].token \in Nat
         /\ served[q.host] \in SUBSET Nat
         /\ q.snap \in HostRow /\ q.snap.token \in Nat
         /\ q.snap.token <= hosts[q.host].token
         /\ Fresh(q.host) \in Nat /\ Fresh(q.host) > hosts[q.host].token
         /\ Fresh(q.host) > q.snap.token
         /\ q.snap.state # Absent => hosts[q.host].state # Absent
         /\ SnapInv(q) /\ ArgInv(q) /\ RowInv(q.host)
<1>1. w \in Workers /\ SnapInv(q) /\ ArgInv(q)
  BY DEF InFlight, RInv
<1>2. /\ hosts[q.host] \in HostRow /\ served[q.host] \in SUBSET Nat
      /\ RowInv(q.host)
  BY <1>1 DEF RInv, RowType, SnapInv
<1>3. hosts[q.host].token \in Nat /\ q.snap.token \in Nat
  BY <1>1, <1>2 DEF SnapInv, HostRow
<1>4. QED
  BY <1>1, <1>2, <1>3 DEF SnapInv, Fresh

(* An UPDATE of that kind advances the host, whatever is served meanwhile. *)
LEMMA WritingAdvances ==
  ASSUME RInv, NEW w \in InFlight, NEW q, q = req[w], NEW new,
         Succeeds(q.snap, new), new.token \in {q.snap.token, Fresh(q.host)},
         hosts' = [hosts EXCEPT ![q.host] =
                     WriteChangedColumns(q.host, q.snap, new)],
         UNCHANGED served, unattendedDefault' \in ProfileId, Done(w)
  PROVE  \E m : Advances(w, q.host, m, {})
<1>1. PICK h, r, m : h = q.host /\ r = q.snap /\ m = WriteChangedColumns(h, r, new)
  OBVIOUS
<1> DEFINE t == Fresh(h)
<1>2. /\ m \in HostRow /\ m.state # Absent
      /\ \/ m.token = t
         \/ m.token = hosts[h].token /\ m.state = hosts[h].state
  <2>1. /\ h \in Hosts /\ hosts[h] \in HostRow /\ r \in HostRow
        /\ r.token <= hosts[h].token
        /\ r.state # Absent => hosts[h].state # Absent
    BY <1>1, CommitFacts
  <2>2. Succeeds(r, new) /\ new.token \in {r.token, Fresh(h)}
    BY <1>1
  <2>3. m = WriteChangedColumns(h, r, new)
    BY <1>1
  <2>4. QED
    BY <2>1, <2>2, <2>3, WrittenRow
<1>3. served' = [served EXCEPT ![h] = @ \cup {}]
  BY <1>1, CommitFacts DEF RInv, RowType
<1>4. m.token \in served[h] => m.state \in {"INSTALLING", "FAILED"}
  <2>1. \A u \in served[h] : u <= hosts[h].token
    BY <1>1, CommitFacts DEF RowInv
  <2>2. t \notin served[h]
    BY <1>1, <2>1, CommitFacts
  <2>3. QED
    BY <1>2, <1>1, <2>2, CommitFacts DEF RowInv
<1>5. \/ m.token > hosts[h].token
      \/ m.token = hosts[h].token /\ m.state = hosts[h].state
  BY <1>2, <1>1, CommitFacts
<1>6. Advances(w, h, m, {})
  BY <1>2, <1>3, <1>4, <1>5, <1>1 DEF Advances, Done
<1>7. QED
  BY <1>6, <1>1

-----------------------------------------------------------------------------
(* Each commit advances the host that its request is about.                *)

LEMMA CommitOperatorAdvances ==
  ASSUME RInv, NEW w \in InFlight, NEW q, q = req[w], CommitOperator(w, q)
  PROVE  \E m : Advances(w, q.host, m, {})
<1> DEFINE h == q.host
           t == Fresh(h)
<1>1. /\ q.snap \in HostRow /\ t \in Nat /\ t > q.snap.token /\ t > 0
      /\ SnapInv(q) /\ ArgInv(q)
  BY CommitFacts
<1> HIDE DEF t
<1>2. Succeeds(q.snap, Operated(q)) /\ Operated(q).token \in {q.snap.token, t}
  <2>1. CASE q.op = "create"
    <3>1. q.snap = NoRow
      BY <1>1, <2>1 DEF SnapInv, ArgInv
    <3>2. Operated(q) = NewHost(q.arg.profile, q.arg.hostname, t)
      BY <2>1 DEF Operated, t
    <3>3. q.arg.profile \in ProfileId /\ q.arg.hostname \in Hostname
      BY <1>1, <2>1 DEF ArgInv
    <3>4. QED
      BY <1>1, <3>1, <3>2, <3>3, NewHostSucceeds DEF NewHost
  <2>2. CASE q.op = "patch"
    <3>1. /\ q.arg.profile \in ProfileId \cup {Unset}
          /\ q.arg.state \in HostState \cup {Unset}
          /\ q.arg.hostname \in Hostname \cup {Unset}
          /\ q.snap.state # Absent
      BY <1>1, <2>2 DEF ArgInv
    <3>2. Operated(q) =
            PatchHost(q.snap, q.arg.profile, q.arg.state, q.arg.hostname, t)
      BY <2>2 DEF Operated, t
    <3>3. QED
      BY <1>1, <3>1, <3>2, PatchHostSucceeds
  <2>3. CASE q.op = "form"
    <3>1. /\ q.arg.profile \in ProfileId /\ q.arg.state \in HostState
          /\ q.arg.hostname \in Hostname
      BY <1>1, <2>3 DEF ArgInv
    <3>2. Operated(q) =
            SubmitHostForm(q.snap, q.arg.profile, q.arg.state, q.arg.hostname, t)
      BY <2>3 DEF Operated, t
    <3>3. QED
      BY <1>1, <3>1, <3>2, SubmitHostFormSucceeds
  <2>4. CASE q.op = "install"
    <3>1. Operated(q) = ReadyForInstall(q.snap, t)
      BY <2>4 DEF Operated, t
    <3>2. QED
      BY <1>1, <3>1, ReadyForInstallSucceeds
  <2>5. CASE q.op = "decommission"
    <3>1. Operated(q) = Decommissioned(q.snap, t)
      BY <2>5 DEF Operated, t
    <3>2. QED
      BY <1>1, <3>1, DecommissionedSucceeds
  <2>6. q.op \in {"create", "patch", "form", "install", "decommission"}
    BY <1>1 DEF CommitOperator, ArgInv
  <2>7. QED
    BY <2>1, <2>2, <2>3, <2>4, <2>5, <2>6
<1>3. /\ hosts' = [hosts EXCEPT ![q.host] =
                     WriteChangedColumns(q.host, q.snap, Operated(q))]
      /\ UNCHANGED served /\ unattendedDefault' \in ProfileId /\ Done(w)
  BY DEF CommitOperator, Operate, RInv, RowType
<1>4. QED
  BY <1>2, <1>3, WritingAdvances DEF t

LEMMA CommitCallbackAdvances ==
  ASSUME RInv, NEW w \in InFlight, NEW q, q = req[w], CommitCallback(w, q)
  PROVE  \E m : Advances(w, q.host, m, {})
<1> DEFINE t == Fresh(q.host)
           new == CalledBack(q.snap, q.arg, t)
<1>1. q.snap \in HostRow /\ t \in Nat /\ t > q.snap.token /\ ArgInv(q)
  BY CommitFacts
<1>2. q.arg \in HostState /\ q.arg # Absent
  BY <1>1 DEF CommitCallback, ArgInv, HostState, Absent
<1> HIDE DEF t
<1>3. new \in HostRow /\ new.state = q.arg /\ new.token = t
  BY <1>1, <1>2 DEF CalledBack, HostRow
<1>4. Succeeds(q.snap, new) /\ new.token \in {q.snap.token, t}
  BY <1>1, <1>2, <1>3 DEF Succeeds
<1>5. /\ hosts' = [hosts EXCEPT ![q.host] =
                     WriteChangedColumns(q.host, q.snap, new)]
      /\ UNCHANGED served /\ unattendedDefault' \in ProfileId /\ Done(w)
  BY DEF CommitCallback, RInv, RowType, t
<1> HIDE DEF new
<1>6. QED
  BY <1>4, <1>5, WritingAdvances DEF t

(* The config fetch is the one request that may change the state and not   *)
(* the token: to INSTALLING or FAILED.                                     *)
LEMMA FetchedRow ==
  ASSUME RInv, NEW w \in InFlight, NEW q, q = req[w], q.op = "config",
         NEW new, new = ConfigFetched(q.snap) \/ new = RenderFailed(q.snap),
         NEW m, m = WriteChangedColumns(q.host, q.snap, new)
  PROVE  /\ m \in HostRow /\ m.state # Absent
         /\ m.token = hosts[q.host].token
         /\ \/ m.state \in {"INSTALLING", "FAILED"}
            \/ /\ m.state = hosts[q.host].state
               /\ m.token # q.snap.token
<1> DEFINE cur == hosts[q.host]
           r == q.snap
<1>1. /\ cur \in HostRow /\ r \in HostRow /\ r.state \in {"READY", "INSTALLING"}
      /\ cur.state # Absent
  BY CommitFacts DEF ArgInv, Absent
<1>2. /\ new \in HostRow /\ new.token = r.token
      /\ new.state \in {"INSTALLING", "FAILED"}
  BY <1>1 DEF ConfigFetched, RenderFailed, HostRow, HostState
<1>3. /\ m.state = Column(cur.state, r.state, new.state)
      /\ m.token = Column(cur.token, r.token, new.token)
  BY DEF WriteChangedColumns
<1>4. m \in HostRow
  BY <1>1, <1>2 DEF WriteChangedColumns, Column, HostRow
<1>5. m.token = cur.token
  BY <1>2, <1>3 DEF Column
<1>6. \/ m.state = new.state
      \/ m.state = cur.state /\ r.state = "INSTALLING"
  BY <1>1, <1>2, <1>3 DEF Column
<1>7. r.token = cur.token /\ r.state = "INSTALLING" =>
        cur.state \in {"INSTALLING", "FAILED"}
  BY <1>1, CommitFacts DEF SnapInv, Absent
<1>8. m.state # Absent
  BY <1>1, <1>2, <1>6 DEF Absent
<1>9. QED
  BY <1>2, <1>4, <1>5, <1>6, <1>7, <1>8

LEMMA CommitConfigAdvances ==
  ASSUME RInv, NEW w \in InFlight, NEW q, q = req[w],
         CommitConfig(w, q) \/ CommitConfigFails(w, q)
  PROVE  \E m : \E S \in SUBSET Nat : Advances(w, q.host, m, S)
<1>1. PICK h, r : h = q.host /\ r = q.snap
  OBVIOUS
<1>2. PICK new, S, m :
        /\ \/ new = ConfigFetched(r) /\ S = {r.token}
           \/ new = RenderFailed(r) /\ S = {}
        /\ m = WriteChangedColumns(h, r, new)
        /\ hosts' = [hosts EXCEPT ![h] = m]
        /\ served' = [served EXCEPT ![h] = @ \cup S]
  <2>1. CASE CommitConfig(w, q)
    BY <1>1, <2>1 DEF CommitConfig
  <2>2. CASE CommitConfigFails(w, q)
    <3>1. served' = [served EXCEPT ![h] = @ \cup {}]
      BY <1>1, <2>2, CommitFacts DEF CommitConfigFails, RInv, RowType
    <3>2. QED
      BY <1>1, <2>2, <3>1 DEF CommitConfigFails
  <2>3. QED
    BY <2>1, <2>2
<1>3. /\ q.op = "config" /\ Done(w) /\ unattendedDefault' \in ProfileId
  BY DEF CommitConfig, CommitConfigFails, RInv, RowType
<1>4. /\ m \in HostRow /\ m.state # Absent /\ m.token = hosts[h].token
      /\ \/ m.state \in {"INSTALLING", "FAILED"}
         \/ m.state = hosts[h].state /\ m.token # r.token
  BY <1>1, <1>2, <1>3, FetchedRow
<1>5. S \in SUBSET Nat /\ \A t \in S : t <= hosts[h].token /\ t = r.token
  BY <1>1, <1>2, CommitFacts
<1>6. m.token \in served[h] \cup S => m.state \in {"INSTALLING", "FAILED"}
  BY <1>1, <1>4, <1>5, CommitFacts DEF RowInv
<1>7. Advances(w, h, m, S)
  BY <1>2, <1>3, <1>4, <1>5, <1>6 DEF Advances, Done
<1>8. QED
  BY <1>1, <1>5, <1>7

(* Booting and registering write a fresh token or nothing; a row that they *)
(* insert is new as a whole.                                               *)
LEMMA CommitBootAdvances ==
  ASSUME RInv, NEW w \in InFlight, NEW q, q = req[w], CommitBoot(w, q)
  PROVE  \E m : Advances(w, q.host, m, {})
<1> DEFINE h == q.host
           r == Base(q)
           d == DefaultProfile
           t == RowOrRegistered(h).token + 1
           assigned == /\ UnattendedAssigns(r, d)
                       /\ q.op = "boot" => r.state = "PENDING"
           booted == IF assigned THEN ApplyUnattended(r, d, t) ELSE r
<1>1. d \in ProfileId
  BY HostAssumption DEF DefaultProfile, RInv, RowType
<1>2. /\ hosts' = [hosts EXCEPT ![h] = WriteChangedColumns(h, q.snap, booted)]
      /\ UNCHANGED served
      /\ unattendedDefault' = IF assigned THEN d ELSE unattendedDefault
      /\ Done(w) /\ Insertable(q)
  BY DEF CommitBoot, Enrol
<1>3. unattendedDefault' \in ProfileId
  BY <1>1, <1>2 DEF RInv, RowType
<1>4. /\ hosts[h] \in HostRow /\ q.snap \in HostRow /\ h \in Hosts
      /\ q.snap.token <= hosts[h].token
      /\ SnapInv(q) /\ RowInv(h)
  BY CommitFacts
<1> HIDE DEF d, assigned
<1>5. CASE q.snap.state # Absent
  <2>1. r = q.snap /\ t = Fresh(h)
    BY <1>4, <1>5 DEF Base, RowOrRegistered, Known, SnapInv, Fresh
  <2>2. Fresh(h) \in Nat /\ Fresh(h) > q.snap.token
    BY CommitFacts
  <2> HIDE DEF t
  <2>3. /\ Succeeds(q.snap, ApplyUnattended(r, d, t))
        /\ ApplyUnattended(r, d, t).token \in {q.snap.token, Fresh(h)}
    BY <1>1, <1>4, <1>5, <2>1, <2>2, ApplyUnattendedSucceeds
  <2>4. Succeeds(q.snap, q.snap)
    BY <1>4, <1>5 DEF Succeeds
  <2>5. Succeeds(q.snap, booted) /\ booted.token \in {q.snap.token, Fresh(h)}
    BY <2>1, <2>3, <2>4
  <2> HIDE DEF booted
  <2>6. QED
    BY <1>2, <1>3, <2>5, WritingAdvances
<1>6. CASE q.snap.state = Absent
  <2>1. q.snap = NoRow /\ hosts[h] = NoRow /\ served[h] = {}
    BY <1>2, <1>4, <1>6 DEF SnapInv, RowInv, Insertable, Known
  <2>2. r = Registered(1) /\ r = NewHost(NoProfile, NoName, 1)
    BY <1>6 DEF Base, Registered
  <2>3. r \in HostRow /\ r.state # Absent /\ r.token = 1
    BY <2>2, NewHostSucceeds DEF Succeeds, NewHost, ProfileId, Hostname
  <2>4. t = 2
    BY <2>1, <2>2, <2>3 DEF RowOrRegistered, Known, NoRow
  <2> HIDE DEF r, t
  <2>5. /\ Succeeds(r, ApplyUnattended(r, d, t))
        /\ ApplyUnattended(r, d, t).token \in {1, 2}
    BY <1>1, <2>3, <2>4, ApplyUnattendedSucceeds
  <2>6. booted \in HostRow /\ booted.state # Absent /\ booted.token \in {1, 2}
    BY <2>3, <2>5 DEF Succeeds
  <2> HIDE DEF booted
  <2>7. PICK m : m = WriteChangedColumns(h, q.snap, booted)
    OBVIOUS
  <2>8. /\ m.state = booted.state /\ m.token = booted.token
        /\ m \in HostRow
    BY <2>1, <2>6, <2>7 DEF WriteChangedColumns, Column, HostRow
  <2>9. m.token > hosts[h].token /\ m.state # Absent
    BY <2>1, <2>6, <2>8 DEF NoRow
  <2>10. served' = [served EXCEPT ![h] = @ \cup {}]
    BY <1>2, <1>4 DEF RInv, RowType
  <2>11. Advances(w, h, m, {})
    BY <1>2, <1>3, <2>1, <2>7, <2>8, <2>9, <2>10 DEF Advances, Done
  <2>12. QED
    BY <2>11
<1>7. QED
  BY <1>5, <1>6

LEMMA CommitAdvances ==
  ASSUME RInv, NEW w \in InFlight, Commit(w, req[w])
  PROVE  /\ req[w].host \in Hosts
         /\ \E m : \E S \in SUBSET Nat : Advances(w, req[w].host, m, S)
<1>1. PICK q : q = req[w]
  OBVIOUS
<1>2. q.host \in Hosts
  BY <1>1, CommitFacts
<1>3. \E m : \E S \in SUBSET Nat : Advances(w, q.host, m, S)
  <2>1. CASE CommitBoot(w, q)
    BY <1>1, <2>1, CommitBootAdvances
  <2>2. CASE CommitConfig(w, q) \/ CommitConfigFails(w, q)
    BY <1>1, <2>2, CommitConfigAdvances
  <2>3. CASE CommitCallback(w, q)
    BY <1>1, <2>3, CommitCallbackAdvances
  <2>4. CASE CommitOperator(w, q)
    BY <1>1, <2>4, CommitOperatorAdvances
  <2>5. QED
    BY <1>1, <2>1, <2>2, <2>3, <2>4 DEF Commit
<1>4. QED
  BY <1>1, <1>2, <1>3

-----------------------------------------------------------------------------
(* Loading establishes what commits rely on.                               *)

LEMMA LoadingKeepsInv ==
  ASSUME RInv, NEW w \in Workers, NEW h \in Hosts, NEW op, NEW arg,
         Load(w, h, op, arg),
         NEW q, q = [op |-> op, host |-> h, snap |-> hosts[h], arg |-> arg],
         ArgInv(q)
  PROVE  RInv'
<1>1. SnapInv(q)
  BY DEF RInv, RowType, RowInv, SnapInv, HostRow
<1>2. RowType' /\ \A g \in Hosts : RowInv(g)'
  BY DEF Load, vars, RInv, RowType, RowInv
<1>3. ASSUME NEW v \in Workers, req'[v] # Idle
      PROVE  (SnapInv(req[v]) /\ ArgInv(req[v]))'
  <2>1. PICK p : p = req'[v]
    OBVIOUS
  <2>2. SnapInv(p) /\ ArgInv(p)
    <3>1. CASE v = w
      BY <1>1, <2>1, <3>1 DEF Load, RInv, RowType
    <3>2. CASE v # w
      <4>1. req[v] = p /\ p # Idle
        BY <1>3, <2>1, <3>2 DEF Load, RInv, RowType
      <4>2. QED
        BY <4>1 DEF RInv
    <3>3. QED
      BY <3>1, <3>2
  <2>3. hosts' = hosts
    BY DEF Load, vars
  <2>4. QED
    BY <2>1, <2>2, <2>3 DEF SnapInv, ArgInv
<1>4. QED
  BY <1>2, <1>3 DEF RInv

(* Every request that is loaded has the arguments its commit expects.      *)
LEMMA LoadsKeepInv ==
  ASSUME RInv, NEW w \in Workers, NEW h \in Hosts,
         \/ LoadBoot(w, h) \/ LoadConfig(w, h)
         \/ LoadCallback(w, h) \/ LoadOperator(w, h)
  PROVE  RInv'
<1> DEFINE q(op, arg) == [op |-> op, host |-> h, snap |-> hosts[h], arg |-> arg]
<1>1. SUFFICES \E op, arg : Load(w, h, op, arg) /\ ArgInv(q(op, arg))
  BY LoadingKeepsInv
<1>2. CASE LoadBoot(w, h)
  BY <1>2 DEF LoadBoot, ArgInv, MachineOps
<1>3. CASE LoadConfig(w, h)
  BY <1>3 DEF LoadConfig, Configurable, ArgInv, MachineOps
<1>4. CASE LoadCallback(w, h)
  BY <1>4 DEF LoadCallback, RInv, RowInv, ArgInv, MachineOps
<1>5. CASE LoadOperator(w, h)
  <2>1. ASSUME NEW p \in ProfileId, NEW n \in Hostname, ~ Known(h),
               Load(w, h, "create", [profile |-> p, hostname |-> n])
        PROVE  \E op, arg : Load(w, h, op, arg) /\ ArgInv(q(op, arg))
    BY <2>1 DEF Known, ArgInv
  <2>2. ASSUME NEW p \in ProfileId \cup {Unset}, NEW s \in HostState \cup {Unset},
               NEW n \in Hostname \cup {Unset}, Known(h),
               Load(w, h, "patch", [profile |-> p, state |-> s, hostname |-> n])
        PROVE  \E op, arg : Load(w, h, op, arg) /\ ArgInv(q(op, arg))
    BY <2>2 DEF Known, ArgInv
  <2>3. ASSUME NEW p \in ProfileId, NEW s \in HostState, NEW n \in Hostname,
               Known(h),
               Load(w, h, "form", [profile |-> p, state |-> s, hostname |-> n])
        PROVE  \E op, arg : Load(w, h, op, arg) /\ ArgInv(q(op, arg))
    BY <2>3 DEF Known, ArgInv
  <2>4. ASSUME Known(h),
               \/ hosts[h].profile # NoProfile /\ Load(w, h, "install", "none")
               \/ Load(w, h, "decommission", "none")
        PROVE  \E op, arg : Load(w, h, op, arg) /\ ArgInv(q(op, arg))
    BY <2>4 DEF Known, ArgInv
  <2>5. QED
    BY <1>5, <2>1, <2>2, <2>3, <2>4 DEF LoadOperator
<1>6. QED
  BY <1>2, <1>3, <1>4, <1>5

LEMMA RollbackKeepsInv ==
  ASSUME RInv, NEW w \in Workers, Rollback(w) \/ UNCHANGED requestVars
  PROVE  RInv'
<1>1. /\ UNCHANGED <<hosts, served, unattendedDefault>>
      /\ req' = [req EXCEPT ![w] = Idle] \/ req' = req
  BY DEF Rollback, Done, vars, requestVars
<1>2. RowType' /\ \A g \in Hosts : RowInv(g)'
  BY <1>1 DEF RInv, RowType, RowInv
<1>3. ASSUME NEW v \in Workers, req'[v] # Idle
      PROVE  (SnapInv(req[v]) /\ ArgInv(req[v]))'
  <2>1. req'[v] = req[v]
    BY <1>1, <1>3 DEF RInv, RowType
  <2>2. QED
    BY <1>1, <1>3, <2>1 DEF RInv, SnapInv, ArgInv
<1>4. QED
  BY <1>2, <1>3 DEF RInv

LEMMA RequestInitEstablishesInv == RequestInit => RInv
<1> SUFFICES ASSUME RequestInit PROVE RInv
  OBVIOUS
<1>1. IInv
  BY InitEstablishesInv DEF RequestInit
<1>2. RowType /\ \A h \in Hosts : RowInv(h)
  BY <1>1 DEF RequestInit, IInv, TypeOK, TokenInv, RowType, RowInv
<1>3. \A w \in Workers : req[w] = Idle
  BY DEF RequestInit
<1>4. QED
  BY <1>2, <1>3 DEF RInv

LEMMA RequestNextKeepsInv == RInv /\ [RequestNext]_requestVars => RInv'
<1> SUFFICES ASSUME RInv, [RequestNext]_requestVars PROVE RInv'
  OBVIOUS
<1>1. ASSUME NEW w \in Workers, NEW h \in Hosts,
             \/ LoadBoot(w, h) \/ LoadConfig(w, h)
             \/ LoadCallback(w, h) \/ LoadOperator(w, h)
      PROVE  RInv'
  BY <1>1, LoadsKeepInv
<1>2. ASSUME NEW w \in InFlight, Commit(w, req[w])
      PROVE  RInv'
  <2>1. PICK h \in Hosts : \E m : \E S \in SUBSET Nat : Advances(w, h, m, S)
    BY <1>2, CommitAdvances
  <2>2. PICK m : \E S \in SUBSET Nat : Advances(w, h, m, S)
    BY <2>1
  <2>3. QED
    BY <2>2, AdvancingKeepsInv DEF InFlight
<1>3. ASSUME NEW w \in InFlight, Rollback(w)
      PROVE  RInv'
  BY <1>3, RollbackKeepsInv DEF InFlight
<1>4. CASE UNCHANGED requestVars
  <2>1. /\ hosts' = hosts /\ served' = served /\ req' = req
        /\ unattendedDefault' = unattendedDefault
    BY <1>4 DEF requestVars, vars
  <2>2. QED
    BY <2>1 DEF RInv, RowType, RowInv, SnapInv, ArgInv
<1>5. QED
  BY <1>1, <1>2, <1>3, <1>4 DEF RequestNext

(* The invariant of the overlapping requests holds in every state.         *)
THEOREM RequestInvariantHolds == RequestSpec => []RInv
<1>1. QED
  BY RequestInitEstablishesInv, RequestNextKeepsInv, PTL DEF RequestSpec

(* Also when any number of requests overlap on one host, no host is left   *)
(* outside an installation with a token a machine could call back with.    *)
THEOREM OverlapKeepsServedTokens == RequestSpec => []ServedTokenIsInstalling
<1>1. RInv => ServedTokenIsInstalling
  BY DEF RInv, RowInv, ServedTokenIsInstalling
<1>2. QED
  BY <1>1, RequestInvariantHolds, PTL

LEMMA TokensRise ==
  ASSUME RInv, RequestNext, NEW h \in Hosts
  PROVE  hosts'[h].token >= hosts[h].token
<1>1. hosts[h].token \in Nat
  BY DEF RInv, RowType, HostRow
<1>2. CASE hosts' = hosts
  BY <1>1, <1>2
<1>3. ASSUME NEW w \in InFlight, Commit(w, req[w])
      PROVE  hosts'[h].token >= hosts[h].token
  <2>1. PICK g \in Hosts : \E m : \E S \in SUBSET Nat : Advances(w, g, m, S)
    BY <1>3, CommitAdvances
  <2>2. PICK m : \E S \in SUBSET Nat : Advances(w, g, m, S)
    BY <2>1
  <2>3. CASE g # h
    <3>1. hosts'[h] = hosts[h]
      BY <2>2, <2>3 DEF Advances, RInv, RowType
    <3>2. QED
      BY <1>1, <3>1
  <2>4. CASE g = h
    <3>1. hosts'[h] = m /\ m.token \in Nat
      BY <2>2, <2>4 DEF Advances, RInv, RowType, HostRow
    <3>2. m.token > hosts[h].token \/ m.token = hosts[h].token
      BY <2>2, <2>4 DEF Advances
    <3>3. QED
      BY <1>1, <3>1, <3>2
  <2>5. QED
    BY <2>3, <2>4
<1>4. QED
  BY <1>2, <1>3 DEF RequestNext, LoadBoot, LoadConfig, LoadCallback,
                    LoadOperator, Load, Rollback, vars

(* No commit, however stale what it loaded, brings back a retired token.   *)
THEOREM OverlapRetiresTokens == RequestSpec => RetiredTokensStayRetired
<1>1. RInv /\ [RequestNext]_requestVars =>
        [\A h \in Hosts : hosts'[h].token >= hosts[h].token]_requestVars
  BY TokensRise
<1>2. QED
  BY <1>1, RequestInvariantHolds, PTL DEF RequestSpec, RetiredTokensStayRetired

-----------------------------------------------------------------------------
(* The other tables, when requests overlap.                                *)

TablesInv == TypeOK /\ RunsAreForRetiredTokens

(* Records do not go away, and most requests queue no run.                 *)
LEMMA QueuedRunsStay ==
  ASSUME RInv, RInv', TablesInv, RequestNext, UNCHANGED runs,
         \A h \in Hosts : DOMAIN builds[h] \subseteq DOMAIN builds'[h]
  PROVE  RunsAreForRetiredTokens'
<1> SUFFICES ASSUME NEW h \in Hosts, NEW i \in DOMAIN runs[h]
             PROVE  runs[h][i].token < hosts'[h].token /\ runs[h][i].build \in DOMAIN builds'[h]
  BY DEF RunsAreForRetiredTokens
<1>1. runs[h][i] \in RunRow
  <2>1. runs[h] \in Seq(RunRow)
    BY DEF TablesInv, TypeOK
  <2>2. QED
    BY <2>1
<1>2. /\ runs[h][i].token \in Nat /\ hosts[h].token \in Nat /\ hosts'[h].token \in Nat
  BY <1>1 DEF RunRow, RInv, RowType, HostRow
<1>3. runs[h][i].token < hosts[h].token /\ hosts'[h].token >= hosts[h].token
  BY TokensRise DEF TablesInv, RunsAreForRetiredTokens
<1>4. runs[h][i].build \in DOMAIN builds[h]
  BY DEF TablesInv, RunsAreForRetiredTokens
<1>5. QED
  BY <1>2, <1>3, <1>4

LEMMA BootKeepsTables ==
  ASSUME RInv, RInv', TablesInv, RequestNext, NEW w \in InFlight, NEW q, q = req[w],
         CommitBoot(w, q)
  PROVE  TablesInv'
<1> DEFINE h == q.host
           r == Base(q)
           d == DefaultProfile
           t == RowOrRegistered(h).token + 1
           assigned == /\ UnattendedAssigns(r, d)
                       /\ q.op = "boot" => r.state = "PENDING"
           booted == IF assigned THEN ApplyUnattended(r, d, t) ELSE r
           given == IF q.op = "boot" THEN Configurable(booted) ELSE UnattendedApplies(r, d)
           script == IF given THEN InstallScript(booted) ELSE {}
<1>1. d \in ProfileId
  BY DefaultProfileType DEF TablesInv
<1>2. /\ offered' = [offered EXCEPT ![h] = @ \cup script]
      /\ UNCHANGED <<builds, runs, assets, ops>>
  BY DEF CommitBoot, Enrol
<1>3. /\ h \in Hosts /\ q.snap \in HostRow /\ hosts[h] \in HostRow
      /\ q.snap.token <= hosts[h].token /\ (q.snap.state # Absent => hosts[h].state # Absent)
  BY CommitFacts
<1>4. /\ Registered(1) \in HostRow /\ Registered(1).state # Absent
      /\ Registered(1).token = 1
  BY NewHostSucceeds DEF Registered, NewHost, Succeeds, ProfileId, Hostname
<1> HIDE DEF h, d
<1>5. /\ r \in HostRow /\ r.state # Absent /\ r.token \in Nat /\ t \in Nat /\ t > r.token
  <2>1. r \in HostRow /\ r.state # Absent
    BY <1>3, <1>4 DEF Base
  <2>2. RowOrRegistered(h) \in HostRow
    BY <1>3, <1>4 DEF RowOrRegistered
  <2>3. RowOrRegistered(h).token \in Nat /\ r.token \in Nat
    BY <2>1, <2>2 DEF HostRow
  <2>4. r.token <= RowOrRegistered(h).token
    <3>1. CASE q.snap.state # Absent
      BY <1>3, <2>3, <3>1 DEF Base, RowOrRegistered, Known
    <3>2. CASE q.snap.state = Absent /\ ~ Known(h)
      BY <1>4, <3>2 DEF Base, RowOrRegistered
    <3>3. ~ (q.snap.state = Absent /\ Known(h))
      BY DEF CommitBoot, Insertable, h
    <3>4. QED
      BY <3>1, <3>2, <3>3
  <2> HIDE DEF r
  <2>5. QED
    BY <2>1, <2>3, <2>4
<1> HIDE DEF r, t
<1>6. booted \in HostRow
  BY <1>1, <1>5, ApplyUnattendedSucceeds DEF Succeeds
<1> HIDE DEF booted
<1>7. script \in SUBSET Nat
  BY <1>6, InstallScriptType
<1> HIDE DEF script
<1>8. TypeOK'
  BY <1>2, <1>3, <1>7 DEF TablesInv, TypeOK, RInv, RowType
<1>9. QED
  BY <1>2, <1>8, QueuedRunsStay DEF TablesInv

LEMMA ConfigKeepsTables ==
  ASSUME RInv, RInv', TablesInv, RequestNext, NEW w \in InFlight, NEW q, q = req[w],
         CommitConfig(w, q) \/ CommitConfigFails(w, q)
  PROVE  TablesInv'
<1>1. /\ q.host \in Hosts /\ q.snap \in HostRow /\ builds \in [Hosts -> Seq(BuildRow)]
  BY CommitFacts DEF TablesInv, TypeOK
<1>2. UNCHANGED <<runs, assets, offered, ops>>
  BY DEF CommitConfig, CommitConfigFails
<1>3. PICK bs : /\ bs \in Seq(BuildRow) /\ DOMAIN builds[q.host] \subseteq DOMAIN bs
                /\ builds' = [builds EXCEPT ![q.host] = bs]
  <2>1. builds[q.host] \in Seq(BuildRow)
    BY <1>1
  <2>2. CASE builds' = [builds EXCEPT ![q.host] = StartBuildRecord(@, q.snap)]
    <3> DEFINE b == [token |-> q.snap.token, profile |-> q.snap.profile,
                     state |-> "INSTALLING"]
    <3>1. b \in BuildRow
      <4>1. q.snap.token \in Nat /\ q.snap.profile \in ProfileId
        BY <1>1 DEF HostRow
      <4>2. "INSTALLING" \in BuildState
        BY DEF BuildState
      <4>3. QED
        BY <4>1, <4>2 DEF BuildRow
    <3>2. StartBuildRecord(builds[q.host], q.snap) = Append(builds[q.host], b)
      BY DEF StartBuildRecord
    <3> HIDE DEF b
    <3>3. /\ Append(builds[q.host], b) \in Seq(BuildRow)
          /\ DOMAIN builds[q.host] \subseteq DOMAIN Append(builds[q.host], b)
      BY <2>1, <3>1
    <3>4. QED
      BY <2>2, <3>2, <3>3
  <2>3. CASE builds' = builds
    BY <1>1, <2>1, <2>3
  <2>4. builds' = [builds EXCEPT ![q.host] = @] => builds' = builds
    BY <1>1
  <2>5. QED
    BY <2>2, <2>3, <2>4 DEF CommitConfig, CommitConfigFails
<1>4. \A h \in Hosts : DOMAIN builds[h] \subseteq DOMAIN builds'[h]
  BY <1>1, <1>3
<1>5. TypeOK'
  BY <1>1, <1>2, <1>3 DEF TablesInv, TypeOK, RInv, RowType
<1>6. QED
  BY <1>2, <1>4, <1>5, QueuedRunsStay DEF TablesInv

LEMMA CallbackKeepsTables ==
  ASSUME RInv, RInv', TablesInv, RequestNext, NEW w \in InFlight, NEW q, q = req[w],
         CommitCallback(w, q)
  PROVE  TablesInv'
<1>1. PICK h : h = q.host
  OBVIOUS
<1>2. /\ h \in Hosts /\ q.snap \in HostRow /\ q.snap.token \in Nat
      /\ q.snap.token <= hosts[h].token /\ hosts[h].token \in Nat
      /\ Fresh(h) \in Nat /\ Fresh(h) > hosts[h].token /\ Fresh(h) > q.snap.token
      /\ builds[h] \in Seq(BuildRow) /\ runs[h] \in Seq(RunRow)
      /\ q.arg \in {"PROVISIONED", "FAILED"}
  BY <1>1, CommitFacts DEF TablesInv, TypeOK, CommitCallback, ArgInv
<1>3. PICK fs : fs = FinishLatestBuildRecord(builds[h], q.snap, q.arg)
  OBVIOUS
<1>4. /\ fs \in Seq(BuildRow) /\ DOMAIN builds[h] \subseteq DOMAIN fs
      /\ Len(fs) \in DOMAIN fs
  <2>1. q.arg \in BuildState
    BY <1>2 DEF BuildState
  <2>2. CASE builds[h] = << >>
    <3>1. fs \in Seq(BuildRow) /\ (builds[h] = << >> => DOMAIN fs = {1} /\ Len(fs) = 1)
      BY <1>2, <1>3, <2>1, FinishKeepsTokens
    <3>2. DOMAIN builds[h] = {}
      BY <2>2
    <3>3. QED
      BY <2>2, <3>1, <3>2
  <2>3. CASE builds[h] # << >>
    BY <1>2, <1>3, <2>1, <2>3, FinishKeepsTokens
  <2>4. QED
    BY <2>2, <2>3
<1>5. /\ builds' = [builds EXCEPT ![h] = fs]
      /\ assets' = AssetsAfterCallback(h, q.snap, q.arg)
      /\ UNCHANGED <<offered, ops>>
  BY <1>1, <1>3 DEF CommitCallback
<1>6. builds'[h] = fs /\ \A g \in Hosts : g # h => builds'[g] = builds[g]
  BY <1>2, <1>5 DEF TablesInv, TypeOK
<1>7. PICK rs : /\ runs' = [runs EXCEPT ![h] = rs] /\ rs \in Seq(RunRow)
                /\ \/ rs = runs[h]
                   \/ \E run \in RunRow : /\ rs = Append(runs[h], run)
                                          /\ run.token = q.snap.token /\ run.build = Len(fs)
  <2>1. CASE q.arg = "PROVISIONED"
    <3>1. runs' = [runs EXCEPT ![h] = QueueAnsibleRun(runs[h], fs, q.snap)]
      BY <1>1, <1>6, <2>1 DEF CommitCallback
    <3>2. QED
      BY <1>2, <1>4, <3>1, QueueAnsibleRunIs
  <2>2. CASE q.arg # "PROVISIONED"
    <3>1. runs' = runs /\ runs = [runs EXCEPT ![h] = runs[h]]
      BY <1>1, <1>2, <2>2 DEF CommitCallback, TablesInv, TypeOK
    <3>2. QED
      BY <1>2, <3>1
  <2>3. QED
    BY <2>1, <2>2
<1>8. TypeOK'
  <2>1. assets' \subseteq AssetRow
    BY <1>2, <1>5, AssetsAfterCallbackType DEF TablesInv
  <2>2. QED
    BY <1>2, <1>4, <1>5, <1>7, <2>1 DEF TablesInv, TypeOK, RInv, RowType
<1>9. hosts'[h].token = Fresh(h)
  <2>1. PICK new : new = CalledBack(q.snap, q.arg, Fresh(h))
    OBVIOUS
  <2>2. new.token = Fresh(h)
    BY <1>2, <2>1 DEF CalledBack, HostRow
  <2>3. hosts'[h] = WriteChangedColumns(h, q.snap, new)
    BY <1>1, <1>2, <2>1 DEF CommitCallback, RInv, RowType
  <2>4. new.token # q.snap.token
    BY <1>2, <2>2
  <2>5. QED
    BY <2>2, <2>3, <2>4 DEF WriteChangedColumns, Column
<1>10. ASSUME NEW g \in Hosts, NEW i \in DOMAIN runs'[g]
       PROVE  runs'[g][i].token < hosts'[g].token /\ runs'[g][i].build \in DOMAIN builds'[g]
  <2>1. \A j \in DOMAIN runs[g] :
          /\ runs[g][j].token < hosts'[g].token /\ runs[g][j].build \in DOMAIN builds'[g]
    <3>1. ASSUME NEW j \in DOMAIN runs[g]
          PROVE  runs[g][j].token < hosts'[g].token /\ runs[g][j].build \in DOMAIN builds'[g]
      <4>1. runs[g] \in Seq(RunRow)
        BY DEF TablesInv, TypeOK
      <4>2. runs[g][j] \in RunRow
        BY <4>1
      <4>3. runs[g][j].token \in Nat /\ hosts[g].token \in Nat /\ hosts'[g].token \in Nat
        BY <4>2 DEF RunRow, RInv, RowType, HostRow
      <4>4. runs[g][j].token < hosts[g].token /\ runs[g][j].build \in DOMAIN builds[g]
        BY DEF TablesInv, RunsAreForRetiredTokens
      <4>5. hosts'[g].token >= hosts[g].token
        BY TokensRise
      <4>6. DOMAIN builds[g] \subseteq DOMAIN builds'[g]
        BY <1>4, <1>6
      <4>7. QED
        BY <4>3, <4>4, <4>5, <4>6
    <3>2. QED
      BY <3>1
  <2>2. CASE g # h \/ rs = runs[h]
    <3>1. runs'[g] = runs[g]
      BY <1>2, <1>7, <2>2 DEF TablesInv, TypeOK
    <3>2. QED
      BY <2>1, <3>1
  <2>3. CASE g = h /\ rs # runs[h]
    <3>1. PICK run \in RunRow : /\ rs = Append(runs[h], run)
                                /\ run.token = q.snap.token /\ run.build = Len(fs)
      BY <1>7, <2>3
    <3>2. runs'[h] = Append(runs[h], run)
      BY <1>2, <1>7, <3>1 DEF TablesInv, TypeOK
    <3>3. i \in DOMAIN runs[h] \/ (i = Len(runs[h]) + 1 /\ runs'[h][i] = run)
      BY <1>2, <2>3, <3>2
    <3>4. i \in DOMAIN runs[h] => runs'[h][i] = runs[h][i]
      BY <1>2, <3>2
    <3>5. run.token < hosts'[h].token /\ run.build \in DOMAIN builds'[h]
      BY <1>2, <1>4, <1>6, <1>9, <3>1
    <3>6. QED
      BY <2>1, <2>3, <3>3, <3>4, <3>5
  <2>4. QED
    BY <2>2, <2>3
<1>11. QED
  BY <1>8, <1>10 DEF TablesInv, RunsAreForRetiredTokens

LEMMA CommitKeepsTables ==
  ASSUME RInv, RInv', TablesInv, RequestNext, NEW w \in InFlight, Commit(w, req[w])
  PROVE  TablesInv'
<1>1. PICK q : q = req[w]
  OBVIOUS
<1>2. CASE CommitOperator(w, q)
  <2>1. ops' = ops + 1 /\ UNCHANGED <<builds, runs, assets, offered>>
    BY <1>2 DEF CommitOperator, Operate
  <2>2. TypeOK'
    BY <2>1 DEF TablesInv, TypeOK, RInv, RowType
  <2>3. QED
    BY <2>1, <2>2, QueuedRunsStay DEF TablesInv
<1>3. QED
  BY <1>1, <1>2, BootKeepsTables, ConfigKeepsTables, CallbackKeepsTables DEF Commit

LEMMA TablesInvHolds == RequestSpec => []TablesInv
<1>1. RequestInit => TablesInv
  BY InitEstablishesInv DEF RequestInit, IInv, TablesInv, RunsAreForRetiredTokens, Init
<1>2. RInv /\ RInv' /\ TablesInv /\ [RequestNext]_requestVars => TablesInv'
  <2> SUFFICES ASSUME RInv, RInv', TablesInv, [RequestNext]_requestVars PROVE TablesInv'
    OBVIOUS
  <2>1. CASE UNCHANGED vars
    BY <2>1 DEF TablesInv, TypeOK, RunsAreForRetiredTokens, vars
  <2>2. CASE RequestNext /\ \E w \in InFlight : Commit(w, req[w])
    BY <2>2, CommitKeepsTables
  <2>3. QED
    BY <2>1, <2>2 DEF RequestNext, LoadBoot, LoadConfig, LoadCallback, LoadOperator,
                      Load, Rollback, requestVars
<1>3. QED
  BY <1>1, <1>2, RequestInvariantHolds, PTL DEF RequestSpec

(* The tables keep their types however requests overlap.                   *)
THEOREM OverlapTypes == RequestSpec => []TypeOK
<1>1. TablesInv => TypeOK
  BY DEF TablesInv
<1>2. QED
  BY <1>1, TablesInvHolds, PTL

(* No callback, however late it commits, queues a run for a token that is  *)
(* still current, or for a record that is not there (boot.py:226-278).     *)
THEOREM OverlapQueuesForRetired == RequestSpec => []RunsAreForRetiredTokens
<1>1. TablesInv => RunsAreForRetiredTokens
  BY DEF TablesInv
<1>2. QED
  BY <1>1, TablesInvHolds, PTL

-----------------------------------------------------------------------------
(* A commit writes one row, and only what it changed.                      *)

(* An UPDATE without a changed column leaves the row.                      *)
LEMMA NothingChangedNothingWritten ==
  ASSUME NEW h \in Hosts, hosts[h] \in HostRow, NEW r
  PROVE  WriteChangedColumns(h, r, r) = hosts[h]
BY DEF WriteChangedColumns, Column, HostRow

LEMMA CommitLeavesOtherHosts ==
  ASSUME RInv, NEW w \in InFlight, Commit(w, req[w]),
         NEW h \in Hosts, hosts'[h] # hosts[h]
  PROVE  req[w].host = h
<1>1. PICK g : g = req[w].host
  OBVIOUS
<1>2. PICK m : \E S \in SUBSET Nat : Advances(w, g, m, S)
  BY <1>1, CommitAdvances
<1>3. hosts \in [Hosts -> HostRow] /\ hosts' = [hosts EXCEPT ![g] = m]
  BY <1>2 DEF RInv, RowType, Advances
<1>4. QED
  BY <1>1, <1>3

(* Only committing changes the tables.                                     *)
LEMMA OnlyCommitsWrite ==
  ASSUME RequestNext, hosts' # hosts
  PROVE  \E w \in InFlight : Commit(w, req[w])
BY DEF RequestNext, LoadBoot, LoadConfig, LoadCallback, LoadOperator, Load,
       Rollback, vars

(* A machine's request that found a row changes no hostname, one that      *)
(* found none inserts a row where still none is.                           *)
LEMMA MachinesKeepHostnames ==
  ASSUME RInv, NEW w \in InFlight, NEW q, q = req[w],
         \/ CommitBoot(w, q) \/ CommitConfig(w, q) \/ CommitConfigFails(w, q)
         \/ CommitCallback(w, q)
  PROVE  hosts'[q.host].hostname = hosts[q.host].hostname
<1>1. PICK h, r : h = q.host /\ r = q.snap
  OBVIOUS
<1>2. /\ h \in Hosts /\ hosts \in [Hosts -> HostRow] /\ r \in HostRow
      /\ SnapInv(q) /\ RowInv(h)
  BY <1>1, CommitFacts DEF RInv, RowType
<1>3. ASSUME NEW new, hosts' = [hosts EXCEPT ![h] = WriteChangedColumns(h, r, new)],
             new.hostname = r.hostname
      PROVE  hosts'[h].hostname = hosts[h].hostname
  BY <1>2, <1>3 DEF WriteChangedColumns, Column
<1>4. CASE CommitBoot(w, q)
  <2>1. PICK booted : /\ hosts' = [hosts EXCEPT ![h] = WriteChangedColumns(h, r, booted)]
                      /\ booted.hostname = Base(q).hostname
    <3>1. Base(q) \in HostRow
      BY <1>1, <1>2 DEF Base, Registered, NewHost, HostRow, HostState, ProfileId,
                        Hostname
    <3>2. \A d, t : ApplyUnattended(Base(q), d, t).hostname = Base(q).hostname
      BY <3>1 DEF ApplyUnattended, HostRow
    <3>3. PICK d, t, assigned :
            hosts' = [hosts EXCEPT ![h] =
                        WriteChangedColumns(h, r,
                          IF assigned THEN ApplyUnattended(Base(q), d, t)
                                      ELSE Base(q))]
      BY <1>1, <1>4 DEF CommitBoot, Enrol
    <3>4. QED
      BY <3>2, <3>3
  <2>2. CASE r.state # Absent
    BY <1>1, <1>3, <2>1, <2>2 DEF Base
  <2>3. CASE r.state = Absent
    <3>1. r = NoRow
      BY <1>1, <1>2, <2>3 DEF SnapInv
    <3>2. Base(q).hostname = r.hostname
      BY <1>1, <2>3, <3>1 DEF Base, Registered, NewHost, NoRow
    <3>3. QED
      BY <1>1, <1>3, <2>1, <3>2
  <2>4. QED
    BY <2>2, <2>3
<1>5. CASE CommitConfig(w, q) \/ CommitConfigFails(w, q)
  <2>1. /\ ConfigFetched(r).hostname = r.hostname
        /\ RenderFailed(r).hostname = r.hostname
    BY <1>2 DEF ConfigFetched, RenderFailed, HostRow
  <2>2. QED
    BY <1>1, <1>3, <1>5, <2>1 DEF CommitConfig, CommitConfigFails
<1>6. CASE CommitCallback(w, q)
  <2>1. PICK new : /\ hosts' = [hosts EXCEPT ![h] = WriteChangedColumns(h, r, new)]
                   /\ new = CalledBack(r, q.arg, Fresh(h))
    BY <1>1, <1>6 DEF CommitCallback
  <2>2. new.hostname = r.hostname
    BY <1>2, <2>1 DEF CalledBack, HostRow
  <2>3. QED
    BY <1>1, <1>3, <2>1, <2>2
<1>7. QED
  BY <1>4, <1>5, <1>6

(* However requests overlap, a hostname changes only in the commit of an   *)
(* operator's request about that host: no machine's request writes back a  *)
(* hostname it had loaded before.                                          *)
THEOREM OverlapKeepsHostnames == RequestSpec => HostnameEditsSurvive
<1>1. ASSUME RInv, RequestNext, NEW h \in Hosts,
             hosts'[h].hostname # hosts[h].hostname
      PROVE  \E w \in OperatorsInFlight :
               req[w].host = h /\ CommitOperator(w, req[w])
  <2>1. PICK w \in InFlight : Commit(w, req[w])
    BY <1>1, OnlyCommitsWrite
  <2>2. req[w].host = h
    BY <1>1, <2>1, CommitLeavesOtherHosts
  <2>3. CommitOperator(w, req[w])
    BY <1>1, <2>1, <2>2, MachinesKeepHostnames DEF Commit
  <2>4. w \in OperatorsInFlight
    BY <2>3 DEF CommitOperator, OperatorsInFlight
  <2>5. QED
    BY <2>2, <2>3, <2>4
<1>2. RInv /\ [RequestNext]_requestVars
        => [\A h \in Hosts :
              hosts'[h].hostname # hosts[h].hostname
                => \E w \in OperatorsInFlight :
                     req[w].host = h /\ CommitOperator(w, req[w])]_requestVars
  BY <1>1
<1>3. QED
  BY <1>2, RequestInvariantHolds, PTL DEF RequestSpec, HostnameEditsSurvive

(* A machine's request that has loaded a finished row changes nothing.     *)
LEMMA FinishedRowIsLeft ==
  ASSUME RInv, NEW w \in InFlight, NEW q, q = req[w], Commit(w, q),
         q.op \in MachineOps, q.snap.state \in {"PROVISIONED", "DECOMMISSIONED"}
  PROVE  hosts' = hosts
<1>1. /\ q.host \in Hosts /\ hosts \in [Hosts -> HostRow] /\ ArgInv(q)
  BY CommitFacts DEF RInv, RowType
<1>2. q.op \in {"boot", "register"}
  BY <1>1 DEF ArgInv, MachineOps
<1>3. CommitBoot(w, q)
  BY <1>2 DEF Commit, CommitConfig, CommitConfigFails, CommitCallback,
              CommitOperator
<1>4. Base(q) = q.snap
  BY DEF Base, Absent
<1>5. \A d : ~ UnattendedAssigns(q.snap, d)
  BY DEF UnattendedAssigns
<1>6. hosts' = [hosts EXCEPT ![q.host] = WriteChangedColumns(q.host, q.snap, q.snap)]
  BY <1>3, <1>4, <1>5 DEF CommitBoot, Enrol
<1>7. QED
  BY <1>1, <1>6, NothingChangedNothingWritten

(* However requests overlap, a finished host is changed by an operator or  *)
(* by a request that had loaded it before it was finished, and by no       *)
(* other.                                                                  *)
THEOREM OverlapKeepsFinished == RequestSpec => OnlyStaleRequestsReopen
<1>1. ASSUME RInv, RequestNext, NEW h \in Hosts, hosts'[h] # hosts[h]
      PROVE  \E w \in InFlight :
               /\ req[w].host = h /\ Commit(w, req[w])
               /\ \/ w \in OperatorsInFlight
                  \/ req[w].snap.state \notin {"PROVISIONED", "DECOMMISSIONED"}
  <2>1. PICK w \in InFlight : Commit(w, req[w])
    BY <1>1, OnlyCommitsWrite
  <2>2. req[w].host = h
    BY <1>1, <2>1, CommitLeavesOtherHosts
  <2>3. req[w].op \notin MachineOps \/ req[w].snap.state \notin {"PROVISIONED", "DECOMMISSIONED"}
    BY <1>1, <2>1, FinishedRowIsLeft
  <2>4. QED
    BY <2>1, <2>2, <2>3 DEF OperatorsInFlight
<1>2. RInv /\ [RequestNext]_requestVars
        => [\A h \in Hosts :
              hosts[h].state \in {"PROVISIONED", "DECOMMISSIONED"} /\ hosts'[h] # hosts[h]
                => \E w \in InFlight :
                     /\ req[w].host = h /\ Commit(w, req[w])
                     /\ \/ w \in OperatorsInFlight
                        \/ req[w].snap.state \notin {"PROVISIONED", "DECOMMISSIONED"}]_requestVars
  BY <1>1
<1>3. QED
  BY <1>2, RequestInvariantHolds, PTL DEF RequestSpec, OnlyStaleRequestsReopen

-----------------------------------------------------------------------------
(***************************************************************************)
(* Requests that do not overlap on one host: each commit is the one step   *)
(* that HostLifecycle makes of the whole request, although other hosts,    *)
(* the assets and the default profile have moved since it loaded its row.  *)
(***************************************************************************)

(* What a request in flight has loaded is still what the tables hold, and  *)
(* the token it came with is still one the machine was given.              *)
SerialReq(q) ==
  /\ q.snap = hosts[q.host]
  /\ q.op = "config" => q.snap.token \in offered[q.host]
  /\ q.op = "callback" => q.snap.token \in served[q.host]

SInv ==
  /\ RInv
  /\ IInv
  /\ \A w \in InFlight : SerialReq(req[w])
  /\ \A v, w \in InFlight : v # w => req[v].host # req[w].host

(* The UPDATE of a row that nobody has touched since writes the new row.   *)
LEMMA WrittenAsIntended ==
  ASSUME NEW h \in Hosts, hosts[h] \in HostRow, NEW new \in HostRow
  PROVE  WriteChangedColumns(h, hosts[h], new) = new
BY DEF WriteChangedColumns, Column, HostRow

LEMMA SerialFacts ==
  ASSUME SInv, NEW w \in InFlight, NEW q, q = req[w], NEW h, h = q.host
  PROVE  /\ h \in Hosts /\ hosts[h] \in HostRow /\ q.snap = hosts[h]
         /\ Fresh(h) \in Nat /\ Fresh(h) > hosts[h].token
         /\ ArgInv(q) /\ SerialReq(q) /\ TokenInv(h)
<1>1. q.host \in Hosts /\ hosts[q.host] \in HostRow /\ ArgInv(q) /\ SerialReq(q)
  BY CommitFacts DEF SInv
<1>2. TokenInv(h)
  BY <1>1 DEF SInv, IInv
<1>3. hosts[h].token \in Nat
  BY <1>1 DEF HostRow
<1>4. QED
  BY <1>1, <1>2, <1>3 DEF SerialReq, Fresh

LEMMA CommitBootIsSerial ==
  ASSUME SInv, NEW w \in InFlight, NEW q, q = req[w], NEW h, h = q.host,
         CommitBoot(w, q)
  PROVE  BootIpxe(h) \/ RegisterHost(h)
<1> DEFINE d == DefaultProfile
           t == RowOrRegistered(h).token + 1
<1>1. /\ h \in Hosts /\ hosts[h] \in HostRow /\ q.snap = hosts[h]
      /\ Succeeds(hosts[h], RowOrRegistered(h)) /\ d \in ProfileId
  BY SerialFacts, RowOrRegisteredSucceeds, DefaultProfileType DEF SInv, IInv
<1>2. PICK r : r = RowOrRegistered(h)
  OBVIOUS
<1>3. Base(q) = r
  BY <1>1, <1>2 DEF Base, RowOrRegistered, Known
<1>4. r \in HostRow /\ r.state # Absent /\ t \in Nat /\ t > r.token
  BY <1>1, <1>2, NextTokenIsFresh DEF Succeeds
<1>5. ApplyUnattended(r, d, t) \in HostRow
  BY <1>1, <1>4, ApplyUnattendedSucceeds DEF Succeeds
<1> HIDE DEF d, t
<1>6. \A new \in HostRow : WriteChangedColumns(h, q.snap, new) = new
  BY <1>1, WrittenAsIntended
<1>7. CASE q.op = "boot"
  <2> DEFINE assigned == UnattendedAssigns(r, d) /\ r.state = "PENDING"
             booted == IF assigned THEN ApplyUnattended(r, d, t) ELSE r
  <2>1. booted \in HostRow
    BY <1>4, <1>5
  <2>2. Enrol(h, WriteChangedColumns(h, q.snap, booted), assigned,
              IF Configurable(booted) THEN InstallScript(booted) ELSE {})
    BY <1>2, <1>3, <1>7 DEF CommitBoot, d, t
  <2>3. WriteChangedColumns(h, q.snap, booted) = booted
    BY <1>6, <2>1
  <2>4. Enrol(h, booted, assigned,
              IF Configurable(booted) THEN InstallScript(booted) ELSE {})
    BY <2>2, <2>3
  <2>5. BootIpxe(h)
    BY <1>2, <2>4 DEF BootIpxe, d, t
  <2>6. QED
    BY <2>5
<1>8. CASE q.op = "register"
  <2> DEFINE assigned == UnattendedAssigns(r, d)
             booted == IF assigned THEN ApplyUnattended(r, d, t) ELSE r
             registered == ApplyUnattended(r, d, t)
  <2>1. booted = registered
    BY DEF ApplyUnattended
  <2>2. Enrol(h, WriteChangedColumns(h, q.snap, booted), assigned,
              IF UnattendedApplies(r, d) THEN InstallScript(booted) ELSE {})
    BY <1>2, <1>3, <1>8 DEF CommitBoot, Enrol, d, t
  <2>3. WriteChangedColumns(h, q.snap, booted) = registered
    BY <1>5, <1>6, <2>1
  <2>4. Enrol(h, registered, assigned,
              IF UnattendedApplies(r, d) THEN InstallScript(registered) ELSE {})
    BY <2>1, <2>2, <2>3
  <2>5. RegisterHost(h)
    BY <1>2, <2>4 DEF RegisterHost, d, t
  <2>6. QED
    BY <2>5
<1>9. QED
  BY <1>7, <1>8 DEF CommitBoot

LEMMA CommitConfigIsSerial ==
  ASSUME SInv, NEW w \in InFlight, NEW q, q = req[w], NEW h, h = q.host,
         CommitConfig(w, q) \/ CommitConfigFails(w, q)
  PROVE  FetchConfig(h) \/ FetchConfigFails(h)
<1>1. /\ h \in Hosts /\ hosts[h] \in HostRow /\ q.snap = hosts[h]
      /\ ArgInv(q) /\ SerialReq(q) /\ q.op = "config"
  BY SerialFacts DEF CommitConfig, CommitConfigFails
<1>2. PICK t : t = hosts[h].token
  OBVIOUS
<1>3. /\ t \in offered[h] /\ hosts[h].state \in {"READY", "INSTALLING"}
      /\ HostByToken(h, t) /\ Configurable(hosts[h])
  BY <1>1, <1>2 DEF ArgInv, SerialReq, HostByToken, Known, Configurable, Absent
<1>4. ConfigFetched(hosts[h]) \in HostRow /\ RenderFailed(hosts[h]) \in HostRow
  BY <1>1 DEF ConfigFetched, RenderFailed, HostRow, HostState
<1>5. /\ WriteChangedColumns(h, q.snap, ConfigFetched(q.snap)) = ConfigFetched(hosts[h])
      /\ WriteChangedColumns(h, q.snap, RenderFailed(q.snap)) = RenderFailed(hosts[h])
  BY <1>1, <1>4, WrittenAsIntended
<1>6. CASE CommitConfig(w, q)
  <2>1. /\ hosts[h].profile # NoProfile
        /\ hosts' = [hosts EXCEPT ![h] = ConfigFetched(hosts[h])]
        /\ builds' = [builds EXCEPT ![h] =
                        IF hosts[h].state = "READY"
                        THEN StartBuildRecord(@, hosts[h]) ELSE @]
        /\ served' = [served EXCEPT ![h] = @ \cup {t}]
        /\ UNCHANGED <<runs, assets, unattendedDefault, offered, ops>>
    BY <1>1, <1>2, <1>5, <1>6 DEF CommitConfig
  <2>2. BootConfig(h, t)
    BY <1>3, <2>1 DEF BootConfig
  <2>3. QED
    BY <1>3, <2>2 DEF FetchConfig
<1>7. CASE CommitConfigFails(w, q)
  <2>1. BootConfigFails(h, t)
    BY <1>1, <1>3, <1>5, <1>7 DEF CommitConfigFails, BootConfigFails
  <2>2. QED
    BY <1>3, <2>1 DEF FetchConfigFails
<1>8. QED
  BY <1>6, <1>7

LEMMA CommitCallbackIsSerial ==
  ASSUME SInv, NEW w \in InFlight, NEW q, q = req[w], NEW h, h = q.host,
         CommitCallback(w, q)
  PROVE  CallBack(h)
<1>1. /\ h \in Hosts /\ hosts[h] \in HostRow /\ q.snap = hosts[h]
      /\ Fresh(h) \in Nat /\ ArgInv(q) /\ SerialReq(q) /\ q.op = "callback"
  BY SerialFacts DEF CommitCallback
<1>2. PICK t, outcome : t = hosts[h].token /\ outcome = q.arg
  OBVIOUS
<1>3. /\ t \in served[h] /\ outcome \in {"PROVISIONED", "FAILED"}
      /\ HostByToken(h, t)
  BY <1>1, <1>2 DEF ArgInv, SerialReq, HostByToken, Known, Absent
<1>4. CalledBack(hosts[h], outcome, Fresh(h)) \in HostRow
  BY <1>1, <1>3 DEF CalledBack, HostRow, HostState
<1>5. WriteChangedColumns(h, q.snap, CalledBack(q.snap, q.arg, Fresh(h)))
        = CalledBack(hosts[h], outcome, Fresh(h))
  BY <1>1, <1>2, <1>4, WrittenAsIntended
<1>6. BootCallback(h, t, outcome)
  BY <1>1, <1>2, <1>3, <1>5 DEF CommitCallback, BootCallback
<1>7. QED
  BY <1>3, <1>6 DEF CallBack

LEMMA CommitOperatorIsSerial ==
  ASSUME SInv, NEW w \in InFlight, NEW q, q = req[w], NEW h, h = q.host,
         CommitOperator(w, q)
  PROVE  HostOperator(h)
<1>1. /\ h \in Hosts /\ hosts[h] \in HostRow /\ q.snap = hosts[h]
      /\ Fresh(h) \in Nat /\ Fresh(h) > hosts[h].token
      /\ ArgInv(q) /\ TokenInv(h)
  BY SerialFacts
<1>2. PICK r, t, a : r = hosts[h] /\ t = Fresh(h) /\ a = q.arg
  OBVIOUS
<1>3. PICK new : new = Operated(q)
  OBVIOUS
<1>4. Operate(h, new) \/ new \notin HostRow
  BY <1>1, <1>3, WrittenAsIntended DEF CommitOperator
<1>5. r.state # Absent => Known(h)
  BY <1>2 DEF Known
<1>6. CASE q.op = "create"
  <2>1. /\ new = NewHost(a.profile, a.hostname, t)
        /\ a.profile \in ProfileId /\ a.hostname \in Hostname
        /\ r.state = Absent
    BY <1>1, <1>2, <1>3, <1>6 DEF Operated, ArgInv
  <2>2. r = NoRow /\ ~ Known(h)
    BY <1>1, <1>2, <2>1 DEF TokenInv, Known
  <2>3. t = 1
    BY <1>2, <2>2 DEF Fresh, NoRow
  <2>4. new \in HostRow
    BY <2>1, <2>3, NewHostSucceeds DEF Succeeds
  <2>5. CreateHost(h, a.profile, a.hostname)
    BY <1>4, <2>1, <2>2, <2>3, <2>4 DEF CreateHost
  <2>6. QED
    BY <2>1, <2>5 DEF HostOperator
<1>7. CASE q.op = "patch"
  <2>1. /\ new = PatchHost(r, a.profile, a.state, a.hostname, t)
        /\ a.profile \in ProfileId \cup {Unset} /\ a.state \in HostState \cup {Unset}
        /\ a.hostname \in Hostname \cup {Unset} /\ r.state # Absent
    BY <1>1, <1>2, <1>3, <1>7 DEF Operated, ArgInv
  <2>2. new \in HostRow
    BY <1>1, <1>2, <2>1, PatchHostSucceeds DEF Succeeds
  <2>3. UpdateHost(h, a.profile, a.state, a.hostname)
    BY <1>2, <1>4, <1>5, <2>1, <2>2 DEF UpdateHost
  <2>4. QED
    BY <2>1, <2>3 DEF HostOperator
<1>8. CASE q.op = "form"
  <2>1. /\ new = SubmitHostForm(r, a.profile, a.state, a.hostname, t)
        /\ a.profile \in ProfileId /\ a.state \in HostState
        /\ a.hostname \in Hostname /\ r.state # Absent
    BY <1>1, <1>2, <1>3, <1>8 DEF Operated, ArgInv
  <2>2. new \in HostRow
    BY <1>1, <1>2, <2>1, SubmitHostFormSucceeds DEF Succeeds
  <2>3. UpdateHostForm(h, a.profile, a.state, a.hostname)
    BY <1>2, <1>4, <1>5, <2>1, <2>2 DEF UpdateHostForm
  <2>4. QED
    BY <2>1, <2>3 DEF HostOperator
<1>9. CASE q.op = "install"
  <2>1. new = ReadyForInstall(r, t) /\ r.state # Absent /\ r.profile # NoProfile
    BY <1>1, <1>2, <1>3, <1>9 DEF Operated, ArgInv
  <2>2. new \in HostRow
    BY <1>1, <1>2, <2>1, ReadyForInstallSucceeds DEF Succeeds
  <2>3. RequestInstall(h)
    BY <1>2, <1>4, <1>5, <2>1, <2>2 DEF RequestInstall
  <2>4. QED
    BY <2>3 DEF HostOperator
<1>10. CASE q.op = "decommission"
  <2>1. new = Decommissioned(r, t) /\ r.state # Absent
    BY <1>1, <1>2, <1>3, <1>10 DEF Operated, ArgInv
  <2>2. new \in HostRow
    BY <1>1, <1>2, <2>1, DecommissionedSucceeds DEF Succeeds
  <2>3. DecommissionHost(h)
    BY <1>2, <1>4, <1>5, <2>1, <2>2 DEF DecommissionHost
  <2>4. QED
    BY <2>3 DEF HostOperator
<1>11. QED
  BY <1>1, <1>6, <1>7, <1>8, <1>9, <1>10 DEF CommitOperator, ArgInv

(* A commit is a step of HostLifecycle.                                    *)
LEMMA CommitIsSerial ==
  ASSUME SInv, NEW w \in InFlight, Commit(w, req[w])
  PROVE  Next
<1>1. PICK q, h : q = req[w] /\ h = q.host
  OBVIOUS
<1>2. h \in Hosts
  BY <1>1, SerialFacts
<1>3. Machine(h) \/ HostOperator(h)
  <2>1. CASE CommitBoot(w, q)
    BY <1>1, <2>1, CommitBootIsSerial DEF Machine
  <2>2. CASE CommitConfig(w, q) \/ CommitConfigFails(w, q)
    BY <1>1, <2>2, CommitConfigIsSerial DEF Machine
  <2>3. CASE CommitCallback(w, q)
    BY <1>1, <2>3, CommitCallbackIsSerial DEF Machine
  <2>4. CASE CommitOperator(w, q)
    BY <1>1, <2>4, CommitOperatorIsSerial
  <2>5. QED
    BY <1>1, <2>1, <2>2, <2>3, <2>4 DEF Commit
<1>4. QED
  BY <1>2, <1>3 DEF Next, Operator

(* And it leaves the other requests in flight what they rely on.           *)
LEMMA CommitIsLocal ==
  ASSUME SInv, NEW w \in InFlight, Commit(w, req[w])
  PROVE  /\ Done(w)
         /\ \A g \in Hosts : g # req[w].host =>
              /\ hosts'[g] = hosts[g]
              /\ offered'[g] = offered[g]
              /\ served'[g] = served[g]
<1>1. PICK q : q = req[w]
  OBVIOUS
<1>2. TypeOK
  BY DEF SInv, IInv
<1>3. Commit(w, q)
  BY <1>1
<1>4. CASE CommitBoot(w, q)
  <2>1. PICK r, b, s : Enrol(q.host, r, b, s) /\ Done(w)
    BY <1>4 DEF CommitBoot
  <2>2. QED
    BY <1>1, <1>2, <2>1 DEF Enrol, TypeOK
<1>5. CASE CommitConfig(w, q) \/ CommitConfigFails(w, q)
  BY <1>1, <1>2, <1>5 DEF CommitConfig, CommitConfigFails, TypeOK
<1>6. CASE CommitCallback(w, q)
  BY <1>1, <1>2, <1>6 DEF CommitCallback, TypeOK
<1>7. CASE CommitOperator(w, q)
  <2>1. PICK r : Operate(q.host, r) /\ Done(w)
    BY <1>7 DEF CommitOperator
  <2>2. QED
    BY <1>1, <1>2, <2>1 DEF Operate, TypeOK
<1>8. QED
  BY <1>3, <1>4, <1>5, <1>6, <1>7 DEF Commit

-----------------------------------------------------------------------------
(* Without overlap, what was loaded stays what the tables hold.            *)

LEMMA SerialLoadKeepsInv ==
  ASSUME SInv, ~ Overlap, NEW w \in Workers, NEW h \in Hosts,
         \/ LoadBoot(w, h) \/ LoadConfig(w, h)
         \/ LoadCallback(w, h) \/ LoadOperator(w, h)
  PROVE  SInv' /\ UNCHANGED vars
<1>1. PICK op, arg : /\ Load(w, h, op, arg)
                     /\ op = "config" => hosts[h].token \in offered[h]
                     /\ op = "callback" => hosts[h].token \in served[h]
  <2>1. CASE LoadBoot(w, h) \/ LoadConfig(w, h) \/ LoadCallback(w, h)
    BY <2>1 DEF LoadBoot, LoadConfig, LoadCallback
  <2>2. CASE LoadOperator(w, h)
    <3>1. ASSUME NEW p, NEW s, NEW n,
                 \/ Load(w, h, "create", [profile |-> p, hostname |-> n])
                 \/ Load(w, h, "patch", [profile |-> p, state |-> s, hostname |-> n])
                 \/ Load(w, h, "form", [profile |-> p, state |-> s, hostname |-> n])
          PROVE  \E op, arg : /\ Load(w, h, op, arg)
                              /\ op \notin {"config", "callback"}
      BY <3>1
    <3>2. ASSUME Load(w, h, "install", "none") \/ Load(w, h, "decommission", "none")
          PROVE  \E op, arg : /\ Load(w, h, op, arg)
                              /\ op \notin {"config", "callback"}
      BY <3>2
    <3>3. PICK op, arg : /\ Load(w, h, op, arg)
                         /\ op \notin {"config", "callback"}
      BY <2>2, <3>1, <3>2 DEF LoadOperator
    <3>4. QED
      BY <3>3
  <2>3. QED
    BY <2>1, <2>2
<1>2. UNCHANGED vars
  BY <1>1 DEF Load
<1>3. RInv' /\ IInv'
  BY <1>2, LoadsKeepInv, NextKeepsInv DEF SInv
<1>4. PICK q : q = [op |-> op, host |-> h, snap |-> hosts[h], arg |-> arg]
  OBVIOUS
<1>5. /\ req' = [req EXCEPT ![w] = q]
      /\ req[w] = Idle
      /\ \A v \in InFlight : req[v].host # h
  BY <1>1, <1>4 DEF Load
<1>6. req = [v \in Workers |-> req[v]]
  BY DEF SInv, RInv, RowType
<1>7. /\ req'[w] = q
      /\ \A v \in Workers : v # w => req'[v] = req[v]
  BY <1>5, <1>6
<1>8. SerialReq(q)
  BY <1>1, <1>4 DEF SerialReq
<1>9. ASSUME NEW v \in InFlight'
      PROVE  \/ v = w
             \/ v \in InFlight /\ req'[v] = req[v]
  BY <1>7, <1>9 DEF InFlight
<1>10. ASSUME NEW v \in InFlight'
       PROVE  SerialReq(req[v])'
  <2>1. PICK p : p = req'[v] /\ SerialReq(p)
    BY <1>7, <1>8, <1>9 DEF SInv
  <2>2. QED
    BY <1>2, <2>1 DEF SerialReq, vars
<1>11. ASSUME NEW u \in InFlight', NEW v \in InFlight', u # v
       PROVE  req'[u].host # req'[v].host
  <2>1. q.host = h
    BY <1>4
  <2>2. QED
    BY <1>5, <1>7, <1>9, <1>11, <2>1 DEF SInv
<1>12. QED
  BY <1>2, <1>3, <1>10, <1>11 DEF SInv

(* A request that ends leaves the others as they are.                      *)
LEMMA SerialDoneKeepsInv ==
  ASSUME SInv, NEW w \in InFlight, Done(w), RInv', IInv',
         \A g \in Hosts : g # req[w].host =>
           /\ hosts'[g] = hosts[g]
           /\ offered'[g] = offered[g]
           /\ served'[g] = served[g]
  PROVE  SInv'
<1>1. req = [v \in Workers |-> req[v]]
  BY DEF SInv, RInv, RowType
<1>2. ASSUME NEW v \in InFlight'
      PROVE  v # w /\ v \in InFlight /\ req'[v] = req[v]
  BY <1>1 DEF Done, InFlight
<1>3. ASSUME NEW v \in InFlight'
      PROVE  SerialReq(req[v])'
  <2>1. PICK p : p = req[v] /\ p = req'[v]
    BY <1>2
  <2>2. SerialReq(p) /\ p.host \in Hosts
    BY <1>2, <2>1, SerialFacts DEF SInv
  <2>3. p.host # req[w].host
    BY <1>2, <2>1 DEF SInv
  <2>4. QED
    BY <2>1, <2>2, <2>3 DEF SerialReq
<1>4. \A u, v \in InFlight' : u # v => req'[u].host # req'[v].host
  BY <1>2 DEF SInv
<1>5. QED
  BY <1>3, <1>4 DEF SInv

LEMMA SerialStep ==
  ASSUME ~ Overlap
  PROVE  SInv /\ [RequestNext]_requestVars => SInv' /\ [Next]_vars
<1> SUFFICES ASSUME SInv, [RequestNext]_requestVars
             PROVE  SInv' /\ [Next]_vars
  OBVIOUS
<1>1. RInv' 
  BY RequestNextKeepsInv DEF SInv
<1>2. ASSUME NEW w \in Workers, NEW h \in Hosts,
             \/ LoadBoot(w, h) \/ LoadConfig(w, h)
             \/ LoadCallback(w, h) \/ LoadOperator(w, h)
      PROVE  SInv' /\ [Next]_vars
  BY <1>2, SerialLoadKeepsInv
<1>3. ASSUME NEW w \in InFlight, Commit(w, req[w])
      PROVE  SInv' /\ [Next]_vars
  <2>1. Next
    BY <1>3, CommitIsSerial
  <2>2. IInv'
    BY <2>1, NextKeepsInv DEF SInv
  <2>3. QED
    BY <1>1, <1>3, <2>1, <2>2, CommitIsLocal, SerialDoneKeepsInv
<1>4. ASSUME NEW w \in InFlight, Rollback(w)
      PROVE  SInv' /\ [Next]_vars
  <2>1. Done(w) /\ UNCHANGED vars
    BY <1>4 DEF Rollback
  <2>2. IInv'
    BY <2>1, NextKeepsInv DEF SInv
  <2>3. UNCHANGED <<hosts, offered, served>>
    BY <2>1 DEF vars
  <2>4. QED
    BY <1>1, <2>1, <2>2, <2>3, SerialDoneKeepsInv
<1>5. CASE UNCHANGED requestVars
  <2>1. UNCHANGED vars /\ UNCHANGED req
    BY <1>5 DEF requestVars
  <2>2. IInv'
    BY <2>1, NextKeepsInv DEF SInv
  <2>3. UNCHANGED <<hosts, offered, served>>
    BY <2>1 DEF vars
  <2>4. QED
    BY <1>1, <2>1, <2>2, <2>3 DEF SInv, InFlight, SerialReq
<1>6. QED
  BY <1>2, <1>3, <1>4, <1>5 DEF RequestNext

(* Requests that never overlap on one host, whatever their handlers wait   *)
(* for and whatever requests about other hosts commit meanwhile, behave as *)
(* the one-step requests of HostLifecycle.                                 *)
THEOREM SeparateRequestsAreSerial ==
  ASSUME ~ Overlap
  PROVE  RequestSpec => ImplementsSerial
<1>1. RequestInit => SInv /\ Init
  <2>1. RequestInit => InFlight = {}
    BY DEF RequestInit, InFlight
  <2>2. QED
    BY <2>1, RequestInitEstablishesInv, InitEstablishesInv DEF RequestInit, SInv
<1>2. SInv /\ [RequestNext]_requestVars => SInv' /\ [Next]_vars
  BY SerialStep
<1>3. QED
  BY <1>1, <1>2, PTL DEF RequestSpec, ImplementsSerial, Spec

(* So they keep what the serial requests keep: a token has one record and  *)
(* one run, the record of the current token is open, runs follow their     *)
(* installs; finished machines stay finished, operators decide, and a      *)
(* callback closes its own record.                                         *)
THEOREM SeparateRequestsKeepPromises ==
  ASSUME ~ Overlap
  PROVE  RequestSpec =>
           /\ [](OneRecordPerToken /\ CurrentRecordIsOpen /\ OneRunPerToken /\ RunsFollowInstalls)
           /\ FinishedStaysFinished /\ OperatorsDecide /\ ChosenProfileIsKept
           /\ CallbackClosesOwnRecord /\ AssetsOfOthersAreKept
<1>1. RequestSpec => Spec
  BY SeparateRequestsAreSerial DEF ImplementsSerial
<1>2. RequestSpec =>
        [](OneRecordPerToken /\ CurrentRecordIsOpen /\ OneRunPerToken /\ RunsFollowInstalls)
  BY <1>1, RecordsAreOnePerToken, CurrentRecordsAreOpen, RunsAreOnePerToken,
     RunsAreForInstalls, PTL
<1>3. RequestSpec =>
        /\ FinishedStaysFinished /\ OperatorsDecide /\ ChosenProfileIsKept
        /\ CallbackClosesOwnRecord /\ AssetsOfOthersAreKept
  BY <1>1, FinishedMachinesStayFinished, OperatorsHaveToDecide, ChosenProfilesAreKept,
     CallbacksCloseTheirOwnRecords, OtherAssetsAreKept
<1>4. QED
  BY <1>2, <1>3
=============================================================================
