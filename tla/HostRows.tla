------------------------------ MODULE HostRows ------------------------------
(***************************************************************************)
(* The rows of the hosts and build_records tables, and what one request    *)
(* does to the row it loaded.  Every operator is a pure function of a row  *)
(* and the request's inputs; the modules that extend this one decide when  *)
(* a row is loaded and when the result is committed.                       *)
(*                                                                         *)
(* A row that does not exist has the state Absent.  Install tokens are     *)
(* numbered in the order in which they are generated for a host (a random  *)
(* token is never generated twice), so t is always the fresh token that    *)
(* the request would assign.                                               *)
(***************************************************************************)
EXTENDS Naturals, Sequences

CONSTANTS
  Profiles,              (* the profiles in the catalogue                  *)
  NoProfile,             (* host.profile_id is None                        *)
  Names,                 (* hostnames an operator may type                 *)
  NoName,                (* host.hostname is None                          *)
  Unset,                 (* a field the PATCH payload leaves out           *)
  Bootable,              (* profiles whose image names all its media paths *)
  Playbooks,             (* profiles with an enabled post-install config   *)
  UnattendedAutoEnroll   (* PXE_UNATTENDED_AUTO_ENROLL                     *)

ASSUME ProfileAssumption ==
  /\ NoProfile \notin Profiles
  /\ Bootable \subseteq Profiles
  /\ Playbooks \subseteq Profiles
ASSUME NameAssumption == NoName \notin Names
ASSUME UnattendedAssumption == UnattendedAutoEnroll \in BOOLEAN

Absent == "ABSENT"

HostState ==
  {"PENDING", "READY", "INSTALLING", "PROVISIONED", "FAILED", "DECOMMISSIONED"}

BuildState == {"INSTALLING", "PROVISIONED", "FAILED"}

ProfileId == Profiles \cup {NoProfile}
Hostname == Names \cup {NoName}

HostRow ==
  [state : HostState \cup {Absent}, profile : ProfileId,
   hostname : Hostname, token : Nat]

NoRow ==
  [state |-> Absent, profile |-> NoProfile, hostname |-> NoName, token |-> 0]

(* A build_records row: the token it was started for, the profile at that  *)
(* time, and its state; completed_at is set exactly when the state is not  *)
(* INSTALLING.                                                             *)
BuildRow == [token : Nat, profile : ProfileId, state : BuildState]

-----------------------------------------------------------------------------
(* Operator requests.                                                      *)

NewHost(p, n, t) ==
  [state |-> IF p = NoProfile THEN "PENDING" ELSE "READY",
   profile |-> p, hostname |-> n, token |-> t]

(* Assigning a profile promotes a PENDING host, removing it demotes a      *)
(* READY one; in every other state only the column changes.                *)
ApplyProfile(r, p, t) ==
  LET assigned == [r EXCEPT !.profile = p] IN
  IF p # NoProfile /\ r.state = "PENDING"
  THEN [assigned EXCEPT !.state = "READY", !.token = t]
  ELSE IF p = NoProfile /\ r.profile # NoProfile /\ r.state = "READY"
  THEN [assigned EXCEPT !.state = "PENDING", !.token = t]
  ELSE assigned

(* PATCH /api/hosts/{id}: the profile first, then the remaining fields; a  *)
(* state in the payload always comes with a new token.                     *)
PatchHost(r, p, s, n, t) ==
  LET profiled == IF p = Unset THEN r ELSE ApplyProfile(r, p, t)
      named == IF n = Unset THEN profiled ELSE [profiled EXCEPT !.hostname = n]
  IN  IF s = Unset THEN named ELSE [named EXCEPT !.state = s, !.token = t]

(* POST /hosts/{id}: the form writes all fields as they come and does not  *)
(* relate the profile to the state.                                        *)
SubmitHostForm(r, p, s, n, t) ==
  [r EXCEPT !.profile = p, !.state = s, !.hostname = n,
            !.token = IF r.state # s \/ r.profile # p THEN t ELSE @]

(* Slip: requesting an install does not rotate the token.                  *)
ReadyForInstallSameToken(r, t) == [r EXCEPT !.state = "READY"]

ReadyForInstall(r, t) == [r EXCEPT !.state = "READY", !.token = t]

Decommissioned(r, t) == [r EXCEPT !.state = "DECOMMISSIONED", !.token = t]

-----------------------------------------------------------------------------
(* Requests of the machine.                                                *)

Registered(t) == NewHost(NoProfile, NoName, t)

(* Slip: the early return for a host that has its profile is lost.         *)
UnattendedNeverKeeps(r) == FALSE

(* apply_unattended_profile with d the unattended default profile: whether *)
(* it assigns d, whether it returns True, and the row it leaves.           *)
UnattendedKeeps(r) ==
  /\ UnattendedAutoEnroll
  /\ r.profile # NoProfile
  /\ r.state \in {"READY", "INSTALLING"}

(* Slips: the setting is not looked at; a host with a profile is skipped.  *)
UnattendedAlwaysAssigns(r, d) ==
  r.state \in {"PENDING", "READY"} /\ d # NoProfile
UnattendedAssignsBlank(r, d) ==
  /\ UnattendedAutoEnroll
  /\ r.profile = NoProfile
  /\ r.state \in {"PENDING", "READY"}
  /\ d # NoProfile

UnattendedAssigns(r, d) ==
  /\ UnattendedAutoEnroll
  /\ ~ UnattendedKeeps(r)
  /\ r.state \in {"PENDING", "READY"}
  /\ d # NoProfile

UnattendedApplies(r, d) == UnattendedKeeps(r) \/ UnattendedAssigns(r, d)

ApplyUnattended(r, d, t) ==
  IF UnattendedAssigns(r, d)
  THEN [r EXCEPT !.profile = d, !.state = "READY", !.token = t]
  ELSE r

(* Slip: a machine that reboots during its installation gets no script.    *)
InstallScriptOnce(r) ==
  IF r.profile \in Bootable /\ r.state = "READY" THEN {r.token} ELSE {}

(* The tokens an installer script carries: none when it falls back to a    *)
(* local boot because the profile or a media path is missing.              *)
InstallScript(r) == IF r.profile \in Bootable THEN {r.token} ELSE {}

(* Slip: the states that may not be installed are listed instead.          *)
ConfigurableUnlessRetired(r) ==
  r.state \notin {Absent, "PENDING", "DECOMMISSIONED"}

Configurable(r) == r.state \in {"READY", "INSTALLING"}

(* Slip: fetching the config leaves the host READY.                        *)
ConfigFetchedUnmarked(r) == r

ConfigFetched(r) == [r EXCEPT !.state = "INSTALLING"]

RenderFailed(r) == [r EXCEPT !.state = "FAILED"]

(* Slips: the callback keeps the token, or keeps it when all went well.    *)
CalledBackSameToken(r, outcome, t) == [r EXCEPT !.state = outcome]
CalledBackRotatingFailures(r, outcome, t) ==
  [r EXCEPT !.state = outcome, !.token = IF outcome = "FAILED" THEN t ELSE @]

(* Both outcomes of the callback end with a new token.                     *)
CalledBack(r, outcome, t) == [r EXCEPT !.state = outcome, !.token = t]

-----------------------------------------------------------------------------
(* The host's build records, oldest first.                                 *)

StartBuildRecord(bs, r) ==
  Append(bs, [token |-> r.token, profile |-> r.profile, state |-> "INSTALLING"])

(* Slips: the first record in query order is closed instead of the latest; *)
(* a callback for a host without records creates none.                     *)
FinishFirstBuildRecord(bs, r, outcome) ==
  IF bs = << >>
  THEN << [token |-> r.token, profile |-> r.profile, state |-> outcome] >>
  ELSE [bs EXCEPT ![1] = [@ EXCEPT !.state = outcome]]
FinishExistingBuildRecord(bs, r, outcome) ==
  IF bs = << >> THEN bs
  ELSE [bs EXCEPT ![Len(bs)] = [@ EXCEPT !.state = outcome]]

(* The latest record takes the outcome, whatever its state and token; only *)
(* a host without records gets a new one.                                  *)
FinishLatestBuildRecord(bs, r, outcome) ==
  IF bs = << >>
  THEN << [token |-> r.token, profile |-> r.profile, state |-> outcome] >>
  ELSE [bs EXCEPT ![Len(bs)] = [@ EXCEPT !.state = outcome]]

(* The post-install run the callback queues: for the profile the host has  *)
(* now, attached to the record just finished.                              *)
QueueAnsibleRun(rs, bs, r) ==
  IF r.profile \in Playbooks
  THEN Append(rs, [token |-> r.token, profile |-> r.profile, build |-> Len(bs)])
  ELSE rs
=============================================================================
