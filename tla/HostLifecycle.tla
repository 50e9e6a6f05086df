--------------------------- MODULE HostLifecycle ---------------------------
(***************************************************************************)
(* The life of a host from its first PXE boot to its decommissioning, with *)
(* every request handled in one step: the serial execution of the handlers *)
(* that write the hosts, build_records, assets and ansible_runs tables.    *)
(*                                                                         *)
(* A machine acts on what it was given: an iPXE script carries the token   *)
(* of the config URL, a rendered config carries the token of the callback  *)
(* URL.  Scripts and configs are never forgotten, so a machine may use an  *)
(* old one, use one twice, or never use it: delayed, repeated and lost     *)
(* requests are all behaviours of this module.                             *)
(***************************************************************************)
EXTENDS HostRows, FiniteSets

CONSTANTS
  Hosts,            (* MAC addresses                                       *)
  NoHost,           (* asset.host_id is None                               *)
  FirstProfile,     (* the oldest profile, NoProfile in an empty catalogue *)
  PinnedProfile,    (* PXE_UNATTENDED_DEFAULT_PROFILE_NAME, or NoProfile   *)
  AssetStatuses,    (* the asset statuses an operator may choose           *)
  MaxOps            (* bound on the number of operator requests            *)

ASSUME HostAssumption ==
  /\ NoHost \notin Hosts
  /\ NoName \notin Hosts
  /\ FirstProfile \in ProfileId
  /\ (FirstProfile = NoProfile) <=> (Profiles = {})
  /\ PinnedProfile \in ProfileId
  /\ "ACTIVE" \in AssetStatuses
  /\ MaxOps \in Nat

VARIABLES
  hosts,              (* the hosts table, by MAC                           *)
  builds,             (* the build records of each host, oldest first      *)
  runs,               (* the runs that callbacks queued, oldest first      *)
  assets,             (* the assets table, a set of rows                   *)
  unattendedDefault,  (* the unattended_default_profile setting            *)
  offered,            (* tokens in the iPXE scripts a machine was given    *)
  served,             (* tokens in the configs a machine was given         *)
  ops                 (* operator requests so far                          *)

tables == <<hosts, builds, runs, assets, unattendedDefault>>
vars == <<hosts, builds, runs, assets, unattendedDefault, offered, served, ops>>

(* A callback tags an asset with the hostname or the MAC, operators choose *)
(* a tag; asset_tag is None as NoName.  Rows that only differ in what no   *)
(* request looks at are not told apart.                                    *)
AssetRow ==
  [tag : Hosts \cup Hostname, host : Hosts \cup {NoHost}, status : AssetStatuses]

RunRow == [token : Nat, profile : Profiles, build : Nat]

TypeOK ==
  /\ hosts \in [Hosts -> HostRow]
  /\ builds \in [Hosts -> Seq(BuildRow)]
  /\ runs \in [Hosts -> Seq(RunRow)]
  /\ assets \subseteq AssetRow
  /\ unattendedDefault \in ProfileId
  /\ offered \in [Hosts -> SUBSET Nat]
  /\ served \in [Hosts -> SUBSET Nat]
  /\ ops \in Nat

(* init_database() has created the tables and chosen the default profile.  *)
Init ==
  /\ hosts = [h \in Hosts |-> NoRow]
  /\ builds = [h \in Hosts |-> << >>]
  /\ runs = [h \in Hosts |-> << >>]
  /\ assets = {}
  /\ unattendedDefault =
       IF PinnedProfile # NoProfile THEN PinnedProfile ELSE FirstProfile
  /\ offered = [h \in Hosts |-> {}]
  /\ served = [h \in Hosts |-> {}]
  /\ ops = 0

-----------------------------------------------------------------------------
(* Requests of the machines.                                               *)

Known(h) == hosts[h].state # Absent

(* The token that generate_install_token() returns to a request for h.     *)
Fresh(h) == hosts[h].token + 1

DefaultProfile ==
  IF PinnedProfile # NoProfile THEN PinnedProfile
  ELSE IF unattendedDefault # NoProfile THEN unattendedDefault
  ELSE FirstProfile

(* A request that boots or registers h leaves the row r: the enrolment is  *)
(* persisted with the default it used, and script is what the machine got. *)
Enrol(h, r, assigned, script) ==
  /\ hosts' = [hosts EXCEPT ![h] = r]
  /\ unattendedDefault' = IF assigned THEN DefaultProfile ELSE unattendedDefault
  /\ offered' = [offered EXCEPT ![h] = @ \cup script]
  /\ UNCHANGED <<builds, runs, assets, served, ops>>

RowOrRegistered(h) == IF Known(h) THEN hosts[h] ELSE Registered(1)

(* GET /boot.ipxe: an unknown machine is registered; a PENDING one takes   *)
(* the unattended profile; READY and INSTALLING get the installer again.   *)
BootIpxe(h) ==
  LET r == RowOrRegistered(h)
      assigned == r.state = "PENDING" /\ UnattendedAssigns(r, DefaultProfile)
      booted == IF assigned
                THEN ApplyUnattended(r, DefaultProfile, r.token + 1)
                ELSE r
  IN  Enrol(h, booted, assigned,
            IF Configurable(booted) THEN InstallScript(booted) ELSE {})

(* GET /api/boot/register: the unattended profile is applied in any state. *)
RegisterHost(h) ==
  LET r == RowOrRegistered(h)
      d == DefaultProfile
      registered == ApplyUnattended(r, d, r.token + 1)
  IN  Enrol(h, registered, UnattendedAssigns(r, d),
            IF UnattendedApplies(r, d) THEN InstallScript(registered) ELSE {})

(* _get_host_by_token: the request names the host by its current token.    *)
HostByToken(h, t) == Known(h) /\ hosts[h].token = t

(* GET /api/boot/config/{token}, also as the Ubuntu seed's user-data: the  *)
(* first fetch starts the build, later ones only render again.             *)
BootConfig(h, t) ==
  /\ HostByToken(h, t)
  /\ Configurable(hosts[h])
  /\ hosts[h].profile # NoProfile
  /\ hosts' = [hosts EXCEPT ![h] = ConfigFetched(@)]
  /\ builds' = [builds EXCEPT ![h] =
                  IF hosts[h].state = "READY"
                  THEN StartBuildRecord(@, hosts[h]) ELSE @]
  /\ served' = [served EXCEPT ![h] = @ \cup {t}]
  /\ UNCHANGED <<runs, assets, unattendedDefault, offered, ops>>

(* The same request when rendering raises ConfigRenderError (no profile,   *)
(* or a template that does not resolve any more): FAILED, same token.      *)
BootConfigFails(h, t) ==
  /\ HostByToken(h, t)
  /\ Configurable(hosts[h])
  /\ hosts' = [hosts EXCEPT ![h] = RenderFailed(@)]
  /\ UNCHANGED <<builds, runs, assets, unattendedDefault, offered, served, ops>>

HasAsset(h) == \E a \in assets : a.host = h

TagOf(h, r) == IF r.hostname # NoName THEN r.hostname ELSE h

(* The flush in ensure_asset_for_host would violate the unique asset_tag.  *)
TagClash(h, r) == ~ HasAsset(h) /\ \E a \in assets : a.tag = TagOf(h, r)

Activated(a) == [a EXCEPT !.status = "ACTIVE"]

NewAsset(h, r) == [tag |-> TagOf(h, r), host |-> h, status |-> "ACTIVE"]

(* Slip: every callback makes the asset ACTIVE.                            *)
AssetsActivated(h, r, outcome) ==
  IF HasAsset(h)
  THEN {IF a.host = h THEN Activated(a) ELSE a : a \in assets}
  ELSE assets \cup {NewAsset(h, r)}

(* ensure_asset_for_host and the status set after it.                      *)
AssetsAfterCallback(h, r, outcome) ==
  IF HasAsset(h)
  THEN {IF a.host = h /\ outcome = "PROVISIONED" THEN Activated(a) ELSE a : a \in assets}
  ELSE assets \cup {NewAsset(h, r)}

(* POST /api/boot/callback/{token} with status=done or status=failed.  A   *)
(* clash of asset tags raises in the flush and nothing is committed.       *)
BootCallback(h, t, outcome) ==
  /\ HostByToken(h, t)
  /\ ~ TagClash(h, hosts[h])
  /\ assets' = AssetsAfterCallback(h, hosts[h], outcome)
  /\ builds' = [builds EXCEPT ![h] =
                  FinishLatestBuildRecord(@, hosts[h], outcome)]
  /\ runs' = IF outcome = "PROVISIONED"
             THEN [runs EXCEPT ![h] = QueueAnsibleRun(@, builds'[h], hosts[h])]
             ELSE runs
  /\ hosts' = [hosts EXCEPT ![h] = CalledBack(@, outcome, Fresh(h))]
  /\ UNCHANGED <<unattendedDefault, offered, served, ops>>

FetchConfig(h) == \E t \in offered[h] : BootConfig(h, t)

FetchConfigFails(h) == \E t \in offered[h] : BootConfigFails(h, t)

CallBack(h) ==
  \E t \in served[h], outcome \in {"PROVISIONED", "FAILED"} :
    BootCallback(h, t, outcome)

Machine(h) ==
  \/ BootIpxe(h) \/ RegisterHost(h)
  \/ FetchConfig(h) \/ FetchConfigFails(h)
  \/ CallBack(h)

-----------------------------------------------------------------------------
(* Requests of the operators, through the API and through the UI forms.    *)

(* An operator request that leaves h with the row r.                       *)
Operate(h, r) ==
  /\ ops < MaxOps
  /\ ops' = ops + 1
  /\ hosts' = [hosts EXCEPT ![h] = r]
  /\ UNCHANGED <<builds, runs, assets, unattendedDefault, offered, served>>

CreateHost(h, p, n) == ~ Known(h) /\ Operate(h, NewHost(p, n, 1))

CreateHostForm(h, p, n) == ~ Known(h) /\ Operate(h, NewHost(p, n, 1))

UpdateHost(h, p, s, n) ==
  Known(h) /\ Operate(h, PatchHost(hosts[h], p, s, n, Fresh(h)))

UpdateHostForm(h, p, s, n) ==
  Known(h) /\ Operate(h, SubmitHostForm(hosts[h], p, s, n, Fresh(h)))

RequestInstall(h) ==
  /\ Known(h)
  /\ hosts[h].profile # NoProfile
  /\ Operate(h, ReadyForInstall(hosts[h], Fresh(h)))

RequestInstallForm(h) ==
  /\ Known(h)
  /\ hosts[h].profile # NoProfile
  /\ Operate(h, ReadyForInstall(hosts[h], Fresh(h)))

DecommissionHost(h) ==
  Known(h) /\ Operate(h, Decommissioned(hosts[h], Fresh(h)))

DecommissionHostForm(h) ==
  Known(h) /\ Operate(h, Decommissioned(hosts[h], Fresh(h)))

(* POST /profiles/unattended-default.                                      *)
SetUnattendedDefault(p) ==
  /\ ops < MaxOps
  /\ ops' = ops + 1
  /\ unattendedDefault' = p
  /\ UNCHANGED <<hosts, builds, runs, assets, offered, served>>

(* The unique columns: what is None does not clash.                        *)
FitsNextTo(a, others) ==
  /\ a.tag # NoName => \A b \in others : b.tag # a.tag
  /\ a.host # NoHost => \A b \in others : b.host # a.host

(* An operator request that leaves the row a in place of the rows old.     *)
SaveAsset(old, a) ==
  /\ ops < MaxOps
  /\ a.host # NoHost => Known(a.host)
  /\ FitsNextTo(a, assets \ old)
  /\ ops' = ops + 1
  /\ assets' = (assets \ old) \cup {a}
  /\ UNCHANGED <<hosts, builds, runs, unattendedDefault, offered, served>>

CreateAsset(a) == SaveAsset({}, a)

CreateAssetForm(a) == SaveAsset({}, a)

(* Any field may change, and any may stay.                                 *)
UpdateAsset(old, a) == old \in assets /\ SaveAsset({old}, a)

UpdateAssetForm(old, a) == old \in assets /\ SaveAsset({old}, a)

HostOperator(h) ==
  \/ \E p \in ProfileId, n \in Hostname :
       CreateHost(h, p, n) \/ CreateHostForm(h, p, n)
  \/ \E p \in ProfileId \cup {Unset}, s \in HostState \cup {Unset},
        n \in Hostname \cup {Unset} : UpdateHost(h, p, s, n)
  \/ \E p \in ProfileId, s \in HostState, n \in Hostname :
       UpdateHostForm(h, p, s, n)
  \/ RequestInstall(h) \/ RequestInstallForm(h)
  \/ DecommissionHost(h) \/ DecommissionHostForm(h)

Operator ==
  \/ \E h \in Hosts : HostOperator(h)
  \/ \E p \in Profiles : SetUnattendedDefault(p)
  \/ \E a \in AssetRow :
       \/ CreateAsset(a) \/ CreateAssetForm(a)
       \/ \E old \in assets : UpdateAsset(old, a) \/ UpdateAssetForm(old, a)

-----------------------------------------------------------------------------
Next == (\E h \in Hosts : Machine(h)) \/ Operator

Spec == Init /\ [][Next]_vars

(* A powered-on machine keeps PXE booting, fetches the config its script   *)
(* names and reports the end of the installation; nobody owes a rendering  *)
(* error, and operators owe nothing.                                       *)
Fairness ==
  \A h \in Hosts : /\ WF_vars(BootIpxe(h))
                   /\ WF_vars(FetchConfig(h))
                   /\ WF_vars(CallBack(h))

FairSpec == Spec /\ Fairness
=============================================================================
