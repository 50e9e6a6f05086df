--------------------------- MODULE HostProperties ---------------------------
(***************************************************************************)
(* What the handlers of HostLifecycle promise about hosts, tokens, build   *)
(* records and post-install runs.                                          *)
(***************************************************************************)
EXTENDS HostLifecycle

(* The tokens of h's build records, of its queued runs.                    *)
RecordTokens(h) == {builds[h][i].token : i \in DOMAIN builds[h]}
RunTokens(h) == {runs[h][i].token : i \in DOMAIN runs[h]}

(***************************************************************************)
(* The current token of a host has been rendered into a config only while  *)
(* that installation is under way or its last rendering failed.  Every     *)
(* transition out of an installation, by whichever handler, must therefore *)
(* rotate the token; this is all that keeps the callback handler, which    *)
(* never looks at host.state (boot.py:226-250), from ending an             *)
(* installation that nobody started.                                       *)
(***************************************************************************)
ServedTokenIsInstalling ==
  \A h \in Hosts :
    Known(h) /\ hosts[h].token \in served[h]
      => hosts[h].state \in {"INSTALLING", "FAILED"}

(***************************************************************************)
(* A token starts or closes at most one build record, however often its    *)
(* config is fetched and whatever operators do in between: the records of  *)
(* a host carry strictly increasing tokens (boot.py:175-194,               *)
(* builds.py:57-66).                                                       *)
(***************************************************************************)
OneRecordPerToken ==
  \A h \in Hosts : \A i, j \in DOMAIN builds[h] :
    i < j => builds[h][i].token < builds[h][j].token

(***************************************************************************)
(* The record of the current token is the latest one and still INSTALLING, *)
(* so that finish_latest_build_record, which picks the latest record and   *)
(* not the one of the token (builds.py:51-56), picks the right one.        *)
(***************************************************************************)
CurrentRecordIsOpen ==
  \A h \in Hosts : \A i \in DOMAIN builds[h] :
    builds[h][i].token = hosts[h].token
      => /\ i = Len(builds[h])
         /\ builds[h][i].state = "INSTALLING"

(***************************************************************************)
(* One installation queues at most one post-install run: a callback that   *)
(* is delivered twice does not run the playbook twice (boot.py:265-269).   *)
(***************************************************************************)
OneRunPerToken ==
  \A h \in Hosts : \A i, j \in DOMAIN runs[h] :
    i < j => runs[h][i].token < runs[h][j].token

(***************************************************************************)
(* A run is queued for a record that exists and whose installation has     *)
(* succeeded at that moment: its token is already retired and the record   *)
(* it is attached to is no older than the one the token started.           *)
(***************************************************************************)
RunsFollowInstalls ==
  \A h \in Hosts : \A i \in DOMAIN runs[h] :
    /\ runs[h][i].token < hosts[h].token
    /\ runs[h][i].build \in DOMAIN builds[h]
    /\ \A j \in DOMAIN builds[h] :
         builds[h][j].token = runs[h][i].token => j = runs[h][i].build

(***************************************************************************)
(* A finished machine is only re-imaged on an operator's request: whatever *)
(* a PROVISIONED or DECOMMISSIONED machine sends, with tokens however old, *)
(* its row and its records stay (boot.py:111-116, unattended.py:67).       *)
(***************************************************************************)
FinishedStaysFinished ==
  [][\A h \in Hosts :
       Machine(h) /\ hosts[h].state \in {"PROVISIONED", "DECOMMISSIONED"}
         => UNCHANGED <<hosts[h], builds[h], runs[h]>>]_vars

(***************************************************************************)
(* Without unattended enrolment a machine that is unknown or PENDING is    *)
(* not installable: none of its requests makes it READY or hands it a      *)
(* token (README.md:258, unattended.py:63).                                *)
(***************************************************************************)
OperatorsDecide ==
  [][\A h \in Hosts :
       Machine(h) /\ hosts[h].state \in {Absent, "PENDING"}
         => \/ UnattendedAutoEnroll
            \/ /\ hosts'[h].state = "PENDING"
               /\ UNCHANGED <<offered[h], served[h]>>]_vars

(***************************************************************************)
(* The machine's own requests never replace the profile of a host that is  *)
(* READY or being installed, although unattended enrolment may run on      *)
(* every boot and registration (unattended.py:65-68).                      *)
(***************************************************************************)
ChosenProfileIsKept ==
  [][\A h \in Hosts :
       Machine(h) /\ hosts[h].state # "PENDING"
         => hosts'[h].profile = hosts[h].profile \/ hosts[h].profile = NoProfile]_vars

(***************************************************************************)
(* While a record of the current token exists a callback closes that       *)
(* record and no other; a record that is already closed is rewritten only  *)
(* for an installation that was never recorded (builds.py:51-69).          *)
(***************************************************************************)
CallbackClosesOwnRecord ==
  [][\A h \in Hosts : \A i \in DOMAIN builds[h] :
       builds'[h][i] # builds[h][i] /\ hosts[h].token \in RecordTokens(h)
         => builds[h][i].token = hosts[h].token]_vars

(***************************************************************************)
(* A failed callback leaves a status the operator gave to the asset, and   *)
(* no callback touches the asset of another host, or takes its tag: a host *)
(* with an asset, tagged or not, keeps it, and one without gets an asset   *)
(* with a tag that is free (builds.py:10-21, 48-49).                       *)
(***************************************************************************)
AssetsOfOthersAreKept ==
  [][\A h \in Hosts : Machine(h) =>
       /\ \A a \in assets \ assets' : a.host = h /\ hosts'[h].state = "PROVISIONED"
       /\ \A a \in assets' \ assets :
            /\ a.host = h
            /\ IF HasAsset(h) THEN hosts'[h].state = "PROVISIONED"
               ELSE \A b \in assets : b.tag # a.tag]_vars

-----------------------------------------------------------------------------
(* A machine that has a complete installer to run.                         *)
Installable(h) == Configurable(hosts[h]) /\ hosts[h].profile \in Bootable

(***************************************************************************)
(* An installable machine that keeps going ends its installation (or an    *)
(* operator takes it away), even when operators rotate its token in the    *)
(* middle: it boots again with the new one.  The one exception is a clash  *)
(* of asset tags (builds.py:13-20).                                        *)
(***************************************************************************)
InstallEnds ==
  \A h \in Hosts : Installable(h) ~> (~ Installable(h) \/ TagClash(h, hosts[h]))

(***************************************************************************)
(* With unattended enrolment and a non-empty catalogue no machine that     *)
(* keeps booting stays PENDING (README.md:179, boot.py:92).                *)
(***************************************************************************)
PendingIsEnrolled ==
  \A h \in Hosts :
    (UnattendedAutoEnroll /\ Profiles # {} /\ hosts[h].state = "PENDING")
      ~> hosts[h].state # "PENDING"
=============================================================================
