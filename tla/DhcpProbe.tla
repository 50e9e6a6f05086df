----------------------------- MODULE DhcpProbe -----------------------------
(***************************************************************************)
(* The DHCP probe: requests of the network page mark it as running in a    *)
(* row of app_settings and leave a background task behind                  *)
(* (services/dhcp_probe.py, routers/ui.py), which has the sidecar listen   *)
(* to the network (dhcp_probe_server.py, dhcp_detect.py) and stores what   *)
(* came of it.  Requests and tasks overlap; a restart loses them.          *)
(***************************************************************************)
EXTENDS DhcpPackets, FiniteSets

CONSTANTS
  Probes,    (* the requests, and the probe of each                         *)
  Servers,   (* DHCP servers, numbers                                       *)
  Nobody     (* no probe: the transaction of another machine, no result     *)

ASSUME ProbeAssumption == Nobody \notin Probes /\ Servers \subseteq 0..255

VARIABLES
  setting,   (* the row dhcp_probe_last                                     *)
  at,        (* where each probe is                                         *)
  loaded,    (* the row as a request has read it                            *)
  heard,     (* the offers of a probe that is under way or to be stored     *)
  failed,    (* whether it has an error to report                           *)
  earlier    (* the probes that had ended when it was requested (history)   *)

vars == <<setting, at, loaded, heard, failed, earlier>>

(* server_id, source_ip, and the transaction it answers (history).         *)
Offer == [id : {None} \cup {Address(s) : s \in Servers}, source : Servers,
          xid : Probes \cup {Nobody}]

(* result: the probe whose offers and time these are.                      *)
Setting == [stored : BOOLEAN, offers : SUBSET Offer, result : Probes \cup {Nobody},
            error : BOOLEAN, running : BOOLEAN]

NoSetting == [stored |-> FALSE, offers |-> {}, result |-> Nobody,
              error |-> FALSE, running |-> FALSE]

Pending == {"waiting", "listening", "storing"}

TypeOK ==
  /\ setting \in Setting
  /\ at \in [Probes -> Pending \cup {"none", "marking", "refused", "stored", "lost"}]
  /\ loaded \in [Probes -> Setting]
  /\ heard \in [Probes -> SUBSET Offer]
  /\ failed \in [Probes -> BOOLEAN]
  /\ earlier \in [Probes -> SUBSET Probes]

Init ==
  /\ setting = NoSetting
  /\ at = [r \in Probes |-> "none"]
  /\ loaded = [r \in Probes |-> NoSetting]
  /\ heard = [r \in Probes |-> {}]
  /\ failed = [r \in Probes |-> FALSE]
  /\ earlier = [r \in Probes |-> {}]

Go(r, next) == at' = [at EXCEPT ![r] = next]

-----------------------------------------------------------------------------
(* trigger_dhcp_probe.                                                     *)

(* mark_probe_starting reads the row ...                                   *)
LoadSetting(r) ==
  /\ at[r] = "none"
  /\ loaded' = [loaded EXCEPT ![r] = setting]
  /\ earlier' = [earlier EXCEPT ![r] = {q \in Probes : at[q] = "stored"}]
  /\ Go(r, "marking")
  /\ UNCHANGED <<setting, heard, failed>>

(* The placeholder: the last result, without its error.                    *)
Marked(previous) ==
  [stored |-> TRUE, offers |-> previous.offers, result |-> previous.result,
   error |-> FALSE, running |-> TRUE]

(* ... and writes it, with what others have stored meanwhile overwritten.  *)
Mark(r) ==
  /\ at[r] = "marking"
  /\ setting' = Marked(loaded[r])
  /\ loaded' = [loaded EXCEPT ![r] = NoSetting]
  /\ Go(r, "waiting")
  /\ UNCHANGED <<heard, failed, earlier>>

(* Two requests that both insert the row.                                  *)
MarkRefused(r) ==
  /\ at[r] = "marking"
  /\ setting.stored /\ ~ loaded[r].stored
  /\ loaded' = [loaded EXCEPT ![r] = NoSetting]
  /\ Go(r, "refused")
  /\ UNCHANGED <<setting, heard, failed, earlier>>

-----------------------------------------------------------------------------
(* probe, in the sidecar.                                                  *)

(* The sidecar has been asked and has sent its DISCOVER.                   *)
Listen(r) ==
  /\ at[r] = "waiting"
  /\ Go(r, "listening")
  /\ UNCHANGED <<setting, loaded, heard, failed, earlier>>

(* Every socket on the port hears every broadcast.                         *)
Answered(x) ==
  IF x = Nobody THEN TRUE ELSE at[x] \notin {"none", "marking", "refused", "waiting"}

(* Slip: the transaction is not compared.                                  *)
ParseAnyOffer(data, xid, r) == Option(data, MessageType) = DhcpOffer

ParseOffer(data, xid, r) == xid = r /\ Option(data, MessageType) = DhcpOffer

(* An answer of s to x arrives, as late and as often as it likes; what     *)
(* does not fit into the buffer is cut off.                                *)
Receive(r, x, s) ==
  /\ at[r] = "listening" /\ Answered(x)
  /\ \E bytes \in OfferBytes(s) : \E size \in 0..Len(bytes) :
       LET data == SubSeq(bytes, 1, size)
           offer == [id |-> ServerId(data), source |-> s, xid |-> x]
           seen == \E o \in heard[r] : o.id = offer.id /\ o.source = s
       IN  /\ ParseOffer(data, x, r) /\ ~ seen
           /\ heard' = [heard EXCEPT ![r] = @ \cup {offer}]
  /\ UNCHANGED <<setting, at, loaded, failed, earlier>>

-----------------------------------------------------------------------------
(* run_dhcp_probe.                                                         *)

EndProbe(r) ==
  /\ at[r] = "listening"
  /\ Go(r, "storing")
  /\ UNCHANGED <<setting, loaded, heard, failed, earlier>>

Outcome(r, error) ==
  /\ at[r] \in {"waiting", "listening"}
  /\ heard' = [heard EXCEPT ![r] = {}]
  /\ failed' = [failed EXCEPT ![r] = error]
  /\ Go(r, "storing")
  /\ UNCHANGED <<setting, loaded, earlier>>

(* Sidecar not reachable, too slow, without the right to listen, or not    *)
(* answering JSON.                                                         *)
FailProbe(r) == Outcome(r, TRUE)

(* Slip: the result is stored after the try statement, not finally.        *)
CrashUnrecorded(r) ==
  /\ at[r] \in {"waiting", "listening"}
  /\ Go(r, "stored")
  /\ heard' = [heard EXCEPT ![r] = {}]
  /\ UNCHANGED <<setting, loaded, failed, earlier>>

(* Any other exception, such as an answer that is cut short, is stored as  *)
(* neither offers nor an error.                                            *)
CrashProbe(r) == Outcome(r, FALSE)

(* Slip: the flag stays as the request has set it.                         *)
StoreUncleared(r) ==
  /\ at[r] = "storing"
  /\ setting' = [setting EXCEPT !.offers = heard[r], !.result = r, !.error = failed[r]]
  /\ heard' = [heard EXCEPT ![r] = {}] /\ failed' = [failed EXCEPT ![r] = FALSE]
  /\ Go(r, "stored")
  /\ UNCHANGED <<loaded, earlier>>

(* Slip: a probe that failed leaves the offers of the last one.            *)
StoreMerged(r) ==
  /\ at[r] = "storing"
  /\ setting' = IF failed[r] THEN [setting EXCEPT !.running = FALSE, !.error = TRUE]
                ELSE [stored |-> TRUE, offers |-> heard[r], result |-> r,
                      error |-> FALSE, running |-> FALSE]
  /\ heard' = [heard EXCEPT ![r] = {}] /\ failed' = [failed EXCEPT ![r] = FALSE]
  /\ Go(r, "stored")
  /\ UNCHANGED <<loaded, earlier>>

Store(r) ==
  /\ at[r] = "storing"
  /\ setting' = [stored |-> TRUE, offers |-> heard[r], result |-> r,
                 error |-> failed[r], running |-> FALSE]
  /\ heard' = [heard EXCEPT ![r] = {}] /\ failed' = [failed EXCEPT ![r] = FALSE]
  /\ Go(r, "stored")
  /\ UNCHANGED <<loaded, earlier>>

(* Nothing looks at the row when the process starts again.                 *)
Restart ==
  /\ \E r \in Probes : at[r] \in Pending \cup {"marking"}
  /\ at' = [r \in Probes |-> IF at[r] \in Pending THEN "lost"
                             ELSE IF at[r] = "marking" THEN "refused" ELSE at[r]]
  /\ loaded' = [r \in Probes |-> NoSetting]
  /\ heard' = [r \in Probes |-> {}] /\ failed' = [r \in Probes |-> FALSE]
  /\ UNCHANGED <<setting, earlier>>

Next ==
  \/ \E r \in Probes :
       \/ LoadSetting(r) \/ Mark(r) \/ MarkRefused(r)
       \/ Listen(r) \/ \E x \in Probes \cup {Nobody}, s \in Servers : Receive(r, x, s)
       \/ EndProbe(r) \/ FailProbe(r) \/ CrashProbe(r) \/ Store(r)
  \/ Restart

Spec == Init /\ [][Next]_vars

(* Tasks of the pool go on, and the sidecar has a deadline.                *)
FairSpec ==
  /\ Spec
  /\ \A r \in Probes : WF_vars(Listen(r)) /\ WF_vars(EndProbe(r)) /\ WF_vars(Store(r))

-----------------------------------------------------------------------------
(***************************************************************************)
(* The offers on the network page answer the probe they are shown with, of *)
(* which others may have been under way at the same time; and they name    *)
(* the server that has sent them, however it lays out its packets, or none *)
(* if the packet was cut off (dhcp_detect.py:59-103, dhcp_probe.py:55-57). *)
(***************************************************************************)
OffersAnswerTheProbe ==
  /\ \A offer \in setting.offers :
       offer.xid = setting.result /\ offer.id \in {None, Address(offer.source)}
  /\ \A s \in Servers : \A bytes \in OfferBytes(s) :
       ParseOffer(bytes, s, s) /\ ServerId(bytes) = Address(s)

(***************************************************************************)
(* The page says that a probe is running only while there is one that has  *)
(* still to store its result, or after a restart that has lost one         *)
(* (dhcp_probe.py:49-61, 166-169).                                         *)
(***************************************************************************)
RunningMeansProbing ==
  setting.running => \E r \in Probes : at[r] \in Pending \cup {"lost"}

(***************************************************************************)
(* A result that is shown as the last one is never older than a probe that *)
(* has ended and was requested only after it, although a request may put   *)
(* back what it has read too early (dhcp_probe.py:53-61, 166-169).         *)
(***************************************************************************)
ResultIsRecent ==
  setting.stored /\ ~ setting.running
    => \A r \in Probes : at[r] = "stored" => setting.result \notin earlier[r]

(***************************************************************************)
(* A probe that is announced ends, unless a restart has lost it            *)
(* (dhcp_probe.py:133-169).                                                *)
(***************************************************************************)
ProbesAreReported ==
  setting.running ~> ~ setting.running \/ \E r \in Probes : at[r] = "lost"
=============================================================================
