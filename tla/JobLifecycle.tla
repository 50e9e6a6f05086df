---------------------------- MODULE JobLifecycle ----------------------------
(***************************************************************************)
(* What a row of a job table promises its readers, whatever the job does:  *)
(* it is queued once, it says RUNNING before its work begins, the work is  *)
(* done at most once, and the row says that it has ended only when nobody  *)
(* works on it any more.  Work may stop without anybody noticing.          *)
(***************************************************************************)
CONSTANT Jobs

VARIABLES
  state,    (* what the row of a job says, NONE if there is no row          *)
  working,  (* the jobs that are being worked on                            *)
  worked    (* the jobs whose work has begun, ever                          *)

JobState == {"NONE", "QUEUED", "RUNNING", "ENDED"}

Init ==
  /\ state = [j \in Jobs |-> "NONE"]
  /\ working = {} /\ worked = {}

Queue(j) ==
  /\ state[j] = "NONE"
  /\ state' = [state EXCEPT ![j] = "QUEUED"]
  /\ UNCHANGED <<working, worked>>

Start(j) ==
  /\ state[j] = "QUEUED"
  /\ state' = [state EXCEPT ![j] = "RUNNING"]
  /\ UNCHANGED <<working, worked>>

Work(j) ==
  /\ state[j] = "RUNNING"
  /\ j \notin worked
  /\ working' = working \cup {j} /\ worked' = worked \cup {j}
  /\ UNCHANGED state

Stop(J) ==
  /\ working' = working \ J
  /\ UNCHANGED <<state, worked>>

End(j) ==
  /\ state[j] \in {"QUEUED", "RUNNING"}
  /\ j \notin working
  /\ state' = [state EXCEPT ![j] = "ENDED"]
  /\ UNCHANGED <<working, worked>>

Next ==
  \/ \E j \in Jobs : Queue(j) \/ Start(j) \/ Work(j) \/ End(j)
  \/ \E J \in SUBSET Jobs : Stop(J)

Spec == Init /\ [][Next]_<<state, working, worked>>

-----------------------------------------------------------------------------
(***************************************************************************)
(* Whoever reads RUNNING must expect that somebody is at work, and whoever *)
(* reads anything else that nobody is: a job is retried, and its files are *)
(* used, on the strength of its row (ansible_runner.py:181-205,            *)
(* media_jobs.py:207-209, 240-273).                                        *)
(***************************************************************************)
WorkIsAnnounced == \A j \in working : state[j] = "RUNNING"

(***************************************************************************)
(* Work that has stopped, for whatever reason, is not taken up again       *)
(* (bootstrap.py:18-34: nothing looks for jobs that a restart has cut      *)
(* off).                                                                   *)
(***************************************************************************)
WorkIsNotRepeated ==
  [][\A j \in worked \ working : j \notin working']_<<state, working, worked>>
=============================================================================
