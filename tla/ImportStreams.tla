--------------------------- MODULE ImportStreams ---------------------------
(***************************************************************************)
(* How a media import job reads the output of its subprocess               *)
(* (_stream_subprocess in services/media_jobs.py; the subprocess is        *)
(* media_import.py).  Two pipes of limited capacity; select() looks at the *)
(* pipes, readline() at the buffers behind them.  A line is written and    *)
(* read in two pieces, and streams are counted in pieces, so that a stream *)
(* with an odd number of them ends in the middle of a line.                *)
(***************************************************************************)
EXTENDS Naturals

CONSTANTS
  Capacity,  (* of a pipe, in pieces                                        *)
  MaxLines   (* bound: the lines that are written to a stream               *)

ASSUME StreamsAssumption == Capacity \in Nat \ {0} /\ MaxLines \in Nat

VARIABLES
  written,   (* what the child has written to each stream                   *)
  pipe,      (* what is in the pipe                                         *)
  buffer,    (* what has been taken out of it and is not returned yet       *)
  got,       (* what readline() has returned                                *)
  child,     (* running, exiting with its streams closed, or its end        *)
  reader,    (* where _stream_subprocess is; a stream: in its readline()    *)
  ready,     (* the streams that select() has returned and are to be read   *)
  watched,   (* the streams registered with the selector                    *)
  late,      (* the deadline has passed                                     *)
  outcome    (* what _stream_subprocess returns or raises                   *)

data == <<written, pipe, buffer, got>>
control == <<child, reader, ready, watched, late, outcome>>
vars == <<data, control>>

Stream == {"stdout", "stderr"}
Exit == {"success", "failure"}

TypeOK ==
  /\ written \in [Stream -> Nat] /\ pipe \in [Stream -> 0..Capacity]
  /\ buffer \in [Stream -> Nat] /\ got \in [Stream -> Nat]
  /\ child \in {"running", "exiting"} \cup Exit
  /\ reader \in {"select", "serving", "wait", "over"} \cup Stream
  /\ ready \subseteq Stream /\ watched \subseteq Stream
  /\ late \in BOOLEAN
  /\ outcome \in {"none", "timeout", "error"} \cup Exit

Init ==
  /\ written = [s \in Stream |-> 0] /\ pipe = [s \in Stream |-> 0]
  /\ buffer = [s \in Stream |-> 0] /\ got = [s \in Stream |-> 0]
  /\ child = "running"
  /\ reader = "select" /\ ready = {} /\ watched = Stream
  /\ late = FALSE /\ outcome = "none"

-----------------------------------------------------------------------------
(* The subprocess.                                                         *)

MidLine(s) == written[s] % 2 = 1
Closed == child # "running"

(* A write that does not fit waits.  What has been begun is written to its *)
(* end before anything else is.                                            *)
Write(s) ==
  /\ child = "running" /\ reader # "over"
  /\ pipe[s] < Capacity
  /\ \A t \in Stream \ {s} : ~ MidLine(t)
  /\ MidLine(s) \/ written[s] < 2 * MaxLines
  /\ written' = [written EXCEPT ![s] = @ + 1]
  /\ pipe' = [pipe EXCEPT ![s] = @ + 1]
  /\ UNCHANGED <<buffer, got, control>>

FinishLine(s) == MidLine(s) /\ Write(s)

Close ==
  /\ child = "running" /\ \A s \in Stream : ~ MidLine(s)
  /\ child' = "exiting"
  /\ UNCHANGED <<data, reader, ready, watched, late, outcome>>

Exited ==
  /\ child = "exiting"
  /\ child' \in Exit
  /\ UNCHANGED <<data, reader, ready, watched, late, outcome>>

(* Killed from outside, at any point; or by writing to a pipe that nobody  *)
(* reads any more.                                                         *)
Die ==
  /\ child \in {"running", "exiting"}
  /\ child' = "failure"
  /\ UNCHANGED <<data, reader, ready, watched, late, outcome>>

-----------------------------------------------------------------------------
(* _stream_subprocess.                                                     *)

Over(result) == reader' = "over" /\ outcome' = result

DeadlinePasses ==
  /\ ~ late /\ late' = TRUE
  /\ UNCHANGED <<data, child, reader, ready, watched, outcome>>

Readable(s) == pipe[s] > 0 \/ Closed

(* Slip: all streams are read when there is something to read.             *)
SelectAll ==
  /\ reader = "select" /\ watched # {} /\ ~ late
  /\ \E s \in watched : Readable(s)
  /\ ready' = watched
  /\ reader' = "serving"
  /\ UNCHANGED <<data, child, watched, late, outcome>>

(* select() looks at the pipes, not at what has been buffered.             *)
Select ==
  /\ reader = "select" /\ watched # {} /\ ~ late
  /\ ready' = {s \in watched : Readable(s)} /\ ready' # {}
  /\ reader' = "serving"
  /\ UNCHANGED <<data, child, watched, late, outcome>>

(* Slip: the subprocess is left to itself.                                 *)
ExpireOnly ==
  /\ reader = "select" /\ watched # {} /\ late
  /\ Over("timeout")
  /\ UNCHANGED <<data, child, ready, watched, late>>

Expire ==
  /\ reader = "select" /\ watched # {} /\ late
  /\ child' = IF child \in Exit THEN child ELSE "failure"
  /\ Over("timeout")
  /\ UNCHANGED <<data, ready, watched, late>>

Serve(s) ==
  /\ reader = "serving" /\ s \in ready
  /\ reader' = s /\ ready' = ready \ {s}
  /\ UNCHANGED <<data, child, watched, late, outcome>>

(* One line of each stream has been read; progress may be committed.       *)
Served ==
  /\ reader = "serving" /\ ready = {}
  /\ reader' = "select"
  /\ UNCHANGED <<data, child, ready, watched, late, outcome>>

(* readline() asks for more until there is a whole line or no more to come.*)
Fill(s) ==
  /\ reader = s /\ buffer[s] < 2
  /\ \E n \in 1..pipe[s] :
       /\ pipe' = [pipe EXCEPT ![s] = @ - n]
       /\ buffer' = [buffer EXCEPT ![s] = @ + n]
  /\ UNCHANGED <<written, got, control>>

ReadLine(s) ==
  /\ reader = s /\ buffer[s] >= 2
  /\ got' = [got EXCEPT ![s] = @ + 2]
  /\ buffer' = [buffer EXCEPT ![s] = @ - 2]
  /\ reader' = "serving"
  /\ UNCHANGED <<written, pipe, child, ready, watched, late, outcome>>

EndOfFile(s) == reader = s /\ buffer[s] < 2 /\ pipe[s] = 0 /\ Closed

(* A line without an end is returned once.                                 *)
ReadRest(s) ==
  /\ EndOfFile(s) /\ buffer[s] = 1
  /\ got' = [got EXCEPT ![s] = @ + 1]
  /\ buffer' = [buffer EXCEPT ![s] = 0]
  /\ reader' = "serving"
  /\ UNCHANGED <<written, pipe, child, ready, watched, late, outcome>>

(* Slip: a stream is done with when the child has ended.                   *)
UnregisterClosed(s) ==
  /\ reader = s /\ Closed
  /\ watched' = watched \ {s}
  /\ reader' = "serving"
  /\ UNCHANGED <<data, child, ready, late, outcome>>

Unregister(s) ==
  /\ EndOfFile(s) /\ buffer[s] = 0
  /\ watched' = watched \ {s}
  /\ reader' = "serving"
  /\ UNCHANGED <<data, child, ready, late, outcome>>

AllRead ==
  /\ reader = "select" /\ watched = {}
  /\ reader' = "wait"
  /\ UNCHANGED <<data, child, ready, watched, late, outcome>>

Waited ==
  /\ reader = "wait" /\ child \in Exit
  /\ Over(child)
  /\ UNCHANGED <<data, child, ready, watched, late>>

(* process.wait(timeout=10) raises the exception of the deadline.          *)
WaitTimesOut ==
  /\ reader = "wait" /\ child = "exiting"
  /\ Over("timeout")
  /\ UNCHANGED <<data, child, ready, watched, late>>

(* Output that is not UTF-8, a commit that fails: the child is not killed. *)
Raise ==
  /\ reader \in {"serving"} \cup Stream
  /\ Over("error")
  /\ UNCHANGED <<data, child, ready, watched, late>>

Reader ==
  \/ Select \/ Expire \/ Served \/ AllRead \/ Waited \/ WaitTimesOut
  \/ \E s \in Stream : Serve(s) \/ Fill(s) \/ ReadLine(s) \/ ReadRest(s) \/ Unregister(s)

Next ==
  \/ \E s \in Stream : Write(s)
  \/ Close \/ Exited \/ Die \/ DeadlinePasses
  \/ Reader \/ Raise

Spec == Init /\ [][Next]_vars

(* The reader goes on, time passes, and the child finishes a line it has   *)
(* begun as soon as the pipe has room for it.  It need not do more.        *)
FairSpec ==
  /\ Spec
  /\ WF_vars(Reader) /\ WF_vars(DeadlinePasses)
  /\ \A s \in Stream : WF_vars(FinishLine(s))

-----------------------------------------------------------------------------
(***************************************************************************)
(* Nothing that the subprocess writes is lost on its way through pipes and *)
(* buffers: when its return code is reported, all of its output has been   *)
(* read, with lines longer than a pipe, a last line without an end, and    *)
(* lines that were buffered when select() saw the end                      *)
(* (media_jobs.py:205-236).                                                *)
(***************************************************************************)
OutputIsComplete ==
  /\ outcome \in Exit => \A s \in Stream : got[s] = written[s]
  /\ reader # "over" => \A s \in Stream : written[s] = got[s] + buffer[s] + pipe[s]

(***************************************************************************)
(* A reported return code is that of a child that has ended; a timeout is  *)
(* reported only past the deadline, to a child that does not go on, or for *)
(* a child that has closed its streams and takes its time to exit          *)
(* (media_jobs.py:206-208, 234).                                           *)
(***************************************************************************)
OutcomeIsTrue ==
  /\ outcome \in Exit => child = outcome
  /\ outcome = "timeout" => child = "exiting" \/ (child \in Exit /\ (late \/ watched = {}))

(***************************************************************************)
(* The reader comes back whatever the child does, although readline() has  *)
(* no deadline and the child may wait for room in the other pipe: it       *)
(* suffices that the child does not stop in the middle of a line           *)
(* (media_jobs.py:205-234).                                                *)
(***************************************************************************)
ReaderReturns == <>(reader = "over")
=============================================================================
