---------------------------- MODULE StreamProofs ----------------------------
(* Proofs about ImportStreams, for pipes of any capacity and any number of *)
(* lines.                                                                  *)
EXTENDS ImportStreams, TLAPS

-----------------------------------------------------------------------------
(* The inductive invariant.                                                *)

(* Every piece that was written is in one place.                           *)
Balanced == \A s \in Stream : written[s] = got[s] + buffer[s] + pipe[s]

(* A stream that is not watched any more is at its end.                    *)
Drained ==
  /\ \A s \in Stream \ watched : Closed /\ buffer[s] = 0 /\ pipe[s] = 0
  /\ reader = "wait" => watched = {}

(* What the outcome was made of.                                           *)
OutcomeFits ==
  /\ outcome # "none" => reader = "over"
  /\ outcome \in Exit => child = outcome /\ watched = {}
  /\ outcome = "timeout" => \/ child \in Exit /\ late
                            \/ child \in {"exiting"} \cup Exit /\ watched = {}

StreamsInv == TypeOK /\ Balanced /\ Drained /\ OutcomeFits

LEMMA InitEstablishes == Init => StreamsInv
<1> SUFFICES ASSUME Init PROVE StreamsInv
  OBVIOUS
<1>1. TypeOK
  <2>1. 0 \in 0..Capacity
    BY StreamsAssumption DEF StreamsAssumption
  <2>2. /\ written \in [Stream -> Nat] /\ pipe \in [Stream -> 0..Capacity]
        /\ buffer \in [Stream -> Nat] /\ got \in [Stream -> Nat]
    BY <2>1 DEF Init
  <2> QED BY <2>2 DEF Init, TypeOK, Stream, Exit
<1>2. Balanced /\ Drained /\ OutcomeFits
  BY DEF Init, Balanced, Drained, OutcomeFits, Exit
<1> QED BY <1>1, <1>2 DEF StreamsInv

-----------------------------------------------------------------------------
(* The subprocess.                                                         *)

LEMMA WriteKeeps ==
  ASSUME StreamsInv, NEW s \in Stream, Write(s)
  PROVE  StreamsInv'
<1> USE DEF StreamsInv, Write, control
<1>1. TypeOK'
  <2>1. written' \in [Stream -> Nat]
    BY DEF TypeOK
  <2>2. pipe' \in [Stream -> 0..Capacity]
    BY StreamsAssumption DEF TypeOK
  <2> QED BY <2>1, <2>2 DEF TypeOK
<1>2. Balanced'
  <2> SUFFICES ASSUME NEW t \in Stream
               PROVE  written'[t] = got'[t] + buffer'[t] + pipe'[t]
    BY DEF Balanced
  <2>1. /\ written[t] \in Nat /\ got[t] \in Nat /\ buffer[t] \in Nat /\ pipe[t] \in Nat
        /\ written[t] = got[t] + buffer[t] + pipe[t]
    BY StreamsAssumption DEF TypeOK, Balanced
  <2> QED BY <2>1 DEF TypeOK
<1>3. Drained'
  BY DEF TypeOK, Drained, Closed
<1>4. OutcomeFits'
  BY DEF OutcomeFits
<1> QED BY <1>1, <1>2, <1>3, <1>4

(* Steps that leave the pieces and the reader alone.                       *)
LEMMA ChildKeeps ==
  ASSUME StreamsInv, Close \/ Exited \/ Die \/ DeadlinePasses
  PROVE  StreamsInv'
<1> USE DEF StreamsInv, data
<1>1. TypeOK'
  BY DEF TypeOK, Close, Exited, Die, DeadlinePasses, Exit
<1>2. Balanced'
  BY DEF Balanced, Close, Exited, Die, DeadlinePasses
<1>3. Drained'
  BY DEF Drained, Closed, Close, Exited, Die, DeadlinePasses, Exit
<1>4. OutcomeFits'
  BY DEF OutcomeFits, Close, Exited, Die, DeadlinePasses, Exit, TypeOK
<1> QED BY <1>1, <1>2, <1>3, <1>4

-----------------------------------------------------------------------------
(* The reader.                                                             *)

(* Steps that move no piece and keep the streams that are watched.         *)
LEMMA ReaderMovesKeep ==
  ASSUME StreamsInv,
         \/ Select \/ Expire \/ Served \/ AllRead \/ Waited \/ WaitTimesOut \/ Raise
         \/ \E s \in Stream : Serve(s)
  PROVE  StreamsInv'
<1> USE DEF StreamsInv, data, Over
<1>1. TypeOK'
  BY DEF TypeOK, Select, Expire, Served, AllRead, Waited, WaitTimesOut, Raise, Serve,
         Exit, Stream
<1>2. Balanced'
  BY DEF Balanced, Select, Expire, Served, AllRead, Waited, WaitTimesOut, Raise, Serve
<1>3. Drained'
  BY DEF Drained, Closed, Select, Expire, Served, AllRead, Waited, WaitTimesOut, Raise,
         Serve, Exit, Stream, TypeOK
<1>4. OutcomeFits'
  BY DEF OutcomeFits, Drained, Select, Expire, Served, AllRead, Waited, WaitTimesOut,
         Raise, Serve, Exit, Stream, TypeOK
<1> QED BY <1>1, <1>2, <1>3, <1>4

(* readline() moves pieces on, and takes none out of a stream that is at   *)
(* its end.                                                                *)
LEMMA FillKeeps ==
  ASSUME StreamsInv, NEW s \in Stream, Fill(s)
  PROVE  StreamsInv'
<1> USE DEF StreamsInv, control
<1>1. PICK n \in 1..pipe[s] : /\ pipe' = [pipe EXCEPT ![s] = @ - n]
                              /\ buffer' = [buffer EXCEPT ![s] = @ + n]
  BY DEF Fill
<1>2. pipe[s] \in 0..Capacity /\ n \in Nat /\ n <= pipe[s] /\ pipe[s] > 0
  BY StreamsAssumption DEF TypeOK
<1>3. TypeOK'
  <2>1. pipe[s] - n \in 0..Capacity
    BY <1>2, StreamsAssumption
  <2>2. pipe' \in [Stream -> 0..Capacity] /\ buffer' \in [Stream -> Nat]
    BY <1>1, <1>2, <2>1 DEF TypeOK
  <2> QED BY <2>2 DEF TypeOK, Fill
<1>4. Balanced'
  <2> SUFFICES ASSUME NEW t \in Stream
               PROVE  written'[t] = got'[t] + buffer'[t] + pipe'[t]
    BY DEF Balanced
  <2>1. /\ written[t] \in Nat /\ got[t] \in Nat /\ buffer[t] \in Nat /\ pipe[t] \in Nat
        /\ written[t] = got[t] + buffer[t] + pipe[t]
    BY StreamsAssumption DEF TypeOK, Balanced
  <2> QED BY <1>1, <1>2, <2>1 DEF TypeOK, Fill
<1>5. Drained'
  <2>1. s \in watched
    BY <1>2 DEF Drained
  <2> QED BY <1>1, <2>1 DEF Drained, Closed, Fill, TypeOK
<1>6. OutcomeFits'
  BY DEF OutcomeFits, Fill
<1> QED BY <1>3, <1>4, <1>5, <1>6

LEMMA ReadKeeps ==
  ASSUME StreamsInv, NEW s \in Stream, ReadLine(s) \/ ReadRest(s)
  PROVE  StreamsInv'
<1> USE DEF StreamsInv
<1>1. PICK n \in {1, 2} : /\ buffer[s] >= n
                          /\ got' = [got EXCEPT ![s] = @ + n]
                          /\ buffer' = [buffer EXCEPT ![s] = @ - n]
  <2>1. CASE ReadLine(s)
    BY <2>1 DEF ReadLine
  <2>2. CASE ReadRest(s)
    <3>1. buffer[s] = 1 /\ buffer[s] - 1 = 0
      BY <2>2 DEF ReadRest
    <3> QED BY <2>2, <3>1 DEF ReadRest
  <2> QED BY <2>1, <2>2
<1>2. UNCHANGED <<written, pipe, child, ready, watched, late, outcome>> /\ reader' = "serving"
  BY DEF ReadLine, ReadRest
<1>3. buffer[s] \in Nat /\ buffer[s] - n \in Nat /\ reader = s
  BY <1>1 DEF TypeOK, ReadLine, ReadRest, EndOfFile
<1>4. TypeOK'
  <2>1. got' \in [Stream -> Nat] /\ buffer' \in [Stream -> Nat]
    BY <1>1, <1>3 DEF TypeOK
  <2> QED BY <1>2, <2>1 DEF TypeOK
<1>5. Balanced'
  <2> SUFFICES ASSUME NEW t \in Stream
               PROVE  written'[t] = got'[t] + buffer'[t] + pipe'[t]
    BY DEF Balanced
  <2>1. /\ written[t] \in Nat /\ got[t] \in Nat /\ buffer[t] \in Nat /\ pipe[t] \in Nat
        /\ written[t] = got[t] + buffer[t] + pipe[t]
    BY StreamsAssumption DEF TypeOK, Balanced
  <2> QED BY <1>1, <1>2, <1>3, <2>1 DEF TypeOK
<1>6. Drained'
  <2>1. s \in watched
    BY <1>1, <1>3 DEF Drained
  <2> QED BY <1>1, <1>2, <2>1 DEF Drained, Closed, TypeOK
<1>7. OutcomeFits'
  <2>1. outcome = "none"
    BY <1>3 DEF OutcomeFits, Stream
  <2> QED BY <1>2, <2>1 DEF OutcomeFits, Exit
<1> QED BY <1>4, <1>5, <1>6, <1>7

LEMMA UnregisterKeeps ==
  ASSUME StreamsInv, NEW s \in Stream, Unregister(s)
  PROVE  StreamsInv'
<1> USE DEF StreamsInv, Unregister, EndOfFile, data
<1>1. TypeOK'
  BY DEF TypeOK
<1>2. Balanced'
  BY DEF Balanced
<1>3. Drained'
  BY DEF Drained, Closed
<1>4. OutcomeFits'
  BY DEF OutcomeFits, Stream, Exit
<1> QED BY <1>1, <1>2, <1>3, <1>4

-----------------------------------------------------------------------------
LEMMA NextKeeps == StreamsInv /\ [Next]_vars => StreamsInv'
<1> SUFFICES ASSUME StreamsInv, [Next]_vars PROVE StreamsInv'
  OBVIOUS
<1>1. CASE \E s \in Stream : Write(s)
  BY <1>1, WriteKeeps
<1>2. CASE Close \/ Exited \/ Die \/ DeadlinePasses
  BY <1>2, ChildKeeps
<1>3. CASE \/ Select \/ Expire \/ Served \/ AllRead \/ Waited \/ WaitTimesOut \/ Raise
           \/ \E s \in Stream : Serve(s)
  BY <1>3, ReaderMovesKeep
<1>4. CASE \E s \in Stream : Fill(s)
  BY <1>4, FillKeeps
<1>5. CASE \E s \in Stream : ReadLine(s) \/ ReadRest(s)
  BY <1>5, ReadKeeps
<1>6. CASE \E s \in Stream : Unregister(s)
  BY <1>6, UnregisterKeeps
<1>7. CASE UNCHANGED vars
  BY <1>7 DEF vars, data, control, StreamsInv, TypeOK, Balanced, Drained, OutcomeFits, Closed
<1> QED BY <1>1, <1>2, <1>3, <1>4, <1>5, <1>6, <1>7 DEF Next, Reader

THEOREM StreamsInvariantHolds == Spec => []StreamsInv
BY InitEstablishes, NextKeeps, PTL DEF Spec

(* Pipes hold no more than they can, and the rest of the types.            *)
THEOREM StreamTypes == Spec => []TypeOK
<1>1. StreamsInv => TypeOK
  BY DEF StreamsInv
<1> QED BY <1>1, StreamsInvariantHolds, PTL

(* All output has been read when a return code is reported                 *)
(* (media_jobs.py:205-236): the streams that are not watched are at their  *)
(* end, and a return code is asked for when none is.                       *)
THEOREM OutputIsReadToItsEnd == Spec => []OutputIsComplete
<1>1. StreamsInv => OutputIsComplete
  <2> SUFFICES ASSUME StreamsInv PROVE OutputIsComplete
    OBVIOUS
  <2>1. ASSUME outcome \in Exit, NEW s \in Stream PROVE got[s] = written[s]
    <3>1. s \in Stream \ watched
      BY <2>1 DEF StreamsInv, OutcomeFits
    <3>2. buffer[s] = 0 /\ pipe[s] = 0 /\ got[s] \in Nat
      BY <3>1 DEF StreamsInv, Drained, TypeOK
    <3> QED BY <3>2 DEF StreamsInv, Balanced
  <2> QED BY <2>1 DEF StreamsInv, Balanced, OutputIsComplete
<1> QED BY <1>1, StreamsInvariantHolds, PTL

(* Return codes and timeouts are reported of children that have come to    *)
(* that end (media_jobs.py:206-208, 234).                                  *)
THEOREM OutcomesAreTrue == Spec => []OutcomeIsTrue
<1>1. StreamsInv => OutcomeIsTrue
  BY DEF StreamsInv, OutcomeFits, OutcomeIsTrue, Exit
<1> QED BY <1>1, StreamsInvariantHolds, PTL
=============================================================================
