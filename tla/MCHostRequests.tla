--------------------------- MODULE MCHostRequests ---------------------------
(***************************************************************************)
(* Model values of HostRequests for TLC: the workers are interchangeable.  *)
(***************************************************************************)
EXTENDS HostRequests, TLC

WorkerSymmetry == Permutations(Workers)
=============================================================================
