--------------------------- MODULE MCAnsibleRuns ---------------------------
(***************************************************************************)
(* Model values of AnsibleRuns for TLC: runs and profiles are              *)
(* interchangeable (the safety runs use that).                             *)
(***************************************************************************)
EXTENDS AnsibleRuns, TLC

Symmetry == Permutations(Runs) \cup Permutations(Profiles)
=============================================================================
