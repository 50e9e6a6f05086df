-------------------------- MODULE MCServedFiles ---------------------------
(* TLC instance of ServedFiles: imports and releases are interchangeable.  *)
EXTENDS ServedFiles, TLC

Symmetry ==
  Permutations(Imports) \cup Permutations(Releases) \cup Permutations(Windows)
=============================================================================
