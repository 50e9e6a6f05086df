--------------------------- MODULE MCMediaImports ---------------------------
(***************************************************************************)
(* Model values of MediaImports for TLC: imports and images are            *)
(* interchangeable (the safety runs use that).                             *)
(***************************************************************************)
EXTENDS MediaImports, TLC

Symmetry == Permutations(Imports) \cup Permutations(Images)
=============================================================================
