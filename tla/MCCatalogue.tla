---------------------------- MODULE MCCatalogue ----------------------------
(***************************************************************************)
(* Model values of Catalogue for TLC: images, hosts and workers are        *)
(* interchangeable, profiles are numbers in the order of their ids.        *)
(***************************************************************************)
EXTENDS Catalogue, TLC

Symmetry == Permutations(Images) \cup Permutations(Hosts) \cup Permutations(Workers)
=============================================================================
