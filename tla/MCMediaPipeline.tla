-------------------------- MODULE MCMediaPipeline --------------------------
(* TLC instance of MediaPipeline: imports are interchangeable.             *)
EXTENDS MediaPipeline, TLC

Symmetry == Permutations(Imports)
=============================================================================
