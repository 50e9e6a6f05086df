-------------------------- MODULE MCHostLifecycle --------------------------
(***************************************************************************)
(* Small instances of HostLifecycle for TLC.  Hosts that are model values  *)
(* are interchangeable, profiles are not (the configurations give one of   *)
(* them a playbook and leave the other without boot media); symmetry is    *)
(* used by the runs of invariants and action properties only.              *)
(***************************************************************************)
EXTENDS HostProperties, TLC

Symmetry == Permutations(Hosts)
=============================================================================
