---------------------------- MODULE MCDhcpProbe ----------------------------
(* TLC instance of DhcpProbe.  No symmetry: a liveness property is checked.*)
EXTENDS DhcpProbe
=============================================================================
