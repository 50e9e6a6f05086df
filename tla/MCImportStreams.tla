-------------------------- MODULE MCImportStreams --------------------------
(* TLC instance of ImportStreams.                                          *)
EXTENDS ImportStreams
=============================================================================
