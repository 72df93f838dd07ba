------------------------------ MODULE MCShell ------------------------------
(* Values for TLC.                                                         *)
EXTENDS Shell
=============================================================================
