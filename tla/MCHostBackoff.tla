--------------------------- MODULE MCHostBackoff ----------------------------
(* Model-checking HostBackoff.                                             *)
EXTENDS HostBackoff
=============================================================================
