---------------------------- MODULE MCDriverLink ----------------------------
(* DriverLink on small instances.                                          *)
EXTENDS DriverLink
=============================================================================
