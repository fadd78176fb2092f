---------------------------- MODULE MCDriverCache ----------------------------
(***************************************************************************)
(* TLC instance of DriverCache: three threads, one OWS driver and one ODC  *)
(* driver that OWS has no driver for.                                      *)
(***************************************************************************)
EXTENDS DriverCache

CONSTANTS t1, t2, t3
=============================================================================
