---------------------------- MODULE MCViewSchema -----------------------------
(***************************************************************************)
(* TLC instances of ViewSchema: one read-only role, one or two datasets.   *)
(***************************************************************************)
EXTENDS ViewSchema

CONSTANTS r1
=============================================================================
