-------------------------- MODULE MCConfigReadiness --------------------------
(***************************************************************************)
(* TLC instances of ConfigReadiness: a root folder holding static layers   *)
(* and a sub-folder with a dynamic layer; or the two layers in one folder. *)
(***************************************************************************)
EXTENDS ConfigReadiness, TLC

CONSTANTS t1, t2, root, sub, stat, dyn, bad

MCKids   == (root :> <<bad, stat, sub>>) @@ (sub :> <<dyn>>)
MCFlat   == (root :> <<stat, dyn>>)
=============================================================================
