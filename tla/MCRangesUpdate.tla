--------------------------- MODULE MCRangesUpdate ----------------------------
(***************************************************************************)
(* TLC instances of RangesUpdate: layers a and b have the same products and *)
(* time resolution, z is not in the configuration, and content versions 1   *)
(* and 2 of their datasets have the same number of datasets.                *)
(***************************************************************************)
EXTENDS RangesUpdate, TLC

CONSTANTS u1, u2, a, b, z, s

MCArgs    == <<b, z, a, b>>
MCSigOf   == (a :> s) @@ (b :> s)
MCCountOf == <<1, 1>> @@ (0 :> 0)
Symm      == Permutations(Updaters)
=============================================================================
