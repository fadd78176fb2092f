---------------------------- MODULE MCLayerRanges ----------------------------
(***************************************************************************)
(* TLC instances of LayerRanges.                                           *)
(***************************************************************************)
EXTENDS LayerRanges, TLC

CONSTANTS t1, t2, dyn, stat

Symm == Permutations(Threads)
=============================================================================
