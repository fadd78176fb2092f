---------------------------- MODULE MCDataRequests ----------------------------
(***************************************************************************)
(* TLC instance of DataRequests: two dates, up to two datasets of the main *)
(* product on each, counts below, at and between the cache rules and above *)
(* the limit, and all configurations of the layer.                         *)
(***************************************************************************)
EXTENDS DataRequests, TLC

MCHoldings == [main |-> 0 .. 2, low |-> {1}, flag |-> {0, 1}]
MCKinds    == LayerKind
MCRules    == <<[min |-> 2, age |-> 10], [min |-> 3, age |-> 20]>>
===============================================================================
