-------------------------- MODULE MCInfonetMarket --------------------------
(***************************************************************************)
(* Instances of InfonetMarket for TLC: three identities and two producers, *)
(* all interchangeable, and windows of one tick.                           *)
(***************************************************************************)
EXTENDS InfonetMarket, TLC

Identities == Permutations(Nodes) \cup Permutations(Producers)
=============================================================================
