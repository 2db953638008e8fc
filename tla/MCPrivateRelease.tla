-------------------------- MODULE MCPrivateRelease --------------------------
(***************************************************************************)
(* Instances of PrivateRelease for TLC: the messages and who receives them.*)
(***************************************************************************)
EXTENDS PrivateRelease, TLC

CONSTANTS d1, g1, bob, carol

OneContact == d1 :> bob
NoContact == <<>>
=============================================================================
