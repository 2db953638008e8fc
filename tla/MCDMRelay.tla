----------------------------- MODULE MCDMRelay -----------------------------
(***************************************************************************)
(* Instances of DMRelay for TLC: two senders, a request from each and a    *)
(* shared message, epochs of two ticks.                                    *)
(***************************************************************************)
EXTENDS DMRelay, TLC

CONSTANTS alice, mallory, hello, spam, note

MCSenderOf ==
  (hello :> alice) @@ (spam :> mallory) @@ (note :> mallory)
=============================================================================
