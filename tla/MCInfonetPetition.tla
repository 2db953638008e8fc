------------------------- MODULE MCInfonetPetition -------------------------
(***************************************************************************)
(* Instances of InfonetPetition for TLC: two nodes of unequal weight that  *)
(* halves two ticks after a success, and windows of a tick, so that all of *)
(* them open and close within the clock and weights decay meanwhile.       *)
(***************************************************************************)
EXTENDS InfonetPetition, TLC

CONSTANTS n1, n2

MCDecayed ==
  [r \in Reps |-> [a \in 0..MaxTime |-> IF a <= 2 THEN r ELSE (r + 1) \div 2]]

\* A challenge to its end; second thoughts of signers and voters; settled
\* markets meanwhile.
MCBounds ==
  {[filed |-> 0, signs |-> 1, votes |-> 1, rulings |-> 1, earned |-> 0, time |-> 4],
   [filed |-> 0, signs |-> 2, votes |-> 2, rulings |-> 0, earned |-> 0, time |-> 3],
   [filed |-> 1, signs |-> 1, votes |-> 1, rulings |-> 0, earned |-> 1, time |-> 3]}

MCStart == (n1 :> 2) @@ (n2 :> 1)
=============================================================================
