--------------------------- MODULE SealedDelivery ---------------------------
(***************************************************************************)
(* What the private release pipeline promises for each message, whatever   *)
(* the carrier: a sealed message that was accepted stays pending until a   *)
(* carrier has taken it; it may be handed over again while it is pending;  *)
(* once it is reported delivered it is neither pending again nor sent      *)
(* again.                                                                  *)
(***************************************************************************)
EXTENDS Naturals

CONSTANT Messages

VARIABLES
  status,   \* "absent", "pending" or "delivered"
  copies    \* how often the message was handed to a carrier

Init ==
  /\ status = [m \in Messages |-> "absent"]
  /\ copies = [m \in Messages |-> 0]

Accept(m) ==
  /\ status[m] = "absent"
  /\ status' = [status EXCEPT ![m] = "pending"]
  /\ UNCHANGED copies

HandOver(m) ==
  /\ status[m] = "pending"
  /\ copies' = [copies EXCEPT ![m] = @ + 1]
  /\ UNCHANGED status

Report(m) ==
  /\ status[m] = "pending" /\ copies[m] > 0
  /\ status' = [status EXCEPT ![m] = "delivered"]
  /\ UNCHANGED copies

Next == \E m \in Messages : Accept(m) \/ HandOver(m) \/ Report(m)

Spec == Init /\ [][Next]_<<status, copies>>
=============================================================================
