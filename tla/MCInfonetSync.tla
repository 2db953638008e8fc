--------------------------- MODULE MCInfonetSync ---------------------------
(***************************************************************************)
(* Instances of InfonetSync for TLC: networks and the messages of their    *)
(* nodes.                                                                  *)
(***************************************************************************)
EXTENDS InfonetSync, TLC

CONSTANTS ana, sol, e1, e2, e3, nobody

\* Numbers 1, 2, ... for the messages of one author in a fixed order.
Ranked(order) == [m \in Range(order) |-> CHOOSE i \in DOMAIN order : order[i] = m]

\* ana asks sol and is pushed to by it; sol signs.
PairNodes == {ana, sol}
PairPeers == ana :> {sol} @@ sol :> {}
NoPushes == [n \in PairNodes |-> {}]
SolPushes == ana :> {} @@ sol :> {ana}
ShortMessages == {e1, e2}
ShortAuthor == [m \in ShortMessages |-> sol]
ShortSequence == Ranked(<<e1, e2>>)
PairMessages == {e1, e2, e3}
PairAuthor == [m \in PairMessages |-> sol]
PairSequence == Ranked(<<e1, e2, e3>>)

\* Both sign; each pushes to the other.
BothPush == ana :> {sol} @@ sol :> {ana}
BothAuthor == e1 :> ana @@ e2 :> sol @@ e3 :> sol
BothSequence == e1 :> 1 @@ e2 :> 1 @@ e3 :> 2

\* Each asks the other.
BothAsk == ana :> {sol} @@ sol :> {ana}
=============================================================================
