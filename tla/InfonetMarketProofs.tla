------------------------ MODULE InfonetMarketProofs ------------------------
(***************************************************************************)
(* Proofs about InfonetMarket, for any identities, producers, windows,     *)
(* thresholds and amounts: the phases of a market, who may judge it, and   *)
(* where its stakes and bonds go.                                          *)
(***************************************************************************)
EXTENDS InfonetMarket, FiniteSetTheorems, SequenceTheorems, TLAPS

\* What was posted can be counted.
Countable == IsFiniteSet(predictions) /\ IsFiniteSet(stakes)

\* A finalization is built from a chain with a snapshot on it.
FinalsAreLate ==
  \A p \in Producers : built[p] # None /\ built[p] \in Finals => snapshots # <<>>

MarketInv == TypeOK /\ Countable /\ FinalsAreLate

-----------------------------------------------------------------------------
(***************************************************************************)
(* Types.                                                                  *)
(***************************************************************************)
LEMMA SumType ==
  ASSUME NEW S, IsFiniteSet(S)
  PROVE  Sum(S) \in Nat
BY FS_CardinalityType, MarketAssumption DEF Sum

LEMMA OutcomeType == Outcome \in Side \cup {"invalid"}
BY DEF Outcome, Winner, Side

\* What is appended stands at the end, and the first element stays the first.
LEMMA AppendedHead ==
  ASSUME NEW T, NEW s \in Seq(T), NEW e \in T
  PROVE  /\ Append(s, e) \in Seq(T) /\ Append(s, e) # <<>>
         /\ s # <<>> => Head(Append(s, e)) = Head(s)
         /\ s = <<>> => Head(Append(s, e)) = e
         /\ ToSet(Append(s, e)) \subseteq ToSet(s) \cup {e}
<1>1. /\ Append(s, e) \in Seq(T) /\ Append(s, e) # <<>>
      /\ DOMAIN Append(s, e) = 1..(Len(s) + 1) /\ Len(s) \in Nat
      /\ \A i \in 1..Len(s) : Append(s, e)[i] = s[i]
      /\ Append(s, e)[Len(s) + 1] = e
      /\ DOMAIN s = 1..Len(s)
  OBVIOUS
<1>2. s # <<>> => Head(Append(s, e)) = Head(s)
  OBVIOUS
<1>3. s = <<>> => Head(Append(s, e)) = e
  OBVIOUS
<1>4. ToSet(Append(s, e)) \subseteq ToSet(s) \cup {e}
  BY <1>1 DEF ToSet
<1> QED BY <1>1, <1>2, <1>3, <1>4

LEMMA MarketInit == Init => MarketInv
BY FS_EmptySet, MarketAssumption
   DEF Init, MarketInv, TypeOK, Countable, FinalsAreLate, ToSet

LEMMA MarketStep == MarketInv /\ [Next]_vars => MarketInv'
<1> SUFFICES ASSUME MarketInv, [Next]_vars PROVE MarketInv'
  OBVIOUS
<1> USE DEF MarketInv, TypeOK, Countable, FinalsAreLate
<1>1. CASE Tick
  BY <1>1 DEF Tick
<1>2. ASSUME NEW side \in Side, SubmitEvidence(side) PROVE MarketInv'
  <2>1. evidence' \in Seq(Side)
    BY <1>2, AppendedHead DEF SubmitEvidence
  <2> QED BY <1>2, <2>1 DEF SubmitEvidence, Lands
<1>3. ASSUME NEW n \in Nodes, NEW side \in Side, Predict(n, side) PROVE MarketInv'
  <2>1. predictions' = predictions \cup {[node |-> n, side |-> side]}
    BY <1>3 DEF Predict
  <2>2. IsFiniteSet(predictions')
    BY <2>1, FS_AddElement
  <2>3. predictions' \subseteq Predictions
    BY <2>1 DEF Predictions
  <2> QED BY <1>3, <2>2, <2>3 DEF Predict, Lands
<1>4. ASSUME NEW n \in Nodes, NEW side \in Side \cup {"data_unavailable"},
             NEW rep \in {"oracle", "common"}, StakeOn(n, side, rep)
      PROVE  MarketInv'
  <2>1. stakes' = stakes \cup {[node |-> n, side |-> side, rep |-> rep]}
    BY <1>4 DEF StakeOn
  <2>2. IsFiniteSet(stakes')
    BY <2>1, FS_AddElement
  <2>3. stakes' \subseteq Stakes
    BY <2>1 DEF Stakes
  <2> QED BY <1>4, <2>2, <2>3 DEF StakeOn, Lands
<1>5. ASSUME NEW old \in Nodes, NEW new \in Nodes, Rotate(old, new) PROVE MarketInv'
  BY <1>5 DEF Rotate, Lands
<1>6. ASSUME NEW p \in Producers, BuildSnapshot(p) PROVE MarketInv'
  <2> DEFINE b == [predictors |-> {q.node : q \in predictions}, total |-> Sum(predictions)]
  <2>1. b \in Frozen
    BY SumType DEF Frozen, Predictions
  <2>2. b \notin Finals
    BY DEF Finals
  <2>3. built' = [built EXCEPT ![p] = b]
    BY <1>6 DEF BuildSnapshot
  <2>4. UNCHANGED <<clock, now, predictions, snapshots, evidence, stakes, rotations, finals>>
    BY <1>6 DEF BuildSnapshot
  <2> HIDE DEF b
  <2>5. FinalsAreLate'
    BY <2>2, <2>3, <2>4
  <2> QED BY <2>1, <2>3, <2>4, <2>5
<1>7. ASSUME NEW p \in Producers, BuildFinal(p) PROVE MarketInv'
  <2>1. [outcome |-> Outcome] \in Finals
    BY OutcomeType DEF Finals
  <2> QED BY <1>7, <2>1 DEF BuildFinal
<1>8. ASSUME NEW p \in Producers, Post(p) PROVE MarketInv'
  <2>1. /\ built' \in [Producers -> {None} \cup Frozen \cup Finals]
        /\ \A q \in Producers : built'[q] # None => built'[q] = built[q]
    BY <1>8 DEF Post
  <2>2. CASE built[p] \in Finals
    <3>1. finals' = Append(finals, built[p]) /\ UNCHANGED snapshots
      BY <1>8, <2>2 DEF Post, Finals
    <3>2. snapshots # <<>>
      BY <1>8, <2>2 DEF Post
    <3> QED BY <1>8, <2>1, <2>2, <3>1, <3>2, AppendedHead DEF Post, Lands
  <2>3. CASE built[p] \in Frozen
    <3> DEFINE s == [at |-> clock, predictors |-> built[p].predictors,
                     total |-> built[p].total]
    <3>1. snapshots' = Append(snapshots, s) /\ UNCHANGED finals
      BY <1>8, <2>3 DEF Post, Frozen
    <3>2. s \in Snapshots
      BY <2>3 DEF Frozen, Snapshots
    <3> HIDE DEF s
    <3>3. snapshots' \in Seq(Snapshots) /\ snapshots' # <<>>
      BY <3>1, <3>2, AppendedHead
    <3> QED BY <1>8, <2>1, <3>1, <3>2, <3>3 DEF Post, Lands
  <2> QED BY <1>8, <2>2, <2>3 DEF Post
<1>9. CASE OtherEvent \/ UNCHANGED vars
  BY <1>9 DEF OtherEvent, Lands, vars
<1> QED BY <1>1, <1>2, <1>3, <1>4, <1>5, <1>6, <1>7, <1>8, <1>9 DEF Next

LEMMA Invariant == Spec => []MarketInv
BY MarketInit, MarketStep, PTL DEF Spec

\* Every variable keeps its type, a market is never finalized without a
\* snapshot, and the chain's time is never ahead of the clock.
THEOREM TypeCorrect == Spec => []TypeOK
<1>1. MarketInv => TypeOK
  BY DEF MarketInv
<1> QED BY Invariant, <1>1, PTL

-----------------------------------------------------------------------------
(***************************************************************************)
(* Phases.                                                                 *)
(***************************************************************************)

\* A step leaves the first snapshot and the first finalization where they are.
LEMMA FirstsStay ==
  ASSUME MarketInv, [Next]_vars
  PROVE  /\ snapshots # <<>> => snapshots' # <<>> /\ Head(snapshots') = Head(snapshots)
         /\ finals # <<>> => finals' # <<>> /\ Head(finals') = Head(finals)
<1>1. ASSUME NEW p \in Producers, Post(p)
      PROVE  /\ snapshots' = snapshots \/ \E s \in Snapshots : snapshots' = Append(snapshots, s)
             /\ finals' = finals \/ \E f \in Finals : finals' = Append(finals, f)
  <2>1. built[p] \in Frozen \cup Finals /\ clock \in Nat
    BY <1>1 DEF Post, MarketInv, TypeOK
  <2>2. CASE built[p] \in Finals
    BY <1>1, <2>2 DEF Post, Finals
  <2>3. CASE built[p] \in Frozen
    <3> DEFINE s == [at |-> clock, predictors |-> built[p].predictors,
                     total |-> built[p].total]
    <3>1. snapshots' = Append(snapshots, s) /\ UNCHANGED finals
      BY <1>1, <2>3 DEF Post, Frozen
    <3>2. s \in Snapshots
      BY <2>1, <2>3 DEF Frozen, Snapshots
    <3> QED BY <3>1, <3>2
  <2> QED BY <2>1, <2>2, <2>3
<1>2. \/ UNCHANGED <<snapshots, finals>>
      \/ \E p \in Producers : Post(p)
  BY DEF Next, vars, OtherEvent, Tick, SubmitEvidence, Predict, StakeOn, Rotate,
         BuildSnapshot, BuildFinal
<1>3. snapshots \in Seq(Snapshots) /\ finals \in Seq(Finals)
  BY DEF MarketInv, TypeOK
<1>4. ASSUME NEW s \in Snapshots, snapshots # <<>>, snapshots' = Append(snapshots, s)
      PROVE  snapshots' # <<>> /\ Head(snapshots') = Head(snapshots)
  BY <1>3, <1>4, AppendedHead
<1>5. ASSUME NEW f \in Finals, finals # <<>>, finals' = Append(finals, f)
      PROVE  finals' # <<>> /\ Head(finals') = Head(finals)
  BY <1>3, <1>5, AppendedHead
<1> QED BY <1>1, <1>2, <1>4, <1>5

LEMMA PhasesStep ==
  MarketInv /\ [Next]_vars =>
    /\ Phase(Status') >= Phase(Status)
    /\ Phase(Status) = 3 => Status' = Status
<1> SUFFICES ASSUME MarketInv, [Next]_vars
             PROVE  /\ Phase(Status') >= Phase(Status)
                    /\ Phase(Status) = 3 => Status' = Status
  OBVIOUS
<1>1. /\ Status \in {"predicting", "evidence", "resolving", "invalid", "final"}
      /\ Status' \in {"predicting", "evidence", "resolving", "invalid", "final"}
  BY DEF Status
<1>2. CASE finals # <<>>
  <2>1. Status' = Status
    BY <1>2, FirstsStay DEF Status
  <2> QED BY <1>1, <2>1 DEF Phase
<1>3. CASE finals = <<>> /\ finals' # <<>>
  <2>1. Phase(Status') = 3 /\ Phase(Status) \in 0..2
    BY <1>3 DEF Status, Phase
  <2> QED BY <2>1
<1>4. CASE finals = <<>> /\ finals' = <<>>
  <2>1. CASE snapshots = <<>>
    <3>1. Phase(Status) = 0 /\ Phase(Status') \in 0..2
      BY <1>4, <2>1 DEF Status, Phase
    <3> QED BY <3>1
  <2>2. CASE snapshots # <<>>
    <3>1. now \in Nat /\ now' \in Nat /\ now <= now'
      <4>1. now \in Nat
        BY DEF MarketInv, TypeOK
      <4>2. now' = now \/ now' \in now..clock
        BY DEF Next, vars, Lands, OtherEvent, Tick, SubmitEvidence, Predict, StakeOn,
               Rotate, BuildSnapshot, BuildFinal, Post
      <4>3. clock \in Nat
        BY DEF MarketInv, TypeOK
      <4> QED BY <4>1, <4>2, <4>3
    <3>2. Head(snapshots).at \in Nat
      <4>1. snapshots \in Seq(Snapshots)
        BY DEF MarketInv, TypeOK
      <4>2. Head(snapshots) \in Snapshots
        BY <2>2, <4>1
      <4> QED BY <4>2 DEF Snapshots
    <3>3. snapshots' # <<>> /\ Head(snapshots') = Head(snapshots)
      BY <2>2, FirstsStay
    <3> DEFINE opens == Head(snapshots).at + EvidenceWindow
    <3>4. Status = IF now < opens THEN "evidence" ELSE "resolving"
      BY <1>4, <2>2 DEF Status
    <3>5. Status' = IF now' < opens THEN "evidence" ELSE "resolving"
      BY <1>4, <3>3 DEF Status
    <3>6. opens \in Nat
      BY <3>2, MarketAssumption
    <3>7. now' < opens => now < opens
      BY <3>1, <3>6
    <3>8. Status = "resolving" => Status' = "resolving"
      BY <3>4, <3>5, <3>7
    <3> QED BY <3>4, <3>5, <3>8 DEF Phase
  <2> QED BY <2>1, <2>2
<1> QED BY <1>2, <1>3, <1>4

\* However many producers advance the market, from whatever readings of the
\* chain, it never goes back to an earlier phase, and its first outcome stays.
THEOREM StatusCorrect == Spec => StatusAdvances
<1>1. MarketInv /\ [Next]_vars =>
        [ /\ Phase(Status') >= Phase(Status)
          /\ Phase(Status) = 3 => Status' = Status ]_vars
  BY PhasesStep
<1> QED BY Invariant, <1>1, PTL DEF Spec, StatusAdvances
-----------------------------------------------------------------------------
(***************************************************************************)
(* Who may judge.                                                          *)
(***************************************************************************)

\* Rotations lead out of neither a set nor where they lead from it: what an
\* identity in either rotates to is in the second.
LEMMA DescendantsClosed ==
  ASSUME NEW S, NEW r \in rotations, rotations \subseteq [old : Nodes, new : Nodes],
         r.old \in S \cup Descendants(S)
  PROVE  r.new \in Descendants(S)
<1>1. r.new \in Nodes
  OBVIOUS
<1>2. ASSUME NEW C \in SUBSET Nodes, Successors(S) \subseteq C, Closed(C)
      PROVE  r.new \in C
  <2>1. CASE r.old \in S
    BY <1>2, <2>1 DEF Successors
  <2>2. CASE r.old \in Descendants(S)
    BY <1>2, <2>2 DEF Descendants, Closed
  <2> QED BY <2>1, <2>2
<1> QED BY <1>1, <1>2 DEF Descendants

LEMMA ExclusionStep == MarketInv /\ [Next]_vars => Excluded \subseteq Excluded'
<1> SUFFICES ASSUME MarketInv, [Next]_vars PROVE Excluded \subseteq Excluded'
  OBVIOUS
<1>1. rotations \subseteq rotations'
  BY DEF Next, vars, OtherEvent, Tick, SubmitEvidence, Predict, StakeOn, Rotate,
         BuildSnapshot, BuildFinal, Post
<1>2. CASE snapshots = <<>>
  BY <1>2 DEF Excluded
<1>3. CASE snapshots # <<>>
  <2> DEFINE frozen == Head(snapshots).predictors
             Leads(R) == {n \in Nodes : \A C \in SUBSET Nodes :
               {r.new : r \in {q \in R : q.old \in frozen}} \subseteq C
               /\ (\A r \in R : r.old \in C => r.new \in C) => n \in C}
  <2>1. snapshots' # <<>> /\ Head(snapshots') = Head(snapshots)
    BY <1>3, FirstsStay
  <2>2. Excluded = frozen \cup Leads(rotations)
    BY <1>3, Zenon DEF Excluded, Descendants, Successors, Closed
  <2>3. Excluded' = frozen \cup Leads(rotations')
    <3>1. Excluded' = Head(snapshots').predictors \cup Descendants(Head(snapshots).predictors)'
      BY <2>1, Zenon DEF Excluded, Descendants, Successors, Closed
    <3> QED BY <2>1, <3>1, Zenon DEF Descendants, Successors, Closed
  <2>4. Leads(rotations) \subseteq Leads(rotations')
    BY <1>1
  <2> HIDE DEF frozen, Leads
  <2> QED BY <2>2, <2>3, <2>4
<1> QED BY <1>2, <1>3

\* No later snapshot, rotation or step of any kind lets an excluded identity
\* judge.
THEOREM ExclusionCorrect == Spec => ExclusionOnlyGrows
<1>1. MarketInv /\ [Next]_vars => [Excluded \subseteq Excluded']_vars
  BY ExclusionStep
<1> QED BY Invariant, <1>1, PTL DEF Spec, ExclusionOnlyGrows

\* Whatever predictors have rotated to, the identities behind the stakes that
\* count are neither frozen in the first snapshot nor reached from it.
THEOREM JudgesArePartial == Spec => []PredictorsDoNotJudge
<1>1. MarketInv => PredictorsDoNotJudge
  <2> SUFFICES ASSUME MarketInv, snapshots # <<>>, NEW s \in Counted
               PROVE  /\ s.node \notin Head(snapshots).predictors
                      /\ \A r \in rotations : r.new = s.node => r.old \notin Excluded
    BY DEF PredictorsDoNotJudge
  <2> DEFINE frozen == Head(snapshots).predictors
  <2>1. Excluded = frozen \cup Descendants(frozen)
    BY DEF Excluded
  <2>2. s.node \notin Excluded
    BY DEF Counted
  <2>3. \A r \in rotations : r.old \in Excluded => r.new \in Excluded
    BY <2>1, DescendantsClosed DEF MarketInv, TypeOK
  <2> QED BY <2>1, <2>2, <2>3
<1> QED BY Invariant, <1>1, PTL

-----------------------------------------------------------------------------
(***************************************************************************)
(* Stakes and bonds.                                                       *)
(***************************************************************************)

\* A set of stakes and the rest of it.
LEMMA SumSplit ==
  ASSUME NEW S, NEW T, IsFiniteSet(S), T \subseteq S
  PROVE  Sum(S) = Sum(T) + Sum(S \ T)
<1>1. /\ IsFiniteSet(T) /\ IsFiniteSet(S \ T) /\ S = T \cup (S \ T)
      /\ T \cap (S \ T) = {}
  BY FS_Subset
<1>2. Cardinality(S) = Cardinality(T) + Cardinality(S \ T) - Cardinality({})
  BY <1>1, FS_Union
<1>3. /\ Cardinality(T) \in Nat /\ Cardinality(S \ T) \in Nat
      /\ Cardinality({}) = 0
  BY <1>1, FS_CardinalityType, FS_EmptySet
<1>4. Cardinality(S) = Cardinality(T) + Cardinality(S \ T)
  BY <1>2, <1>3
<1>5. \A k, a, b \in Nat : k * (a + b) = k * a + k * b
  OBVIOUS
<1> QED BY <1>3, <1>4, <1>5, MarketAssumption DEF Sum

\* A percentage of an amount can be paid out of it.
LEMMA PartBounded ==
  ASSUME NEW pct \in 0..100, NEW a \in Nat
  PROVE  Part(pct, a) \in 0..a
BY Z3 DEF Part

\* The bonds for the two sides are all the bonds.
LEMMA BondsSplit ==
  ASSUME evidence \in Seq(Side)
  PROVE  /\ BondsFor("yes") \in Nat /\ BondsFor("no") \in Nat
         /\ BondsFor("yes") + BondsFor("no") = Bond * Len(evidence)
<1> DEFINE Y == {i \in DOMAIN evidence : evidence[i] = "yes"}
           N == {i \in DOMAIN evidence : evidence[i] = "no"}
<1>1. /\ DOMAIN evidence = 1..Len(evidence) /\ Len(evidence) \in Nat
      /\ \A i \in DOMAIN evidence : evidence[i] \in {"yes", "no"}
  BY DEF Side
<1>2. IsFiniteSet(DOMAIN evidence) /\ Cardinality(DOMAIN evidence) = Len(evidence)
  <2>1. \A n \in Nat : IsFiniteSet(1..n) /\ Cardinality(1..n) = n
    <3> TAKE n \in Nat
    <3>1. Cardinality(1..n) = IF 1 > n THEN 0 ELSE n - 1 + 1
      BY FS_Interval
    <3>2. IsFiniteSet(1..n)
      BY FS_Interval
    <3> QED BY <3>1, <3>2
  <2> QED BY <1>1, <2>1
<1>3. IsFiniteSet(Y) /\ IsFiniteSet(N) /\ Y \cup N = DOMAIN evidence /\ Y \cap N = {}
  BY <1>1, <1>2, FS_Subset
<1>4. Cardinality(DOMAIN evidence) = Cardinality(Y) + Cardinality(N) - Cardinality({})
  <2> HIDE DEF Y, N
  <2>1. Cardinality(Y \cup N) = Cardinality(Y) + Cardinality(N) - Cardinality(Y \cap N)
    BY <1>3, FS_Union
  <2> QED BY <1>3, <2>1
<1>5. Cardinality(Y) \in Nat /\ Cardinality(N) \in Nat /\ Cardinality({}) = 0
  BY <1>3, FS_CardinalityType, FS_EmptySet
<1>6. Len(evidence) = Cardinality(Y) + Cardinality(N)
  BY <1>2, <1>4, <1>5
<1>7. \A k, a, b \in Nat : k * (a + b) = k * a + k * b /\ k * a \in Nat
  OBVIOUS
<1>8. BondsFor("yes") = Bond * Cardinality(Y) /\ BondsFor("no") = Bond * Cardinality(N)
  BY DEF BondsFor
<1>9. Bond \in Nat
  BY MarketAssumption
<1>10. Bond * Len(evidence) = Bond * Cardinality(Y) + Bond * Cardinality(N)
  BY <1>5, <1>6, <1>7, <1>9
<1>11. Bond * Cardinality(Y) \in Nat /\ Bond * Cardinality(N) \in Nat
  BY <1>5, <1>7, <1>9
<1> QED BY <1>8, <1>10, <1>11

\* What happens to the stakes.
LEMMA StakesAccounted ==
  ASSUME MarketInv
  PROVE  /\ StakesBack \in Int /\ Winnings \in Int /\ StakesBurned \in Int
         /\ Unclaimed \in Int
         /\ StakesBack + Winnings + StakesBurned + Unclaimed = Sum(Counted)
<1>1. \A S \in SUBSET Counted : IsFiniteSet(S) /\ Sum(S) \in Nat
  BY FS_Subset, SumType DEF MarketInv, Countable, Counted
<1>2. /\ Losing("oracle") \subseteq Counted /\ Losing("common") \subseteq Counted
      /\ NotUnavailable \subseteq Counted
  BY DEF Losing, NotUnavailable
<1>3. \A rep \in {"oracle", "common"} : LostTo(rep) \in Nat
  BY <1>1, <1>2 DEF LostTo
<1>4. StakesBurned \in Nat
  <2>1. ASSUME NEW pct \in 0..100, NEW a \in Nat PROVE Part(pct, a) \in Nat
    <3>1. Part(pct, a) \in 0..a
      BY PartBounded
    <3> QED BY <3>1
  <2>2. StalematePct \in 0..100 /\ LoserPct \in 0..100
    BY MarketAssumption
  <2>3. Sum(Counted) \in Nat /\ Sum(NotUnavailable) \in Nat
    BY <1>1, <1>2
  <2>4. LostTo("oracle") \in Nat /\ LostTo("common") \in Nat
    BY <1>3
  <2>5. /\ Part(StalematePct, Sum(Counted)) \in Nat
        /\ Part(StalematePct, Sum(NotUnavailable)) \in Nat
    BY <2>1, <2>2, <2>3
  <2>6. Part(LoserPct, LostTo("oracle")) \in Nat /\ Part(LoserPct, LostTo("common")) \in Nat
    BY <2>1, <2>2, <2>4
  <2> QED BY <2>5, <2>6 DEF StakesBurned
<1>5. CASE Reason = "supermajority"
  <2> DEFINE Left(rep) == IF Winning(rep) = {} THEN Losing(rep) ELSE {}
             Lost == Losing("oracle") \cup Losing("common")
  <2>1. \A rep \in {"oracle", "common"} :
           Sum(Losing(rep)) = LostTo(rep) + Sum(Left(rep))
    <3> TAKE rep \in {"oracle", "common"}
    <3>1. Sum({}) = 0
      BY FS_EmptySet, MarketAssumption DEF Sum
    <3>2. Sum(Losing(rep)) \in Nat
      BY <1>1, <1>2
    <3>3. CASE Winning(rep) = {}
      BY <3>2, <3>3 DEF LostTo, Settles
    <3>4. CASE Winning(rep) # {}
      BY <1>5, <3>1, <3>2, <3>4 DEF LostTo, Settles
    <3> QED BY <3>3, <3>4
  <2>2. Sum(Counted) = Sum(Lost) + Sum(Counted \ Lost)
    BY <1>1, <1>2, SumSplit
  <2>3. Sum(Lost) = Sum(Losing("oracle")) + Sum(Losing("common"))
    <3>1. Lost \ Losing("oracle") = Losing("common")
      BY DEF Losing
    <3> QED BY <1>1, <1>2, <3>1, SumSplit
  <2> DEFINE U == Left("oracle") \cup Left("common")
  <2>4. Sum(U) = Sum(Left("oracle")) + Sum(Left("common"))
    <3>1. U \ Left("oracle") = Left("common")
      BY DEF Losing
    <3>2. U \subseteq Counted
      BY <1>2
    <3>3. IsFiniteSet(U) /\ Left("oracle") \subseteq U
      BY <1>1, <3>2
    <3> HIDE DEF Left, U
    <3> QED BY <3>1, <3>3, SumSplit
  <2>5. Unclaimed = Sum(U)
    <3>1. \A s \in Counted : s.rep \in {"oracle", "common"}
      BY DEF Counted, MarketInv, TypeOK, Stakes
    <3>2. \A s \in Counted : s \in Losing(s.rep) /\ Winning(s.rep) = {} <=> s \in U
      BY <3>1 DEF Losing
    <3>3. U = {s \in Counted : s \in Losing(s.rep) /\ Winning(s.rep) = {}}
      BY <1>2, <3>2
    <3> QED BY <1>5, <3>3 DEF Unclaimed
  <2>6. /\ StakesBack = Sum(Counted \ Lost)
        /\ Winnings = LostTo("oracle") + LostTo("common") - StakesBurned
    BY <1>5 DEF StakesBack, Winnings
  <2>7. /\ Sum(Counted \ Lost) \in Nat
        /\ Sum(Left("oracle")) \in Nat /\ Sum(Left("common")) \in Nat
    BY <1>1, <1>2
  <2> HIDE DEF Left, Lost, U
  <2> QED BY <1>3, <1>4, <2>1, <2>2, <2>3, <2>4, <2>5, <2>6, <2>7
<1>6. CASE Reason # "supermajority"
  <2>1. LostTo("oracle") = 0 /\ LostTo("common") = 0
    BY <1>6 DEF LostTo, Settles
  <2>2. Winnings = 0 /\ Unclaimed = 0 /\ StakesBack = Sum(Counted) - StakesBurned
    BY <1>6, <2>1 DEF Winnings, Unclaimed, StakesBack
  <2>3. Sum(Counted) \in Nat
    BY <1>1
  <2> QED BY <1>4, <2>2, <2>3
<1> QED BY <1>5, <1>6

\* What happens to the bonds.
LEMMA BondsAccounted ==
  ASSUME MarketInv
  PROVE  /\ BondsBack \in Int /\ Bonus \in Int /\ BondsBurned \in Int
         /\ BondsBack + Bonus + BondsBurned = Bond * Len(evidence)
<1>1. /\ BondsFor("yes") \in Nat /\ BondsFor("no") \in Nat
      /\ BondsFor("yes") + BondsFor("no") = Bond * Len(evidence)
  BY BondsSplit DEF MarketInv, TypeOK
<1>2. Bond * Len(evidence) \in Nat
  BY <1>1
<1>3. CASE Reason = "supermajority"
  <2>1. Winner \in {"yes", "no"}
    BY <1>3 DEF Reason, Winner
  <2>2. LosingBonds \in Nat /\ BondsFor(Winner) \in Nat
        /\ LosingBonds + BondsFor(Winner) = Bond * Len(evidence)
    BY <1>1, <2>1 DEF LosingBonds
  <2>3. Bonus \in Nat
    <3>1. \A a, b \in Nat : Min({a, b}) \in Nat
      BY DEF Min
    <3> QED BY <1>3, <2>2, <3>1, MarketAssumption DEF Bonus
  <2>4. BondsBack = BondsFor(Winner) /\ BondsBurned = LosingBonds - Bonus
    BY <1>3 DEF BondsBack, BondsBurned
  <2> QED BY <2>2, <2>3, <2>4
<1>4. CASE Reason # "supermajority"
  <2>1. Bonus = 0
    BY <1>4 DEF Bonus
  <2>2. CASE Reason = "data_unavailable"
    BY <1>2, <2>1, <2>2 DEF BondsBack, BondsBurned
  <2>3. CASE Reason # "data_unavailable"
    BY <1>2, <1>4, <2>1, <2>3 DEF BondsBack, BondsBurned
  <2> QED BY <2>2, <2>3
<1> QED BY <1>3, <1>4

\* Whatever was staked and submitted and however the market resolves, nothing
\* is paid that was not put in and nothing put in disappears, but for the
\* losing stakes of a rep type without winners.
THEOREM AccountsBalance == Spec => []EveryStakeIsAccounted
<1>1. MarketInv => EveryStakeIsAccounted
  <2> SUFFICES ASSUME MarketInv PROVE EveryStakeIsAccounted
    OBVIOUS
  <2>1. Sum(Counted) \in Nat /\ Bond * Len(evidence) \in Int
    <3>1. IsFiniteSet(Counted)
      BY FS_Subset DEF MarketInv, Countable, Counted
    <3>2. Sum(Counted) \in Nat
      BY <3>1, SumType
    <3>3. Bond * Len(evidence) \in Int
      <4>1. Bond \in Nat /\ Len(evidence) \in Nat
        BY MarketAssumption DEF MarketInv, TypeOK
      <4>2. \A a, b \in Nat : a * b \in Int
        OBVIOUS
      <4> QED BY <4>1, <4>2
    <3> QED BY <3>2, <3>3
  <2>2. /\ StakesBack \in Int /\ Winnings \in Int /\ StakesBurned \in Int
        /\ Unclaimed \in Int
        /\ StakesBack + Winnings + StakesBurned + Unclaimed = Sum(Counted)
    BY StakesAccounted
  <2>3. /\ BondsBack \in Int /\ Bonus \in Int /\ BondsBurned \in Int
        /\ BondsBack + Bonus + BondsBurned = Bond * Len(evidence)
    BY BondsAccounted
  <2>4. \A a, b, c, d, e, f, g, x, y \in Int :
          a + b + c + g = x /\ d + e + f = y => a + b + c + d + e + f + g = x + y
    OBVIOUS
  <2> QED BY <2>1, <2>2, <2>3, <2>4 DEF EveryStakeIsAccounted
<1> QED BY Invariant, <1>1, PTL
=============================================================================
