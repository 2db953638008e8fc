----------------------- MODULE InfonetPetitionProofs -----------------------
(***************************************************************************)
(* Proofs about InfonetPetition, for any nodes, balances, decay,           *)
(* thresholds and windows: types, the counting of votes, and the course    *)
(* through the phases.  Events may land in any phase, and the chain's time *)
(* may stand still or jump up to the clock.                                *)
(***************************************************************************)
EXTENDS InfonetPetition, FiniteSetTheorems, WellFoundedInduction, TLAPS

-----------------------------------------------------------------------------
(***************************************************************************)
(* What a step may do.                                                     *)
(***************************************************************************)
NewVote(n, v) == [node |-> n, at |-> clock, vote |-> v]

LEMMA BoundType ==
  ASSUME bound \in Bounds
  PROVE  bound.time \in Nat /\ MaxTime \in Nat /\ bound.time <= MaxTime
BY PetitionAssumption

\* The clocks: neither goes back, and the chain's stays behind the other.
LEMMA StepClocks ==
  ASSUME TypeOK, [Next]_vars
  PROVE  /\ now \in Nat /\ now' \in Nat /\ clock \in Nat /\ clock' \in Nat
         /\ now <= now' /\ now' <= clock /\ clock <= clock'
         /\ clock <= MaxTime /\ clock' <= bound.time /\ bound' = bound
<1>1. /\ clock \in 0..bound.time /\ now \in 0..clock
      /\ bound.time \in Nat /\ MaxTime \in Nat /\ bound.time <= MaxTime
  BY BoundType DEF TypeOK
<1>2. \/ now' \in now..clock /\ clock' = clock
      \/ now' = now /\ clock' = clock + 1 /\ clock < bound.time
      \/ now' = now /\ clock' = clock
  BY DEF Next, vars, File, FileChallenge, Execute, OtherEvent, Tick, Sign, Vote,
         VoteChallenge, Earn, Lands
<1>3. bound' = bound
  BY DEF Next, vars, bounds, File, FileChallenge, Execute, OtherEvent, Tick, Sign, Vote,
         VoteChallenge, Earn
<1> QED BY <1>1, <1>2, <1>3

\* The chain: what is on it stays on it.
LEMMA StepFiles ==
  ASSUME [Next]_vars
  PROVE  /\ filed' = filed \/ (filed = None /\ filed' = clock)
         /\ challenged' = challenged \/ (challenged = None /\ challenged' = clock)
<1>1. CASE File
  BY <1>1 DEF File
<1>2. CASE FileChallenge
  BY <1>2 DEF FileChallenge
<1>3. \/ File \/ FileChallenge
      \/ UNCHANGED <<filed, challenged>>
  BY DEF Next, vars, petition, Execute, OtherEvent, Tick, Sign, Vote, VoteChallenge, Earn
<1> QED BY <1>1, <1>2, <1>3

LEMMA StepExecuted ==
  ASSUME [Next]_vars
  PROVE  executed' = executed \/ executed' = TRUE
BY DEF Next, vars, petition, File, FileChallenge, Execute, OtherEvent, Tick, Sign, Vote,
       VoteChallenge, Earn

LEMMA StepSigns ==
  ASSUME [Next]_vars
  PROVE  \/ signs' = signs
         \/ \E n \in Nodes : signs' = signs \cup {[node |-> n, at |-> clock]}
BY DEF Next, vars, petition, File, FileChallenge, Execute, OtherEvent, Tick, Sign, Vote,
       VoteChallenge, Earn

LEMMA StepVotes ==
  ASSUME [Next]_vars
  PROVE  \/ votes' = votes
         \/ \E n \in Nodes, v \in {"for", "against"} : votes' = votes \cup {NewVote(n, v)}
BY DEF Next, vars, petition, File, FileChallenge, Execute, OtherEvent, Tick, Sign, Vote,
       VoteChallenge, Earn, NewVote

LEMMA StepVerdicts ==
  ASSUME [Next]_vars
  PROVE  \/ verdicts' = verdicts
         \/ \E n \in Nodes, v \in {"uphold", "void"} :
              verdicts' = verdicts \cup {NewVote(n, v)}
BY DEF Next, vars, petition, File, FileChallenge, Execute, OtherEvent, Tick, Sign, Vote,
       VoteChallenge, Earn, NewVote

-----------------------------------------------------------------------------
(***************************************************************************)
(* Types.                                                                  *)
(***************************************************************************)
LEMMA TypeInit == Init => TypeOK
<1> SUFFICES ASSUME Init PROVE TypeOK
  OBVIOUS
<1>1. bound.time \in Nat
  BY BoundType DEF Init
<1>2. /\ bound \in Bounds /\ clock = 0 /\ now = 0 /\ rep = Start /\ earned = 0
      /\ success = [n \in Nodes |-> 0] /\ filed = None /\ challenged = None
      /\ executed = FALSE /\ signs = {} /\ votes = {} /\ verdicts = {}
  BY DEF Init
<1>3. rep \in [Nodes -> Reps] /\ success \in [Nodes -> 0..clock]
  BY <1>2, PetitionAssumption
<1>4. clock \in 0..bound.time /\ now \in 0..clock /\ earned \in Nat
  BY <1>1, <1>2
<1> QED BY <1>2, <1>3, <1>4 DEF TypeOK

LEMMA TypeStep == TypeOK /\ [Next]_vars => TypeOK'
<1> SUFFICES ASSUME TypeOK, [Next]_vars PROVE TypeOK'
  OBVIOUS
<1>1. /\ now \in Nat /\ now' \in Nat /\ clock \in Nat /\ clock' \in Nat
      /\ now' <= clock /\ clock <= clock' /\ clock' <= bound.time /\ bound' = bound
  BY StepClocks
<1>2. bound.time \in Nat /\ bound' \in Bounds /\ bound'.time = bound.time
  <2>1. bound \in Bounds
    BY DEF TypeOK
  <2>2. bound.time \in Nat
    BY <2>1, BoundType
  <2> QED BY <1>1, <2>1, <2>2
<1>3. clock' \in 0..bound'.time /\ now' \in 0..clock'
  BY <1>1, <1>2
<1>4. rep' \in [Nodes -> Reps] /\ success' \in [Nodes -> 0..clock'] /\ earned' \in Nat
  <2>1. ASSUME NEW n \in Nodes, NEW r \in Reps, Earn(n, r)
        PROVE  rep' \in [Nodes -> Reps] /\ success' \in [Nodes -> 0..clock'] /\ earned' \in Nat
    <3>1. rep' = [rep EXCEPT ![n] = r] /\ earned' = earned + 1
      BY <2>1 DEF Earn
    <3>2. PICK at \in {success[n], clock} : success' = [success EXCEPT ![n] = at]
      BY <2>1 DEF Earn
    <3>3. rep \in [Nodes -> Reps] /\ success \in [Nodes -> 0..clock] /\ earned \in Nat
      BY DEF TypeOK
    <3>4. 0..clock \subseteq 0..clock' /\ at \in 0..clock
      BY <1>1, <3>3
    <3> QED BY <3>1, <3>2, <3>3, <3>4
  <2>2. CASE UNCHANGED <<rep, success, earned>>
    <3>1. 0..clock \subseteq 0..clock'
      BY <1>1
    <3> QED BY <2>2, <3>1 DEF TypeOK
  <2> QED BY <2>1, <2>2 DEF Next, vars, bounds, File, FileChallenge, Execute, OtherEvent,
                            Tick, Sign, Vote, VoteChallenge
<1>5. filed' \in 0..clock' \cup {None} /\ challenged' \in 0..clock' \cup {None}
  <2>1. filed \in 0..clock \cup {None} /\ challenged \in 0..clock \cup {None}
    BY DEF TypeOK
  <2> QED BY <1>1, <2>1, StepFiles
<1>6. executed' \in BOOLEAN
  BY StepExecuted DEF TypeOK
<1>7. signs' \subseteq Signing /\ \A e \in signs' : e.at <= clock'
  <2>1. signs \subseteq Signing /\ \A e \in signs : e.at <= clock /\ e.at \in Nat
    BY DEF TypeOK, Signing
  <2>2. ASSUME NEW n \in Nodes, signs' = signs \cup {[node |-> n, at |-> clock]}
        PROVE  signs' \subseteq Signing /\ \A e \in signs' : e.at <= clock'
    BY <1>1, <2>1, <2>2 DEF Signing
  <2> QED BY <1>1, <2>1, <2>2, StepSigns
<1>8. votes' \subseteq Voting /\ \A e \in votes' : e.at <= clock'
  <2>1. votes \subseteq Voting /\ \A e \in votes : e.at <= clock /\ e.at \in Nat
    BY DEF TypeOK, Voting
  <2>2. ASSUME NEW n \in Nodes, NEW v \in {"for", "against"}, votes' = votes \cup {NewVote(n, v)}
        PROVE  votes' \subseteq Voting /\ \A e \in votes' : e.at <= clock'
    BY <1>1, <2>1, <2>2 DEF Voting, NewVote
  <2> QED BY <1>1, <2>1, <2>2, StepVotes
<1>9. verdicts' \subseteq Ruling /\ \A e \in verdicts' : e.at <= clock'
  <2>1. verdicts \subseteq Ruling /\ \A e \in verdicts : e.at <= clock /\ e.at \in Nat
    BY DEF TypeOK, Ruling
  <2>2. ASSUME NEW n \in Nodes, NEW v \in {"uphold", "void"},
               verdicts' = verdicts \cup {NewVote(n, v)}
        PROVE  verdicts' \subseteq Ruling /\ \A e \in verdicts' : e.at <= clock'
    BY <1>1, <2>1, <2>2 DEF Ruling, NewVote
  <2> QED BY <1>1, <2>1, <2>2, StepVerdicts
<1> QED BY <1>2, <1>3, <1>4, <1>5, <1>6, <1>7, <1>8, <1>9 DEF TypeOK

\* Every variable keeps its type, nothing that has landed is stamped later than
\* the clock, and the chain's time does not run ahead of it.
THEOREM TypeCorrect == Spec => []TypeOK
BY TypeInit, TypeStep, PTL DEF Spec

-----------------------------------------------------------------------------
(***************************************************************************)
(* Earliest and latest.                                                    *)
(***************************************************************************)
LEMMA Earliest ==
  ASSUME NEW S \in SUBSET Nat, S # {}
  PROVE  \E m \in S : \A k \in S : m <= k
<1> DEFINE Less == {ss \in Nat \X Nat : ss[1] < ss[2]}
<1>1. IsWellFoundedOn(Less, Nat)
  BY NatLessThanWellFounded, Zenon DEF OpToRel
<1>2. PICK m \in S : \A k \in S : <<k, m>> \notin Less
  <2> HIDE DEF Less
  <2> QED BY <1>1, WFMin
<1>3. ASSUME NEW k \in S PROVE m <= k
  <2>1. k \in Nat /\ m \in Nat /\ <<k, m>> \in Nat \X Nat
    OBVIOUS
  <2>2. ~(<<k, m>>[1] < <<k, m>>[2])
    BY <1>2, <2>1
  <2> QED BY <2>1, <2>2
<1> QED BY <1>3

LEMMA Latest ==
  ASSUME NEW S \in SUBSET Nat, S # {}, NEW b \in Nat, \A k \in S : k <= b
  PROVE  Max(S) \in S /\ \A k \in S : k <= Max(S)
<1> DEFINE U == {u \in Nat : \A k \in S : k <= u}
<1>1. PICK m \in U : \A u \in U : m <= u
  <2>1. U \in SUBSET Nat /\ b \in U
    OBVIOUS
  <2> HIDE DEF U
  <2> QED BY <2>1, Earliest
<1>2. m \in S
  <2>1. CASE m = 0
    <3>1. PICK k \in S : k \in Nat
      OBVIOUS
    <3>2. k <= 0
      BY <1>1, <2>1, <3>1
    <3> QED BY <2>1, <3>1, <3>2
  <2>2. CASE m # 0
    <3>1. m - 1 \in Nat /\ m - 1 \notin U
      BY <1>1, <2>2
    <3>2. PICK k \in S : ~(k <= m - 1)
      BY <3>1
    <3>3. k \in Nat /\ k <= m
      BY <1>1
    <3>4. k = m
      BY <1>1, <3>2, <3>3
    <3> QED BY <3>4
  <2> QED BY <2>1, <2>2
<1>3. \E x \in S : \A k \in S : x >= k
  BY <1>1, <1>2
<1> QED BY <1>3 DEF Max

-----------------------------------------------------------------------------
(***************************************************************************)
(* The counting of votes.                                                  *)
(***************************************************************************)

\* An event that lands after all others leaves every first one first.
LEMMA FirstStays ==
  ASSUME NEW E, NEW new, NEW from, NEW to, \A e \in E : e.at <= new.at
  PROVE  First(E, from, to) \subseteq First(E \cup {new}, from, to)
BY DEF First

\* One that lands after the end counts for nothing.
LEMMA FirstEnds ==
  ASSUME NEW E, NEW new, NEW from \in Nat, NEW to \in Nat, new.at \in Nat, to < new.at,
         \A e \in E : e.at <= new.at /\ e.at \in Nat
  PROVE  First(E \cup {new}, from, to) = First(E, from, to)
<1>1. First(E, from, to) \subseteq First(E \cup {new}, from, to)
  BY FirstStays
<1>2. ASSUME NEW e \in First(E \cup {new}, from, to) PROVE e \in First(E, from, to)
  <2>1. e \in E \cup {new} /\ e.at <= to
    BY DEF First
  <2>2. e # new
    BY <2>1
  <2> QED BY <2>1, <2>2 DEF First
<1> QED BY <1>1, <1>2

\* Whoever has an event between two times has a first one.
LEMMA FirstIs ==
  ASSUME NEW E, NEW from \in Nat, NEW to \in Nat, NEW d \in E,
         \A e \in E : e.at \in Nat, from <= d.at, d.at <= to
  PROVE  d.node \in NodesOf(First(E, from, to))
<1> DEFINE S == {e.at : e \in {f \in E : f.node = d.node /\ from <= f.at}}
<1>1. S \in SUBSET Nat /\ d.at \in S
  OBVIOUS
<1>2. PICK m \in S : \A k \in S : m <= k
  <2> HIDE DEF S
  <2> QED BY <1>1, Earliest
<1>3. PICK e \in E : e.node = d.node /\ from <= e.at /\ e.at = m
  OBVIOUS
<1>4. e.at <= d.at /\ \A f \in E : f.node = e.node /\ from <= f.at => e.at <= f.at
  BY <1>2, <1>3
<1>5. e \in First(E, from, to)
  BY <1>3, <1>4 DEF First
<1> QED BY <1>3, <1>5 DEF NodesOf

\* When voting starts and ends.
LEMMA VotingTimes ==
  ASSUME TypeOK, filed # None
  PROVE  /\ VotingStart \in Nat /\ VotingStart <= clock
         /\ VotingDeadline \in Nat /\ VotingStart <= VotingDeadline
<1>1. clock \in Nat /\ filed \in Nat /\ filed <= clock
  <2>1. bound.time \in Nat
    BY BoundType DEF TypeOK
  <2> QED BY <2>1 DEF TypeOK
<1>2. VotingStart \in Nat /\ VotingStart <= clock
  <2>1. CASE signs = {}
    BY <1>1, <2>1 DEF VotingStart
  <2>2. CASE signs # {}
    <3> DEFINE S == {s.at : s \in signs}
    <3>1. S \in SUBSET Nat /\ S # {} /\ \A k \in S : k <= clock
      BY <2>2 DEF TypeOK, Signing
    <3>2. Max(S) \in S
      <4> HIDE DEF S
      <4> QED BY <1>1, <3>1, Latest
    <3>3. VotingStart = Max(S)
      BY <2>2 DEF VotingStart
    <3> QED BY <3>1, <3>2, <3>3
  <2> QED BY <2>1, <2>2
<1> QED BY <1>2, PetitionAssumption DEF VotingDeadline

\* With the same signatures the same votes are in time.
LEMMA SameTimes ==
  ASSUME filed # None, filed' = filed, signs' = signs
  PROVE  VotingStart' = VotingStart /\ VotingDeadline' = VotingDeadline
BY DEF VotingStart, VotingDeadline

LEMMA VotesAreTyped ==
  ASSUME TypeOK
  PROVE  clock \in Nat /\ \A e \in votes : e.at \in Nat /\ e.at <= clock
BY BoundType DEF TypeOK, Voting

\* No vote that counts is lost or exchanged, and one cast in time counts.
LEMMA VotesStep ==
  ASSUME TypeOK, TypeOK', [Next]_vars, filed # None, signs' = signs
  PROVE  /\ Counted \subseteq Counted'
         /\ clock <= VotingDeadline => NodesOf(votes' \ votes) \subseteq NodesOf(Counted')
<1>1. filed' = filed
  BY StepFiles
<1>2. VotingStart' = VotingStart /\ VotingDeadline' = VotingDeadline
  BY <1>1, SameTimes
<1>3. /\ VotingStart \in Nat /\ VotingDeadline \in Nat /\ VotingStart <= clock
      /\ clock \in Nat /\ \A e \in votes : e.at \in Nat /\ e.at <= clock
  BY VotingTimes, VotesAreTyped
<1>4. Counted' = First(votes', VotingStart, VotingDeadline)
  BY <1>2 DEF Counted
<1>5. CASE votes' = votes
  BY <1>4, <1>5 DEF Counted, NodesOf
<1>6. ASSUME NEW n \in Nodes, NEW v \in {"for", "against"}, votes' = votes \cup {NewVote(n, v)}
      PROVE  /\ Counted \subseteq Counted'
             /\ clock <= VotingDeadline => NodesOf(votes' \ votes) \subseteq NodesOf(Counted')
  <2> DEFINE new == NewVote(n, v)
  <2>1. new.at = clock /\ new.node = n
    BY DEF NewVote
  <2> HIDE DEF new
  <2>2. votes' = votes \cup {new}
    BY <1>6 DEF new
  <2>3. Counted \subseteq Counted'
    BY <1>3, <1>4, <2>1, <2>2, FirstStays DEF Counted
  <2>4. ASSUME clock <= VotingDeadline PROVE n \in NodesOf(Counted')
    <3>1. new \in votes' /\ \A e \in votes' : e.at \in Nat
      BY <1>3, <2>1, <2>2
    <3>2. VotingStart <= new.at /\ new.at <= VotingDeadline
      BY <1>3, <2>1, <2>4
    <3>3. new.node \in NodesOf(First(votes', VotingStart, VotingDeadline))
      BY <1>3, <3>1, <3>2, FirstIs
    <3> QED BY <1>4, <2>1, <3>3
  <2>5. NodesOf(votes' \ votes) \subseteq {n}
    BY <2>1, <2>2 DEF NodesOf
  <2> QED BY <2>3, <2>4, <2>5
<1> QED BY <1>5, <1>6, StepVotes

\* For any windows and any number of events out of season: whoever votes in time
\* is in the tally, and stays in it with the same vote until someone signs.
THEOREM VotesCount == Spec => EveryVoteCounts
<1>1. TypeOK /\ TypeOK' /\ [Next]_vars =>
        [filed # None /\ signs' = signs =>
           /\ Counted \subseteq Counted'
           /\ votes' # votes /\ Status = "voting" /\ clock <= VotingDeadline =>
                NodesOf(votes' \ votes) \subseteq NodesOf(Counted')]_vars
  BY VotesStep
<1> QED BY TypeInit, TypeStep, <1>1, PTL DEF Spec, EveryVoteCounts

-----------------------------------------------------------------------------
(***************************************************************************)
(* Weights.                                                                *)
(***************************************************************************)

\* What nodes weigh is a finite number of units.
LEMMA WeightType ==
  ASSUME NEW S \in SUBSET Nodes, NEW w \in [S -> Nat]
  PROVE  IsFiniteSet(Units(w)) /\ WeightOf(w) \in Nat
<1> DEFINE Behind(n) == {n} \X (1..w[n])
           f == [n \in S |-> Behind(n)]
           T == {Behind(n) : n \in S}
<1>1. IsFiniteSet(S)
  BY FS_Subset, PetitionAssumption
<1>2. IsFiniteSet(T)
  <2>1. f \in Surjection(S, T)
    BY DEF Surjection
  <2> HIDE DEF f, T
  <2> QED BY <1>1, <2>1, FS_Surjection
<1>3. ASSUME NEW n \in S PROVE IsFiniteSet(Behind(n))
  <2>1. IsFiniteSet(1..w[n])
    BY FS_Interval
  <2>2. IsFiniteSet({n})
    BY FS_Singleton
  <2> QED BY <2>1, <2>2, FS_Product
<1>4. \A B \in T : IsFiniteSet(B)
  BY <1>3
<1>5. Units(w) = UNION T
  BY DEF Units
<1>6. IsFiniteSet(Units(w))
  <2> HIDE DEF T
  <2> QED BY <1>2, <1>4, <1>5, FS_UNION
<1> QED BY <1>6, FS_CardinalityType DEF WeightOf

\* Who weighs less has fewer units; whoever weighs anything counts.
LEMMA WeightShrinks ==
  ASSUME NEW S \in SUBSET Nodes, NEW w \in [S -> Nat], NEW u \in [S -> Nat],
         \A n \in S : u[n] <= w[n] /\ (w[n] > 0 => u[n] > 0)
  PROVE  WeightOf(u) <= WeightOf(w) /\ (WeightOf(w) > 0 => WeightOf(u) > 0)
<1>1. /\ IsFiniteSet(Units(w)) /\ IsFiniteSet(Units(u))
      /\ WeightOf(w) \in Nat /\ WeightOf(u) \in Nat
  BY WeightType
<1>2. Units(u) \subseteq Units(w)
  BY DEF Units
<1>3. WeightOf(u) <= WeightOf(w)
  BY <1>1, <1>2, FS_Subset DEF WeightOf
<1>4. ASSUME WeightOf(w) > 0 PROVE WeightOf(u) > 0
  <2>1. Units(w) # {}
    BY <1>4, FS_EmptySet DEF WeightOf
  <2>2. PICK n \in S : w[n] > 0
    BY <2>1 DEF Units
  <2>3. <<n, 1>> \in Units(u)
    BY <2>2 DEF Units
  <2>4. Cardinality(Units(u)) # 0
    BY <1>1, <2>3, FS_EmptySet
  <2> QED BY <1>1, <2>4 DEF WeightOf
<1> QED BY <1>3, <1>4

\* A node's weight decays as time goes by, and never all of it.
LEMMA ActiveDecays ==
  ASSUME TypeOK, NEW n \in Nodes, NEW t \in Nat, NEW u \in Nat, t <= u, u <= clock
  PROVE  /\ Active(n, t) \in Nat /\ Active(n, u) \in Nat
         /\ Active(n, u) <= Active(n, t) /\ (Active(n, t) > 0 => Active(n, u) > 0)
<1> DEFINE Age(at) == IF at <= success[n] THEN 0 ELSE at - success[n]
<1>1. rep[n] \in Reps /\ success[n] \in Nat /\ clock \in Nat /\ clock <= MaxTime /\ MaxTime \in Nat
  BY BoundType DEF TypeOK
<1>2. Age(t) \in 0..MaxTime /\ Age(u) \in Age(t)..MaxTime
  BY <1>1
<1>3. Active(n, t) = Decayed[rep[n]][Age(t)] /\ Active(n, u) = Decayed[rep[n]][Age(u)]
  BY DEF Active
<1> HIDE DEF Age
<1>4. Age(u) \in 0..MaxTime
  BY <1>1, <1>2
<1>5. /\ Decayed[rep[n]][Age(t)] > 0 <=> rep[n] > 0
      /\ Decayed[rep[n]][Age(u)] > 0 <=> rep[n] > 0
      /\ Decayed[rep[n]][Age(u)] <= Decayed[rep[n]][Age(t)]
  BY <1>1, <1>2, <1>4, PetitionAssumption
<1>6. Decayed[rep[n]][Age(t)] \in Nat /\ Decayed[rep[n]][Age(u)] \in Nat
  BY <1>1, <1>2, <1>4, PetitionAssumption
<1> QED BY <1>3, <1>5, <1>6

\* A step in which nobody signs, gains or loses reputation.
Quiet == UNCHANGED <<signs, rep, success>>

\* Thresholds and quorums fall, and do not vanish.
LEMMA NetworkDecays ==
  ASSUME TypeOK, [Next]_vars, Quiet
  PROVE  /\ NetworkWeight \in Nat /\ NetworkWeight' \in Nat
         /\ NetworkWeight' <= NetworkWeight /\ (NetworkWeight > 0 => NetworkWeight' > 0)
<1>1. now \in Nat /\ now' \in Nat /\ now <= now' /\ now' <= clock
  BY StepClocks
<1>2. PICK w : w = [n \in Nodes |-> Active(n, now)]
  OBVIOUS
<1>3. PICK u : u = [n \in Nodes |-> Active(n, now')]
  OBVIOUS
<1>4. /\ w \in [Nodes -> Nat] /\ u \in [Nodes -> Nat]
      /\ \A n \in Nodes : u[n] <= w[n] /\ (w[n] > 0 => u[n] > 0)
  BY <1>1, <1>2, <1>3, ActiveDecays
<1>5. /\ WeightOf(w) \in Nat /\ WeightOf(u) \in Nat
      /\ WeightOf(u) <= WeightOf(w) /\ (WeightOf(w) > 0 => WeightOf(u) > 0)
  BY <1>4, WeightType, WeightShrinks
<1>6. NetworkWeight = WeightOf(w)
  BY <1>2 DEF NetworkWeight
<1>7. NetworkWeight' = WeightOf(u)
  BY <1>3 DEF NetworkWeight, Active, Quiet, WeightOf, Units
<1> QED BY <1>5, <1>6, <1>7

\* A smaller whole is no harder to reach.
LEMMA AtLeastOfLess ==
  ASSUME NEW part \in Nat, NEW pct \in Nat, NEW w \in Nat, NEW u \in Nat, u <= w,
         AtLeast(part, pct, w)
  PROVE  AtLeast(part, pct, u)
<1>1. PICK d \in Nat : w = u + d
  <2>1. w - u \in Nat /\ w = u + (w - u)
    OBVIOUS
  <2> QED BY <2>1
<1>2. pct * w = pct * u + pct * d /\ pct * d \in Nat /\ pct * u \in Nat
  BY <1>1
<1> QED BY <1>2 DEF AtLeast

-----------------------------------------------------------------------------
(***************************************************************************)
(* Phases.                                                                 *)
(***************************************************************************)
LEMMA SignerType ==
  ASSUME TypeOK
  PROVE  /\ NodesOf(Signatures) \in SUBSET Nodes
         /\ \A n \in NodesOf(Signatures) : SignerWeight(n) \in Nat
<1>1. Signatures \subseteq signs
  BY DEF Signatures, First
<1>2. \A e \in signs : e.node \in Nodes /\ e.at \in Nat /\ e.at <= clock
  BY DEF TypeOK, Signing
<1>3. ASSUME NEW n \in NodesOf(Signatures) PROVE n \in Nodes /\ SignerWeight(n) \in Nat
  <2>1. PICK e \in Signatures : e.node = n
    BY DEF NodesOf
  <2>2. Of(n, Signatures) \in Signatures
    BY <2>1 DEF Of
  <2>3. n \in Nodes /\ Of(n, Signatures).at \in Nat /\ Of(n, Signatures).at <= clock
    BY <1>1, <1>2, <2>1, <2>2
  <2>4. Active(n, Of(n, Signatures).at) \in Nat
    BY <2>3, ActiveDecays
  <2> QED BY <2>3, <2>4 DEF SignerWeight
<1> QED BY <1>3

\* The weight of the signatures and of the votes.
LEMMA TallyType ==
  ASSUME TypeOK
  PROVE  /\ WeightOf([n \in NodesOf(Signatures) |-> SignerWeight(n)]) \in Nat
         /\ WeightFor \in Nat /\ WeightAgainst \in Nat
<1>1. WeightOf([n \in NodesOf(Signatures) |-> SignerWeight(n)]) \in Nat
  <2>1. PICK w : w = [n \in NodesOf(Signatures) |-> SignerWeight(n)]
    OBVIOUS
  <2>2. NodesOf(Signatures) \in SUBSET Nodes /\ w \in [NodesOf(Signatures) -> Nat]
    BY <2>1, SignerType
  <2>3. WeightOf(w) \in Nat
    BY <2>2, WeightType
  <2> QED BY <2>1, <2>3
<1>2. \A e \in votes : e.node \in Nodes /\ e.at \in Nat /\ e.at <= clock
  BY DEF TypeOK, Voting
<1>3. ASSUME NEW n \in NodesOf(Counted) PROVE n \in Nodes /\ VoterWeight(n) \in Nat
  <2>1. PICK e \in Counted : e.node = n
    BY DEF NodesOf
  <2>2. Of(n, Counted) \in Counted
    BY <2>1 DEF Of
  <2>3. Counted \subseteq votes
    BY DEF Counted, First
  <2>4. n \in Nodes /\ Of(n, Counted).at \in Nat /\ Of(n, Counted).at <= clock
    BY <1>2, <2>1, <2>2, <2>3
  <2>5. Active(n, Of(n, Counted).at) \in Nat
    BY <2>4, ActiveDecays
  <2>6. n \in NodesOf(Signatures) => SignerWeight(n) \in Nat
    BY SignerType
  <2> QED BY <2>4, <2>5, <2>6 DEF VoterWeight
<1>4. ASSUME NEW C \in SUBSET Counted
      PROVE  WeightOf([n \in NodesOf(C) |-> VoterWeight(n)]) \in Nat
  <2> DEFINE w == [n \in NodesOf(C) |-> VoterWeight(n)]
  <2>1. NodesOf(C) \subseteq NodesOf(Counted)
    BY DEF NodesOf
  <2>2. NodesOf(C) \in SUBSET Nodes /\ w \in [NodesOf(C) -> Nat]
    BY <1>3, <2>1
  <2>3. WeightOf(w) \in Nat
    <3> HIDE DEF w
    <3> QED BY <2>2, WeightType
  <2> QED BY <2>3
<1>5. WeightFor \in Nat
  <2>1. {v \in Counted : v.vote = "for"} \in SUBSET Counted
    OBVIOUS
  <2> QED BY <1>4, <2>1, Zenon DEF WeightFor
<1>6. WeightAgainst \in Nat
  <2>1. {v \in Counted : v.vote = "against"} \in SUBSET Counted
    OBVIOUS
  <2> QED BY <1>4, <2>1, Zenon DEF WeightAgainst
<1> QED BY <1>1, <1>5, <1>6

\* Signatures weigh what they weighed.
LEMMA SameSignatures ==
  ASSUME Quiet, filed' = filed
  PROVE  /\ Signatures' = Signatures
         /\ \A n : SignerWeight(n)' = SignerWeight(n)
         /\ [n \in NodesOf(Signatures) |-> SignerWeight(n)]'
              = [n \in NodesOf(Signatures) |-> SignerWeight(n)]
<1>1. Signatures' = Signatures
  BY DEF Signatures, First, Quiet
<1>2. \A n : SignerWeight(n)' = SignerWeight(n)
  BY <1>1 DEF SignerWeight, Active, Of, Quiet
<1> QED BY <1>1, <1>2 DEF NodesOf

\* Signatures that were enough stay enough, as the threshold falls.
LEMMA SignedStays ==
  ASSUME TypeOK, [Next]_vars, Quiet, filed' = filed, SignedEnough
  PROVE  SignedEnough'
<1>1. PICK s : s = WeightOf([n \in NodesOf(Signatures) |-> SignerWeight(n)])
  OBVIOUS
<1>2. WeightOf([n \in NodesOf(Signatures) |-> SignerWeight(n)])' = s
  BY <1>1, SameSignatures DEF WeightOf, Units
<1>3. s \in Nat
  BY <1>1, TallyType
<1>4. AtLeast(s, SignPct, NetworkWeight) /\ NetworkWeight > 0
  BY <1>1 DEF SignedEnough
<1>5. AtLeast(s, SignPct, NetworkWeight') /\ NetworkWeight' > 0
  <2>1. SignPct \in Nat
    BY PetitionAssumption
  <2> QED BY <1>3, <1>4, <2>1, NetworkDecays, AtLeastOfLess
<1> QED BY <1>2, <1>5 DEF SignedEnough, AtLeast

\* Once the chain's time is past the deadline the tally is closed: what lands
\* is stamped later still.
LEMMA TallyCloses ==
  ASSUME TypeOK, [Next]_vars, Quiet, filed # None, VotingDeadline < now
  PROVE  Counted' = Counted /\ WeightFor' = WeightFor /\ WeightAgainst' = WeightAgainst
<1>1. filed' = filed
  BY StepFiles
<1>2. VotingStart' = VotingStart /\ VotingDeadline' = VotingDeadline
  BY <1>1, SameTimes DEF Quiet
<1>3. /\ VotingStart \in Nat /\ VotingDeadline \in Nat /\ VotingDeadline < clock
      /\ clock \in Nat /\ \A e \in votes : e.at \in Nat /\ e.at <= clock
  BY VotingTimes, VotesAreTyped, StepClocks
<1>4. Counted' = First(votes', VotingStart, VotingDeadline)
  BY <1>2 DEF Counted
<1>5. ASSUME NEW n \in Nodes, NEW v \in {"for", "against"}, votes' = votes \cup {NewVote(n, v)}
      PROVE  Counted' = Counted
  <2> DEFINE new == NewVote(n, v)
  <2>1. new.at = clock
    BY DEF NewVote
  <2> HIDE DEF new
  <2>2. votes' = votes \cup {new}
    BY <1>5 DEF new
  <2>3. First(votes \cup {new}, VotingStart, VotingDeadline)
          = First(votes, VotingStart, VotingDeadline)
    BY <1>3, <2>1, FirstEnds
  <2> QED BY <1>4, <2>2, <2>3 DEF Counted
<1>6. Counted' = Counted
  <2>1. CASE votes' = votes
    BY <1>4, <2>1 DEF Counted
  <2> QED BY <1>5, <2>1, StepVotes
<1>7. /\ Signatures' = Signatures /\ \A n : SignerWeight(n)' = SignerWeight(n)
      /\ rep' = rep /\ success' = success
  BY <1>1, SameSignatures DEF Quiet
<1>8. \A n : VoterWeight(n)' = VoterWeight(n)
  BY <1>6, <1>7 DEF VoterWeight, Active, Of, NodesOf
<1>9. WeightFor' = WeightFor
  BY <1>6, <1>8 DEF WeightFor, WeightOf, Units, NodesOf
<1>10. WeightAgainst' = WeightAgainst
  BY <1>6, <1>8 DEF WeightAgainst, WeightOf, Units, NodesOf
<1> QED BY <1>6, <1>9, <1>10

\* A vote that was carried stays so, as the quorum falls.
LEMMA CarriedStays ==
  ASSUME TypeOK, [Next]_vars, Quiet, filed # None, VotingDeadline < now, Carried
  PROVE  Carried'
<1>1. WeightFor \in Nat /\ WeightAgainst \in Nat
  BY TallyType
<1>2. WeightFor' = WeightFor /\ WeightAgainst' = WeightAgainst
  BY TallyCloses
<1>3. PICK cast \in Nat : cast = WeightFor + WeightAgainst
  BY <1>1
<1>4. /\ AtLeast(cast, QuorumPct, NetworkWeight) /\ cast # 0
      /\ AtLeast(WeightFor, MajorityPct, cast)
  BY <1>3 DEF Carried
<1>5. AtLeast(cast, QuorumPct, NetworkWeight')
  <2>1. QuorumPct \in Nat
    BY PetitionAssumption
  <2> QED BY <1>3, <1>4, <2>1, NetworkDecays, AtLeastOfLess
<1> QED BY <1>2, <1>3, <1>4, <1>5 DEF Carried, AtLeast

\* What was voided stays voided.
LEMMA VoidedStays ==
  ASSUME TypeOK, [Next]_vars, Quiet, ChallengeOutcome = "voided"
  PROVE  ChallengeOutcome' = "voided"
<1>1. /\ challenged # None /\ ~(now <= ChallengeDeadline)
      /\ Rulings("uphold") > Rulings("void")
  BY DEF ChallengeOutcome
<1>2. challenged' = challenged /\ challenged \in Nat
  BY <1>1, StepFiles, BoundType DEF TypeOK
<1>3. /\ ChallengeDeadline' = ChallengeDeadline /\ ChallengeDeadline \in Nat
      /\ now \in Nat /\ now' \in Nat /\ clock \in Nat
      /\ ChallengeDeadline < clock /\ ChallengeDeadline < now'
  BY <1>1, <1>2, StepClocks, PetitionAssumption DEF ChallengeDeadline
<1>4. \A e \in verdicts : e.at \in Nat /\ e.at <= clock
  BY DEF TypeOK, Ruling
<1>5. First(verdicts', challenged, ChallengeDeadline)
        = First(verdicts, challenged, ChallengeDeadline)
  <2>1. ASSUME NEW n \in Nodes, NEW v \in {"uphold", "void"},
               verdicts' = verdicts \cup {NewVote(n, v)}
        PROVE  First(verdicts', challenged, ChallengeDeadline)
                 = First(verdicts, challenged, ChallengeDeadline)
    <3> DEFINE new == NewVote(n, v)
    <3>1. new.at = clock
      BY DEF NewVote
    <3> HIDE DEF new
    <3>2. verdicts' = verdicts \cup {new}
      BY <2>1 DEF new
    <3>3. First(verdicts \cup {new}, challenged, ChallengeDeadline)
            = First(verdicts, challenged, ChallengeDeadline)
      BY <1>2, <1>3, <1>4, <3>1, FirstEnds
    <3> QED BY <3>2, <3>3
  <2> QED BY <2>1, StepVerdicts
<1>6. First(verdicts, challenged, ChallengeDeadline)'
        = First(verdicts, challenged, ChallengeDeadline)
  <2>1. First(verdicts, challenged, ChallengeDeadline)'
          = First(verdicts', challenged', ChallengeDeadline')
    BY DEF First
  <2> QED BY <1>2, <1>3, <1>5, <2>1
<1>7. \A vote : Rulings(vote)' = Rulings(vote)
  BY <1>6 DEF Rulings, Quiet, Active, Of, NodesOf, WeightOf, Units
<1> QED BY <1>1, <1>2, <1>3, <1>7 DEF ChallengeOutcome

LEMMA RankIs ==
  /\ Rank["not_found"] = 0 /\ Rank["signatures"] = 1 /\ Rank["failed_signatures"] = 2
  /\ Rank["voting"] = 3 /\ Rank["failed_vote"] = 4 /\ Rank["challenge"] = 5
  /\ Rank["passed"] = 6 /\ Rank["executed"] = 7 /\ Rank["voided_challenge"] = 8
BY DEF Rank

LEMMA StatusIs ==
  filed # None =>
    Status = IF ~SignedEnough
             THEN IF now > filed + SignWindow THEN "failed_signatures" ELSE "signatures"
             ELSE IF now <= VotingDeadline THEN "voting"
             ELSE IF ~Carried THEN "failed_vote"
             ELSE IF ChallengeOutcome = "voided" THEN "voided_challenge"
             ELSE IF now <= VotingDeadline + ChallengeWindow THEN "challenge"
             ELSE IF executed THEN "executed" ELSE "passed"
BY Zenon DEF Status

LEMMA StatusNext ==
  filed' # None =>
    Status' = IF ~SignedEnough'
              THEN IF now' > filed' + SignWindow THEN "failed_signatures" ELSE "signatures"
              ELSE IF now' <= VotingDeadline' THEN "voting"
              ELSE IF ~Carried' THEN "failed_vote"
              ELSE IF ChallengeOutcome' = "voided" THEN "voided_challenge"
              ELSE IF now' <= VotingDeadline' + ChallengeWindow THEN "challenge"
              ELSE IF executed' THEN "executed" ELSE "passed"
BY Zenon DEF Status

LEMMA PhasesStep ==
  TypeOK /\ TypeOK' /\ [Next]_vars /\ Quiet => Rank[Status] <= Rank[Status']
<1> SUFFICES ASSUME TypeOK, TypeOK', [Next]_vars, Quiet
             PROVE  Rank[Status] <= Rank[Status']
  OBVIOUS
<1>1. now \in Nat /\ now' \in Nat /\ now <= now'
  BY StepClocks
<1>2. CASE filed = None
  <2>1. Status = "not_found"
    BY <1>2 DEF Status
  <2>2. \/ Status' = "not_found"
        \/ Status' \in {"signatures", "failed_signatures", "voting", "failed_vote",
                        "challenge", "passed", "executed", "voided_challenge"}
    <3>1. filed' = None => Status' = "not_found"
      BY DEF Status
    <3> QED BY <3>1, StatusNext
  <2> QED BY <2>1, <2>2, RankIs
<1>3. CASE filed # None
  <2>1. filed' = filed /\ filed' # None /\ filed \in Nat
    BY <1>3, StepFiles, BoundType DEF TypeOK
  <2>2. /\ VotingDeadline' = VotingDeadline /\ VotingDeadline \in Nat
        /\ ChallengeWindow \in Nat /\ SignWindow \in Nat
    BY <1>3, <2>1, SameTimes, VotingTimes, PetitionAssumption DEF Quiet
  <2>3. CASE ~SignedEnough
    <3>1. Status = IF now > filed + SignWindow THEN "failed_signatures" ELSE "signatures"
      BY <1>3, <2>3, StatusIs
    <3>2. CASE ~SignedEnough'
      <4>1. Status' = IF now' > filed + SignWindow THEN "failed_signatures" ELSE "signatures"
        BY <2>1, <3>2, StatusNext
      <4>2. now > filed + SignWindow => now' > filed + SignWindow
        BY <1>1, <2>1, <2>2
      <4> QED BY <3>1, <4>1, <4>2, RankIs
    <3>3. CASE SignedEnough'
      <4>1. Status' \in {"voting", "failed_vote", "challenge", "passed", "executed",
                         "voided_challenge"}
        BY <2>1, <3>3, StatusNext
      <4> QED BY <3>1, <4>1, RankIs
    <3> QED BY <3>2, <3>3
  <2>4. CASE SignedEnough /\ now <= VotingDeadline
    <3>1. SignedEnough'
      BY <2>1, <2>4, SignedStays
    <3>2. Status' \in {"voting", "failed_vote", "challenge", "passed", "executed",
                       "voided_challenge"}
      BY <2>1, <3>1, StatusNext
    <3>3. Status = "voting"
      BY <1>3, <2>4, StatusIs
    <3> QED BY <3>2, <3>3, RankIs
  <2>5. CASE SignedEnough /\ VotingDeadline < now
    <3>1. SignedEnough' /\ ~(now' <= VotingDeadline') /\ ~(now <= VotingDeadline)
      BY <1>1, <2>1, <2>2, <2>5, SignedStays
    <3>2. CASE ~Carried
      <4>1. Status = "failed_vote"
        BY <1>3, <2>5, <3>1, <3>2, StatusIs
      <4>2. Status' \in {"failed_vote", "challenge", "passed", "executed", "voided_challenge"}
        BY <2>1, <3>1, StatusNext
      <4> QED BY <4>1, <4>2, RankIs
    <3>3. CASE Carried
      <4>1. Carried'
        BY <1>3, <2>5, <3>3, CarriedStays
      <4>2. Status = IF ChallengeOutcome = "voided" THEN "voided_challenge"
                     ELSE IF now <= VotingDeadline + ChallengeWindow THEN "challenge"
                     ELSE IF executed THEN "executed" ELSE "passed"
        BY <1>3, <2>5, <3>1, <3>3, StatusIs
      <4>3. Status' = IF ChallengeOutcome' = "voided" THEN "voided_challenge"
                      ELSE IF now' <= VotingDeadline + ChallengeWindow THEN "challenge"
                      ELSE IF executed' THEN "executed" ELSE "passed"
        BY <2>1, <2>2, <3>1, <4>1, StatusNext
      <4>4. ChallengeOutcome = "voided" => ChallengeOutcome' = "voided"
        BY VoidedStays
      <4>5. now' <= VotingDeadline + ChallengeWindow => now <= VotingDeadline + ChallengeWindow
        BY <1>1, <2>2
      <4>6. executed => executed'
        BY StepExecuted
      <4> QED BY <4>2, <4>3, <4>4, <4>5, <4>6, RankIs
    <3> QED BY <3>2, <3>3
  <2> QED BY <1>1, <2>2, <2>3, <2>4, <2>5
<1> QED BY <1>2, <1>3

\* Unless someone signs or a node's reputation changes, a petition is taken on
\* in the order of its statuses: by events in any phase, by the decay of
\* weights, and by a time that jumps.
THEOREM PhasesCorrect == Spec => PhasesAdvance
<1>1. TypeOK /\ TypeOK' /\ [Next]_vars =>
        [UNCHANGED <<signs, rep, success>> => Rank[Status] <= Rank[Status']]_vars
  BY PhasesStep DEF Quiet
<1> QED BY TypeInit, TypeStep, <1>1, PTL DEF Spec, PhasesAdvance
=============================================================================
