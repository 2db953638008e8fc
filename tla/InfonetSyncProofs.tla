------------------------- MODULE InfonetSyncProofs -------------------------
(***************************************************************************)
(* Proofs about InfonetSync, for every network of nodes, every set of      *)
(* messages, every page, batch and locator size, and any number of faults. *)
(***************************************************************************)
EXTENDS InfonetSync, SequenceTheorems, WellFoundedInduction, TLAPS

-----------------------------------------------------------------------------
(***************************************************************************)
(* Extremes of sets of naturals.                                           *)
(***************************************************************************)

\* A set of naturals that has a member has a least one.
LEMMA LeastMember ==
  ASSUME NEW S \in SUBSET Nat, S # {}
  PROVE  Least(S) \in S /\ \A y \in S : Least(S) <= y
<1>1. PICK n \in S : \A m \in S : ~ (<<m, n>> \in OpToRel(<, Nat))
  BY WFMin, NatLessThanWellFounded
<1>2. \A m \in S : ~(m < n)
  BY <1>1 DEF OpToRel
<1>3. \A m \in S : n <= m
  BY <1>2
<1> QED BY <1>3 DEF Least

\* A bounded one has a greatest member.
LEMMA LargestMember ==
  ASSUME NEW N \in Nat, NEW S \in SUBSET (0..N), S # {}
  PROVE  Largest(S) \in S /\ \A y \in S : Largest(S) >= y
<1> DEFINE T == {N - y : y \in S}
<1>1. T \in SUBSET Nat /\ T # {}
  <2>1. PICK y \in S : TRUE
    OBVIOUS
  <2>2. N - y \in T
    OBVIOUS
  <2>3. \A x \in S : N - x \in Nat
    OBVIOUS
  <2> QED BY <2>2, <2>3
<1>2. Least(T) \in T /\ \A x \in T : Least(T) <= x
  BY <1>1, LeastMember
<1>3. PICK y \in S : Least(T) = N - y
  BY <1>2
<1>4. \A x \in S : N - y <= N - x
  BY <1>2, <1>3
<1>5. \A x \in S : y >= x
  BY <1>4
<1> QED BY <1>5 DEF Largest

-----------------------------------------------------------------------------
(***************************************************************************)
(* Beginnings of chains.                                                   *)
(***************************************************************************)

\* A chain is the beginning of another iff it is no longer and agrees with it.
LEMMA PrefixPoints ==
  ASSUME NEW c \in Chains, NEW d \in Chains
  PROVE  IsPrefix(c, d) <=> Len(c) <= Len(d) /\ \A i \in 1..Len(c) : c[i] = d[i]
<1>1. SubSeq(c, 1, Len(c)) = c
  BY SubSeqFull DEF Chains
<1>2. CASE Len(c) <= Len(d)
  <2> DEFINE e == SubSeq(d, 1, Len(c))
  <2>1. e \in Seq(Messages) /\ Len(e) = Len(c)
        /\ \A i \in 1..Len(c) : e[i] = d[i]
    BY <1>2 DEF Chains
  <2>2. c = e <=> \A i \in 1..Len(c) : c[i] = d[i]
    BY <2>1, SeqEqual DEF Chains
  <2> QED BY <1>1, <1>2, <2>2 DEF IsPrefix
<1>3. CASE ~(Len(c) <= Len(d))
  BY <1>3 DEF IsPrefix
<1> QED BY <1>2, <1>3

LEMMA PrefixSelf == ASSUME NEW c \in Chains PROVE IsPrefix(c, c)
BY PrefixPoints DEF Chains

LEMMA PrefixEmpty == ASSUME NEW c \in Chains PROVE <<>> \in Chains /\ IsPrefix(<<>>, c)
<1>1. <<>> \in Chains /\ Len(<<>>) = 0 /\ Len(c) \in Nat
  BY DEF Chains
<1> QED BY <1>1, PrefixPoints

\* A beginning of a beginning is a beginning.
LEMMA PrefixTrans ==
  ASSUME NEW c \in Chains, NEW d \in Chains, NEW e \in Chains,
         IsPrefix(c, d), IsPrefix(d, e)
  PROVE  IsPrefix(c, e)
<1>1. Len(c) \in Nat /\ Len(d) \in Nat /\ Len(e) \in Nat
  BY DEF Chains
<1>2. Len(c) <= Len(d) /\ \A i \in 1..Len(c) : c[i] = d[i]
  BY PrefixPoints
<1>3. Len(d) <= Len(e) /\ \A i \in 1..Len(d) : d[i] = e[i]
  BY PrefixPoints
<1>4. Len(c) <= Len(e) /\ \A i \in 1..Len(c) : c[i] = e[i]
  BY <1>1, <1>2, <1>3
<1> QED BY <1>4, PrefixPoints

\* The first k events of a chain.
LEMMA PrefixCut ==
  ASSUME NEW c \in Chains, NEW k \in 0..Len(c)
  PROVE  /\ SubSeq(c, 1, k) \in Chains /\ Len(SubSeq(c, 1, k)) = k
         /\ IsPrefix(SubSeq(c, 1, k), c)
<1> DEFINE d == SubSeq(c, 1, k)
<1>1. d \in Chains /\ Len(d) = k /\ \A i \in 1..k : d[i] = c[i]
  BY DEF Chains
<1>2. Len(c) \in Nat /\ k <= Len(c)
  BY DEF Chains
<1> QED BY <1>1, <1>2, PrefixPoints

\* A chain begins any chain that has one event more.
LEMMA PrefixAppend ==
  ASSUME NEW c \in Chains, NEW m \in Messages
  PROVE  Append(c, m) \in Chains /\ IsPrefix(c, Append(c, m))
<1> DEFINE d == Append(c, m)
<1>1. d \in Chains /\ Len(d) = Len(c) + 1 /\ \A i \in 1..Len(c) : d[i] = c[i]
  BY DEF Chains
<1>2. Len(c) \in Nat /\ Len(c) <= Len(d)
  BY <1>1 DEF Chains
<1> HIDE DEF d
<1>3. d \in Chains /\ IsPrefix(c, d)
  BY <1>1, <1>2, PrefixPoints
<1> QED BY <1>3 DEF d

-----------------------------------------------------------------------------
(***************************************************************************)
(* Locators and ingest.                                                    *)
(***************************************************************************)

\* The matched position is one of the asking chain, or none.
LEMMA MatchedPosition ==
  ASSUME NEW c \in Chains, NEW d \in Chains
  PROVE  Matched(c, d) \in Nat /\ Matched(c, d) <= Len(d)
<1> DEFINE S == {i \in LocatorPositions(Len(c)) : IsPrefix(SubSeq(c, 1, i), d)}
<1>1. Len(c) \in Nat /\ Len(d) \in Nat
  BY DEF Chains
<1>2. LocatorPositions(Len(c)) \subseteq 1..Len(c)
  BY DEF LocatorPositions
<1>3. {0} \cup S \in SUBSET (0..Len(c)) /\ {0} \cup S # {}
  BY <1>1, <1>2
<1>4. Matched(c, d) \in {0} \cup S
  BY <1>1, <1>3, LargestMember DEF Matched
<1>5. ASSUME NEW i \in S PROVE i <= Len(d)
  <2>1. i \in 0..Len(c)
    BY <1>3
  <2>2. SubSeq(c, 1, i) \in Chains /\ Len(SubSeq(c, 1, i)) = i
    BY <2>1, PrefixCut
  <2>3. IsPrefix(SubSeq(c, 1, i), d)
    BY <1>5
  <2> QED BY <2>2, <2>3 DEF IsPrefix
<1>6. Matched(c, d) \in 0..Len(c)
  BY <1>3, <1>4
<1> QED BY <1>1, <1>4, <1>5, <1>6

\* An ingest leaves the chain as it is or makes it a beginning of the chain the
\* events are from.
LEMMA IngestedChain ==
  ASSUME NEW c \in Chains, NEW from \in Chains, NEW start, NEW altered
  PROVE  LET d == Ingested(c, from, start, altered)
         IN  d \in Chains /\ (d = c \/ IsPrefix(d, from))
<1> DEFINE fit(k) == \A i \in (Len(c) + 1)..k :
                       /\ from[i] \notin old \cup altered
                       /\ Fresh(from[i], SubSeq(from, 1, i - 1))
           S == {k \in Len(c)..Len(from) : fit(k)}
<1>1. Len(c) \in Nat /\ Len(from) \in Nat
  BY DEF Chains
<1>2. CASE IsPrefix(c, from) /\ Len(c) >= start
  <2>1. Len(c) <= Len(from)
    BY <1>2 DEF IsPrefix
  <2>2. fit(Len(c))
    BY <1>1
  <2>3. Len(c) \in S
    BY <1>1, <2>1, <2>2
  <2>4. S \in SUBSET (0..Len(from)) /\ S # {}
    BY <1>1, <2>3
  <2>5. Largest(S) \in 0..Len(from)
    BY <1>1, <2>4, LargestMember
  <2>6. Ingested(c, from, start, altered) = SubSeq(from, 1, Largest(S))
    BY <1>2 DEF Ingested
  <2> HIDE DEF S
  <2> QED BY <2>5, <2>6, PrefixCut
<1>3. CASE ~(IsPrefix(c, from) /\ Len(c) >= start)
  BY <1>3 DEF Ingested
<1> QED BY <1>2, <1>3

-----------------------------------------------------------------------------
(***************************************************************************)
(* Type correctness.                                                       *)
(***************************************************************************)
\* What TypeOK says of one sync and of one push.
SyncOK(w) ==
  /\ w \in Syncs
  /\ w.at = "answered" => w.start <= Len(w.seen)
  /\ w.at = "settle" => w.result # "none"
  /\ w.at # "idle" => w.peer \in Nodes
PushOK(p) == p \in Pushed /\ p.start <= Len(p.from)

SyncsOK ==
  /\ sync \in [Nodes -> [Threads -> Syncs]]
  /\ \A n \in Nodes : \A t \in Threads : SyncOK(sync[n][t])
PushesOK ==
  /\ pushing \in [Nodes -> Pushed]
  /\ \A n \in Nodes : PushOK(pushing[n])
OthersOK ==
  /\ signed \subseteq Messages /\ old \subseteq signed
  /\ outcome \in [Nodes -> {"idle", "solo", "running", "ok", "error", "fork"}]
  /\ cooling \in [Nodes -> SUBSET Nodes]
  /\ pushed \in [Nodes -> [Nodes -> Nat]]
  /\ news \subseteq [to : Nodes, from : Chains]
  /\ faults \in 0..MaxFaults

ChainsOK == chain \in [Nodes -> Chains]

\* The parts that the steps are proved to keep one by one.
LEMMA TypeParts == TypeOK <=> ChainsOK /\ SyncsOK /\ PushesOK /\ OthersOK
<1>1. TypeOK => ChainsOK /\ OthersOK
  BY DEF TypeOK, ChainsOK, OthersOK
<1>2. TypeOK => SyncsOK
  BY DEF TypeOK, SyncsOK, SyncOK
<1>3. TypeOK => PushesOK
  BY DEF TypeOK, PushesOK, PushOK
<1>4. ChainsOK /\ SyncsOK /\ PushesOK /\ OthersOK => TypeOK
  BY DEF TypeOK, ChainsOK, SyncsOK, PushesOK, OthersOK, SyncOK, PushOK
<1> QED BY <1>1, <1>2, <1>3, <1>4

LEMMA Rests == SyncOK(AtRest) /\ PushOK(NoPush)
<1>1. <<>> \in Chains /\ Len(<<>>) = 0
  BY DEF Chains
<1>2. AtRest \in Syncs
  BY <1>1, SyncAssumption DEF AtRest, Syncs
<1>3. NoPush \in Pushed
  BY <1>1 DEF NoPush, Pushed
<1> QED BY <1>1, <1>2, <1>3 DEF SyncOK, PushOK, AtRest, NoPush

\* A sync that is set to one of its type keeps the others'.
LEMMA SetSyncOK ==
  ASSUME SyncsOK, NEW n \in Nodes, NEW t \in Threads, NEW w, SyncOK(w), SetSync(n, t, w)
  PROVE  SyncsOK'
<1>1. sync' = [sync EXCEPT ![n] = [sync[n] EXCEPT ![t] = w]]
  BY DEF SetSync
<1>2. sync' \in [Nodes -> [Threads -> Syncs]]
  BY <1>1 DEF SyncsOK, SyncOK
<1>3. ASSUME NEW o \in Nodes, NEW u \in Threads PROVE SyncOK(sync'[o][u])
  <2>1. CASE o = n /\ u = t
    BY <1>1, <2>1 DEF SyncsOK
  <2>2. CASE ~(o = n /\ u = t)
    <3>1. sync'[o][u] = sync[o][u]
      BY <1>1, <2>2 DEF SyncsOK
    <3> QED BY <3>1 DEF SyncsOK
  <2> QED BY <2>1, <2>2
<1> QED BY <1>2, <1>3 DEF SyncsOK, SyncOK

LEMMA TypeInit == Init => TypeOK
<1> SUFFICES ASSUME Init PROVE ChainsOK /\ SyncsOK /\ PushesOK /\ OthersOK
  BY TypeParts
<1>1. <<>> \in Chains
  BY DEF Chains
<1>2. ChainsOK
  BY <1>1 DEF Init, ChainsOK
<1>3. SyncsOK
  BY Rests DEF Init, SyncsOK, SyncOK
<1>4. PushesOK
  BY Rests DEF Init, PushesOK, PushOK
<1>5. OthersOK
  BY SyncAssumption DEF Init, OthersOK
<1> QED BY <1>2, <1>3, <1>4, <1>5

\* Every step of Next but a stutter is one of these.
LEMMA Steps ==
  ASSUME [Next]_vars
  PROVE  \/ \E m \in Messages : AppendEvent(m) \/ Age(m)
         \/ \E n \in Nodes, t \in Threads :
              \/ StartSync(n, t) \/ SendLocator(n, t) \/ AnswerSync(n, t)
              \/ TakeForkAnswer(n, t) \/ TakeAnswer(n, t) \/ FinishSync(n, t)
              \/ SyncRequestFails(n, t) \/ PeerSaveFails(n, t)
         \/ \E n, p \in Nodes : CoolDownEnds(n, p) \/ PushBatch(n, p)
         \/ \E n \in Nodes : PeerPush(n) \/ PushFails(n) \/ Restart(n)
         \/ \E e \in news : NewsArrives(e) \/ NewsLost(e)
         \/ UNCHANGED vars
BY DEF Next, SyncStep, PushStep

\* What each action leaves alone.
LEMMA Frames ==
  /\ \A m \in Messages : AppendEvent(m) =>
       UNCHANGED <<old, sync, outcome, cooling, pushed, pushing, faults>>
  /\ \A m \in Messages : Age(m) =>
       UNCHANGED <<chain, signed, sync, outcome, cooling, pushed, pushing, news, faults>>
  /\ \A n \in Nodes, t \in Threads : StartSync(n, t) =>
       UNCHANGED <<chain, signed, old, cooling, pushed, pushing, news, faults>>
  /\ \A n \in Nodes, t \in Threads : SendLocator(n, t) =>
       UNCHANGED <<chain, signed, old, outcome, cooling, pushed, pushing, news, faults>>
  /\ \A n \in Nodes, t \in Threads : AnswerSync(n, t) =>
       UNCHANGED <<chain, signed, old, outcome, cooling, pushed, pushing, news, faults>>
  /\ \A n \in Nodes, t \in Threads : TakeForkAnswer(n, t) =>
       UNCHANGED <<signed, old, outcome, cooling, pushed, pushing, news, faults>>
  /\ \A n \in Nodes, t \in Threads : TakeAnswer(n, t) =>
       UNCHANGED <<signed, old, outcome, cooling, pushed, pushing, news, faults>>
  /\ \A n \in Nodes, t \in Threads : FinishSync(n, t) =>
       UNCHANGED <<chain, signed, old, pushed, pushing, news, faults>>
  /\ \A n \in Nodes, t \in Threads : SyncRequestFails(n, t) =>
       UNCHANGED <<chain, signed, old, outcome, cooling, pushed, pushing, news>>
  /\ \A n \in Nodes, t \in Threads : PeerSaveFails(n, t) =>
       UNCHANGED <<chain, signed, old, outcome, cooling, pushed, pushing, news>>
  /\ \A n, p \in Nodes : CoolDownEnds(n, p) =>
       UNCHANGED <<chain, signed, old, sync, outcome, pushed, pushing, news, faults>>
  /\ \A n, p \in Nodes : PushBatch(n, p) =>
       UNCHANGED <<chain, signed, old, sync, outcome, cooling, pushed, news, faults>>
  /\ \A n \in Nodes : PeerPush(n) =>
       UNCHANGED <<signed, old, sync, outcome, cooling, news, faults>>
  /\ \A n \in Nodes : PushFails(n) =>
       UNCHANGED <<chain, signed, old, sync, outcome, cooling, pushed, news>>
  /\ \A n \in Nodes : Restart(n) =>
       UNCHANGED <<chain, signed, old, cooling, news>>
  /\ \A e \in news : NewsArrives(e) =>
       UNCHANGED <<signed, old, sync, outcome, cooling, pushed, pushing, faults>>
  /\ \A e \in news : NewsLost(e) =>
       UNCHANGED <<chain, signed, old, sync, outcome, cooling, pushed, pushing>>
<1>1. \A m \in Messages : AppendEvent(m) =>
        UNCHANGED <<old, sync, outcome, cooling, pushed, pushing, faults>>
  BY DEF AppendEvent, pushes
<1>2. \A m \in Messages : Age(m) =>
        UNCHANGED <<chain, signed, sync, outcome, cooling, pushed, pushing, news, faults>>
  BY DEF Age, pushes
<1>3. \A n \in Nodes, t \in Threads : StartSync(n, t) =>
        UNCHANGED <<chain, signed, old, cooling, pushed, pushing, news, faults>>
  BY DEF StartSync, pushes
<1>4. \A n \in Nodes, t \in Threads : SendLocator(n, t) =>
        UNCHANGED <<chain, signed, old, outcome, cooling, pushed, pushing, news, faults>>
  BY DEF SendLocator, pushes
<1>5. \A n \in Nodes, t \in Threads : AnswerSync(n, t) =>
        UNCHANGED <<chain, signed, old, outcome, cooling, pushed, pushing, news, faults>>
  BY DEF AnswerSync, pushes
<1>6. \A n \in Nodes, t \in Threads : TakeForkAnswer(n, t) =>
        UNCHANGED <<signed, old, outcome, cooling, pushed, pushing, news, faults>>
  BY DEF TakeForkAnswer, pushes
<1>7. \A n \in Nodes, t \in Threads : TakeAnswer(n, t) =>
        UNCHANGED <<signed, old, outcome, cooling, pushed, pushing, news, faults>>
  BY DEF TakeAnswer, pushes
<1>8. \A n \in Nodes, t \in Threads : FinishSync(n, t) =>
        UNCHANGED <<chain, signed, old, pushed, pushing, news, faults>>
  BY DEF FinishSync, pushes
<1>9. \A n \in Nodes, t \in Threads : SyncRequestFails(n, t) =>
        UNCHANGED <<chain, signed, old, outcome, cooling, pushed, pushing, news>>
  BY DEF SyncRequestFails, pushes
<1>10. \A n \in Nodes, t \in Threads : PeerSaveFails(n, t) =>
        UNCHANGED <<chain, signed, old, outcome, cooling, pushed, pushing, news>>
  BY DEF PeerSaveFails, pushes
<1>11. \A n, p \in Nodes : CoolDownEnds(n, p) =>
        UNCHANGED <<chain, signed, old, sync, outcome, pushed, pushing, news, faults>>
  BY DEF CoolDownEnds, pushes
<1>12. \A n, p \in Nodes : PushBatch(n, p) =>
        UNCHANGED <<chain, signed, old, sync, outcome, cooling, pushed, news, faults>>
  BY DEF PushBatch, pushes
<1>13. \A n \in Nodes : PeerPush(n) =>
        UNCHANGED <<signed, old, sync, outcome, cooling, news, faults>>
  BY DEF PeerPush, pushes
<1>14. \A n \in Nodes : PushFails(n) =>
        UNCHANGED <<chain, signed, old, sync, outcome, cooling, pushed, news>>
  BY DEF PushFails, pushes
<1>15. \A n \in Nodes : Restart(n) =>
        UNCHANGED <<chain, signed, old, cooling, news>>
  BY DEF Restart, pushes
<1>16. \A e \in news : NewsArrives(e) =>
        UNCHANGED <<signed, old, sync, outcome, cooling, pushed, pushing, faults>>
  BY DEF NewsArrives, pushes
<1>17. \A e \in news : NewsLost(e) =>
        UNCHANGED <<chain, signed, old, sync, outcome, cooling, pushed, pushing>>
  BY DEF NewsLost, pushes
<1> QED
  BY <1>1, <1>2, <1>3, <1>4, <1>5, <1>6, <1>7, <1>8, <1>9, <1>10, <1>11, <1>12, <1>13, <1>14, <1>15, <1>16, <1>17

\* A page of the peer's chain starts at the matched position.
LEMMA PageBounds ==
  ASSUME NEW c \in Chains, NEW k \in Nat, k <= Len(c), NEW size \in Nat
  PROVE  LET last == Least({Len(c), k + size})
         IN  last \in 0..Len(c) /\ k <= last
<1>1. Len(c) \in Nat
  BY DEF Chains
<1>2. {Len(c), k + size} \in SUBSET Nat /\ {Len(c), k + size} # {}
  BY <1>1
<1>3. /\ Least({Len(c), k + size}) \in {Len(c), k + size}
      /\ Least({Len(c), k + size}) <= Len(c)
  BY <1>2, LeastMember
<1> QED BY <1>1, <1>3

\* What AnswerSync puts into the answer.
LEMMA AnswerBounds ==
  ASSUME NEW c \in Chains, NEW d \in Chains
  PROVE  LET match == Matched(c, d)
             last == Least({Len(d), match + PageLimit})
         IN  /\ match \in Nat /\ last \in 0..Len(d) /\ match <= last
             /\ SubSeq(d, 1, last) \in Chains /\ Len(SubSeq(d, 1, last)) = last
             /\ IsPrefix(SubSeq(d, 1, last), d)
<1> DEFINE match == Matched(c, d)
           last == Least({Len(d), match + PageLimit})
<1>1. match \in Nat /\ match <= Len(d)
  BY MatchedPosition
<1>2. PageLimit \in Nat
  BY SyncAssumption
<1>3. last \in 0..Len(d) /\ match <= last
  BY <1>1, <1>2, PageBounds
<1> HIDE DEF match, last
<1>4. SubSeq(d, 1, last) \in Chains /\ Len(SubSeq(d, 1, last)) = last
      /\ IsPrefix(SubSeq(d, 1, last), d)
  BY <1>3, PrefixCut
<1> QED BY <1>1, <1>3, <1>4 DEF match, last

LEMMA ChainsStep == TypeOK /\ [Next]_vars => ChainsOK'
<1> SUFFICES ASSUME TypeOK, [Next]_vars PROVE ChainsOK'
  OBVIOUS
<1>1. ChainsOK /\ SyncsOK /\ PushesOK /\ OthersOK
  BY TypeParts
<1>2. chain \in [Nodes -> Chains]
  BY <1>1 DEF ChainsOK
<1>3. ASSUME NEW n \in Nodes, NEW c \in Chains, chain' = [chain EXCEPT ![n] = c]
      PROVE  ChainsOK'
  BY <1>2, <1>3 DEF ChainsOK
<1>4. ASSUME UNCHANGED chain PROVE ChainsOK'
  BY <1>2, <1>4 DEF ChainsOK
<1>5. ASSUME NEW m \in Messages, AppendEvent(m) PROVE ChainsOK'
  <2>1. Author[m] \in Nodes
    BY SyncAssumption
  <2>2. Append(chain[Author[m]], m) \in Chains
    BY <1>2, <2>1, PrefixAppend
  <2>3. chain' = [chain EXCEPT ![Author[m]] = Append(chain[Author[m]], m)]
    BY <1>5 DEF AppendEvent
  <2> QED BY <2>1, <2>2, <2>3, <1>3
<1>6. ASSUME NEW n \in Nodes, NEW t \in Threads, TakeForkAnswer(n, t) PROVE ChainsOK'
  <2>1. chain' = [chain EXCEPT ![n] = <<>>] \/ UNCHANGED chain
    BY <1>6 DEF TakeForkAnswer
  <2>2. <<>> \in Chains
    BY DEF Chains
  <2> QED BY <2>1, <2>2, <1>3, <1>4
<1>7. ASSUME NEW n \in Nodes, NEW t \in Threads, TakeAnswer(n, t) PROVE ChainsOK'
  <2> DEFINE w == sync[n][t]
             d == Ingested(chain[n], w.seen, w.start, Redacted)
  <2>1. chain' = [chain EXCEPT ![n] = d]
    BY <1>7 DEF TakeAnswer
  <2>2. w.seen \in Chains
    BY <1>1 DEF SyncsOK, SyncOK, Syncs
  <2>3. d \in Chains
    BY <1>2, <2>2, IngestedChain
  <2> QED BY <2>1, <2>3, <1>3
<1>8. ASSUME NEW n \in Nodes, PeerPush(n) PROVE ChainsOK'
  <2> DEFINE push == pushing[n]
             d == Ingested(chain[push.to], push.from, push.start, {})
  <2>1. chain' = [chain EXCEPT ![push.to] = d]
    BY <1>8 DEF PeerPush
  <2>2. push.from \in Chains
    BY <1>1 DEF PushesOK, PushOK, Pushed
  <2>3. CASE push.to \in Nodes
    <3>1. d \in Chains
      BY <1>2, <2>2, <2>3, IngestedChain
    <3> QED BY <2>1, <2>3, <3>1, <1>3
  <2>4. CASE push.to \notin Nodes
    <3>1. chain' = chain
      BY <1>2, <2>1, <2>4
    <3> QED BY <3>1, <1>4
  <2> QED BY <2>3, <2>4
<1>9. ASSUME NEW e \in news, NewsArrives(e) PROVE ChainsOK'
  <2> DEFINE d == Ingested(chain[e.to], e.from, Len(e.from) - 1, {})
  <2>1. chain' = [chain EXCEPT ![e.to] = d]
    BY <1>9 DEF NewsArrives
  <2>2. e.to \in Nodes /\ e.from \in Chains
    BY <1>1 DEF OthersOK
  <2>3. d \in Chains
    BY <1>2, <2>2, IngestedChain
  <2> QED BY <2>1, <2>2, <2>3, <1>3
<1>10. CASE UNCHANGED chain
  BY <1>10, <1>4
<1>11. UNCHANGED chain \/ (\E m \in Messages : AppendEvent(m))
       \/ (\E n \in Nodes, t \in Threads : TakeForkAnswer(n, t) \/ TakeAnswer(n, t))
       \/ (\E n \in Nodes : PeerPush(n)) \/ (\E e \in news : NewsArrives(e))
  BY Steps, Frames DEF vars
<1> QED BY <1>5, <1>6, <1>7, <1>8, <1>9, <1>10, <1>11

LEMMA SyncsStep == TypeOK /\ [Next]_vars => SyncsOK'
<1> SUFFICES ASSUME TypeOK, [Next]_vars PROVE SyncsOK'
  OBVIOUS
<1>1. ChainsOK /\ SyncsOK /\ PushesOK /\ OthersOK
  BY TypeParts
<1>2. chain \in [Nodes -> Chains]
  BY <1>1 DEF ChainsOK
<1>3. \A n \in Nodes : \A t \in Threads : SyncOK(sync[n][t])
  BY <1>1 DEF SyncsOK
<1>4. ASSUME UNCHANGED sync PROVE SyncsOK'
  BY <1>1, <1>4 DEF SyncsOK, SyncOK
<1>5. ASSUME NEW n \in Nodes, NEW t \in Threads, NEW p \in Nodes, NEW left \in SUBSET Nodes
      PROVE  SyncOK([AtRest EXCEPT !.at = "ask", !.left = left, !.peer = p])
  BY Rests DEF SyncOK, AtRest, Syncs
<1>6. ASSUME NEW n \in Nodes, NEW t \in Threads, StartSync(n, t) PROVE SyncsOK'
  <2>1. CASE UNCHANGED sync
    BY <2>1, <1>4
  <2>2. CASE ~UNCHANGED sync
    <3>1. PICK p \in Peers[n] \ cooling[n] :
            SetSync(n, t, [AtRest EXCEPT !.at = "ask",
                                         !.left = (Peers[n] \ cooling[n]) \ {p}, !.peer = p])
      BY <1>6, <2>2 DEF StartSync
    <3>2. Peers[n] \subseteq Nodes
      BY SyncAssumption
    <3>3. SyncOK([AtRest EXCEPT !.at = "ask", !.left = (Peers[n] \ cooling[n]) \ {p},
                                !.peer = p])
      BY <3>2, <1>5
    <3> QED BY <1>1, <3>1, <3>3, SetSyncOK
  <2> QED BY <2>1, <2>2
<1>7. ASSUME NEW n \in Nodes, NEW t \in Threads, SendLocator(n, t) PROVE SyncsOK'
  <2> DEFINE w == [sync[n][t] EXCEPT !.at = "asked", !.seen = chain[n]]
  <2>1. SetSync(n, t, w) /\ sync[n][t].at = "ask"
    BY <1>7 DEF SendLocator, SyncAt
  <2>2. SyncOK(w)
    <3>1. sync[n][t] \in Syncs /\ sync[n][t].peer \in Nodes /\ chain[n] \in Chains
      BY <1>2, <1>3, <2>1 DEF SyncOK
    <3>2. w \in Syncs /\ w.at = "asked" /\ w.peer \in Nodes
      BY <3>1 DEF Syncs
    <3> HIDE DEF w
    <3> QED BY <3>2 DEF SyncOK
  <2>3. SetSync(n, t, w)
    BY <2>1
  <2> HIDE DEF w
  <2> QED BY <1>1, <2>3, <2>2, SetSyncOK
<1>8. ASSUME NEW n \in Nodes, NEW t \in Threads, AnswerSync(n, t) PROVE SyncsOK'
  <2> DEFINE v == sync[n][t]
             its == chain[v.peer]
             match == Matched(v.seen, its)
             last == Least({Len(its), match + PageLimit})
             page == SubSeq(its, 1, last)
             w == [v EXCEPT !.at = "answered", !.seen = page, !.start = match,
                            !.forked = match = 0 /\ v.seen # <<>>]
  <2>1. SetSync(n, t, w) /\ v.at = "asked"
    BY <1>8 DEF AnswerSync, SyncAt
  <2>2. v \in Syncs /\ v.peer \in Nodes /\ v.seen \in Chains
    BY <1>3, <2>1 DEF SyncOK, Syncs
  <2>3. its \in Chains
    BY <1>2, <2>2
  <2>4. match \in Nat /\ last \in 0..Len(its) /\ match <= last
        /\ page \in Chains /\ Len(page) = last
    BY <2>2, <2>3, AnswerBounds
  <2>5. (match = 0 /\ v.seen # <<>>) \in BOOLEAN
    OBVIOUS
  <2>6. /\ w.at = "answered" /\ w.start = match /\ w.seen = page /\ w.peer = v.peer
        /\ w \in Syncs
    <3> HIDE DEF page, match, last, its, v
    <3> QED BY <2>2, <2>4, <2>5 DEF Syncs
  <2> HIDE DEF page, match, last, its, w
  <2>7. SyncOK(w)
    BY <2>2, <2>4, <2>6 DEF SyncOK
  <2>8. SetSync(n, t, w)
    BY <2>1
  <2> QED BY <1>1, <2>7, <2>8, SetSyncOK
<1>9. ASSUME NEW n \in Nodes, NEW t \in Threads, TakeForkAnswer(n, t) PROVE SyncsOK'
  <2> DEFINE again == [sync[n][t] EXCEPT !.at = "ask"]
             fork == [sync[n][t] EXCEPT !.at = "settle", !.result = "fork"]
  <2>1. sync[n][t].at = "answered"
    BY <1>9 DEF TakeForkAnswer, SyncAt
  <2>2. SetSync(n, t, again) \/ SetSync(n, t, fork)
    BY <1>9 DEF TakeForkAnswer
  <2>3. sync[n][t] \in Syncs /\ sync[n][t].peer \in Nodes
    BY <1>3, <2>1 DEF SyncOK
  <2>4. again \in Syncs /\ again.at = "ask" /\ again.peer \in Nodes
    BY <2>3 DEF Syncs
  <2>5. fork \in Syncs /\ fork.at = "settle" /\ fork.result = "fork" /\ fork.peer \in Nodes
    BY <2>3 DEF Syncs
  <2> HIDE DEF again, fork
  <2>6. SyncOK(again) /\ SyncOK(fork)
    BY <2>4, <2>5 DEF SyncOK
  <2> QED BY <1>1, <2>2, <2>6, SetSyncOK
<1>10. ASSUME NEW n \in Nodes, NEW t \in Threads, TakeAnswer(n, t) PROVE SyncsOK'
  <2> DEFINE v == sync[n][t]
             full == Len(v.seen) - v.start = PageLimit /\ v.rounds + 1 < MaxRounds
             taken == AllTaken(chain[n], v.seen, v.start, Redacted)
             next == IF Len(v.seen) = v.start \/ (taken /\ ~full)
                       THEN [v EXCEPT !.at = "settle", !.result = "ok"]
                     ELSE IF taken THEN [v EXCEPT !.at = "ask", !.rounds = @ + 1]
                     ELSE [v EXCEPT !.at = "settle", !.result = "error"]
  <2>1. SetSync(n, t, next) /\ v.at = "answered"
    BY <1>10 DEF TakeAnswer, SyncAt
  <2>2. v \in Syncs /\ v.peer \in Nodes
    BY <1>3, <2>1 DEF SyncOK
  <2>3. \A r \in {"ok", "error"} : SyncOK([v EXCEPT !.at = "settle", !.result = r])
    <3> HIDE DEF v
    <3> QED BY <2>2 DEF SyncOK, Syncs
  <2>4. v.rounds + 1 < MaxRounds => SyncOK([v EXCEPT !.at = "ask", !.rounds = @ + 1])
    <3> HIDE DEF v
    <3>1. MaxRounds \in Nat
      BY SyncAssumption
    <3>2. v.rounds + 1 < MaxRounds => v.rounds + 1 \in 0..(MaxRounds - 1)
      BY <2>2, <3>1 DEF Syncs
    <3> DEFINE w == [v EXCEPT !.at = "ask", !.rounds = v.rounds + 1]
    <3>3. v.rounds + 1 < MaxRounds => w \in Syncs
      BY <2>2, <3>2 DEF Syncs
    <3>4. w.at = "ask" /\ w.peer = v.peer
      BY <2>2 DEF Syncs
    <3> HIDE DEF w
    <3>5. v.rounds + 1 < MaxRounds => SyncOK(w)
      BY <2>2, <3>3, <3>4 DEF SyncOK
    <3> QED BY <3>5 DEF w
  <2>5. SyncOK(next)
    <3>1. CASE Len(v.seen) = v.start \/ (taken /\ ~full)
      BY <2>3, <3>1
    <3>2. CASE ~(Len(v.seen) = v.start \/ (taken /\ ~full)) /\ taken
      <4>1. v.rounds + 1 < MaxRounds
        BY <3>2
      <4>2. next = [v EXCEPT !.at = "ask", !.rounds = @ + 1]
        BY <3>2
      <4> QED BY <2>4, <4>1, <4>2
    <3>3. CASE ~(Len(v.seen) = v.start \/ (taken /\ ~full)) /\ ~taken
      BY <2>3, <3>3
    <3> QED BY <3>1, <3>2, <3>3
  <2> HIDE DEF next
  <2> QED BY <1>1, <2>1, <2>5, SetSyncOK
<1>11. ASSUME NEW n \in Nodes, NEW t \in Threads, FinishSync(n, t) PROVE SyncsOK'
  <2>1. SetSync(n, t, AtRest)
        \/ \E p \in sync[n][t].left :
             SetSync(n, t, [AtRest EXCEPT !.at = "ask", !.left = sync[n][t].left \ {p},
                                          !.peer = p])
    BY <1>11 DEF FinishSync
  <2>2. sync[n][t].left \in SUBSET Nodes
    BY <1>3 DEF SyncOK, Syncs
  <2>3. ASSUME NEW p \in sync[n][t].left
        PROVE  SyncOK([AtRest EXCEPT !.at = "ask", !.left = sync[n][t].left \ {p},
                                     !.peer = p])
    BY <2>2, <1>5
  <2>4. CASE SetSync(n, t, AtRest)
    BY <1>1, <2>4, Rests, SetSyncOK
  <2>5. ASSUME NEW p \in sync[n][t].left,
               SetSync(n, t, [AtRest EXCEPT !.at = "ask", !.left = sync[n][t].left \ {p},
                                            !.peer = p])
        PROVE  SyncsOK'
    <3> DEFINE w == [AtRest EXCEPT !.at = "ask", !.left = sync[n][t].left \ {p}, !.peer = p]
    <3>1. SyncOK(w) /\ SetSync(n, t, w)
      BY <2>3, <2>5
    <3> HIDE DEF w
    <3> QED BY <1>1, <3>1, SetSyncOK
  <2> QED BY <2>1, <2>4, <2>5
<1>12. ASSUME NEW n \in Nodes, NEW t \in Threads, SyncRequestFails(n, t) PROVE SyncsOK'
  <2> DEFINE w == [sync[n][t] EXCEPT !.at = "settle", !.result = "error"]
  <2>1. SetSync(n, t, w) /\ sync[n][t].at \in {"asked", "answered"}
    BY <1>12 DEF SyncRequestFails
  <2>2. sync[n][t] \in Syncs /\ sync[n][t].peer \in Nodes
    BY <1>3, <2>1 DEF SyncOK
  <2>3. w \in Syncs /\ w.at = "settle" /\ w.result = "error" /\ w.peer \in Nodes
    BY <2>2 DEF Syncs
  <2>4. SetSync(n, t, w)
    BY <2>1
  <2> HIDE DEF w
  <2>5. SyncOK(w)
    BY <2>3 DEF SyncOK
  <2> QED BY <1>1, <2>4, <2>5, SetSyncOK
<1>13. ASSUME NEW n \in Nodes, NEW t \in Threads, PeerSaveFails(n, t) PROVE SyncsOK'
  BY <1>1, <1>13, Rests, SetSyncOK DEF PeerSaveFails
<1>14. ASSUME NEW n \in Nodes, Restart(n) PROVE SyncsOK'
  <2>1. sync' = [sync EXCEPT ![n] = [t \in Threads |-> AtRest]]
    BY <1>14 DEF Restart
  <2>2. AtRest \in Syncs
    BY Rests DEF SyncOK
  <2>3. sync' \in [Nodes -> [Threads -> Syncs]]
    BY <1>1, <2>1, <2>2 DEF SyncsOK
  <2>4. ASSUME NEW o \in Nodes, NEW u \in Threads PROVE SyncOK(sync'[o][u])
    <3>1. sync'[o][u] = AtRest \/ sync'[o][u] = sync[o][u]
      BY <1>1, <2>1 DEF SyncsOK
    <3> QED BY <1>3, <3>1, Rests
  <2> QED BY <2>3, <2>4 DEF SyncsOK, SyncOK
<1>15. UNCHANGED sync
       \/ (\E n \in Nodes, t \in Threads :
             \/ StartSync(n, t) \/ SendLocator(n, t) \/ AnswerSync(n, t)
             \/ TakeForkAnswer(n, t) \/ TakeAnswer(n, t) \/ FinishSync(n, t)
             \/ SyncRequestFails(n, t) \/ PeerSaveFails(n, t))
       \/ (\E n \in Nodes : Restart(n))
  BY Steps, Frames DEF vars
<1> QED BY <1>4, <1>6, <1>7, <1>8, <1>9, <1>10, <1>11, <1>12, <1>13, <1>14, <1>15

LEMMA PushesStep == TypeOK /\ [Next]_vars => PushesOK'
<1> SUFFICES ASSUME TypeOK, [Next]_vars PROVE PushesOK'
  OBVIOUS
<1>1. ChainsOK /\ SyncsOK /\ PushesOK /\ OthersOK
  BY TypeParts
<1>2. pushing \in [Nodes -> Pushed] /\ \A n \in Nodes : PushOK(pushing[n])
  BY <1>1 DEF PushesOK
<1>3. ASSUME NEW n \in Nodes, NEW p, PushOK(p), pushing' = [pushing EXCEPT ![n] = p]
      PROVE  PushesOK'
  <2>1. pushing' \in [Nodes -> Pushed]
    BY <1>2, <1>3 DEF PushOK
  <2>2. \A o \in Nodes : pushing'[o] = p \/ pushing'[o] = pushing[o]
    BY <1>2, <1>3
  <2>3. \A o \in Nodes : PushOK(pushing'[o])
    BY <1>2, <1>3, <2>2
  <2> QED BY <2>1, <2>3 DEF PushesOK, PushOK
<1>4. ASSUME UNCHANGED pushing PROVE PushesOK'
  BY <1>1, <1>4 DEF PushesOK, PushOK
<1>5. ASSUME NEW n \in Nodes, NEW p \in Nodes, PushBatch(n, p) PROVE PushesOK'
  <2> DEFINE c == chain[n]
             last == Least({Len(c), pushed[n][p] + BatchSize})
             push == [to |-> p, start |-> pushed[n][p], from |-> SubSeq(c, 1, last)]
  <2>1. pushing' = [pushing EXCEPT ![n] = push] /\ pushed[n][p] < Len(c)
    BY <1>5 DEF PushBatch
  <2>2. c \in Chains
    BY <1>1 DEF ChainsOK
  <2>3. pushed[n][p] \in Nat /\ BatchSize \in Nat
    BY <1>1, SyncAssumption DEF OthersOK
  <2>4. last \in 0..Len(c) /\ pushed[n][p] <= last
    <3>1. Len(c) \in Nat
      BY <2>2 DEF Chains
    <3>2. pushed[n][p] <= Len(c)
      BY <2>1, <2>3, <3>1
    <3> QED BY <2>2, <2>3, <3>2, PageBounds
  <2> HIDE DEF last, c
  <2>5. SubSeq(c, 1, last) \in Chains /\ Len(SubSeq(c, 1, last)) = last
    BY <2>2, <2>4, PrefixCut
  <2>6. PushOK(push)
    BY <2>3, <2>4, <2>5 DEF PushOK, Pushed
  <2> HIDE DEF push
  <2> QED BY <1>3, <2>1, <2>6
<1>6. ASSUME NEW n \in Nodes, PeerPush(n) \/ PushFails(n) \/ Restart(n) PROVE PushesOK'
  <2>1. pushing' = [pushing EXCEPT ![n] = NoPush]
    BY <1>6 DEF PeerPush, PushFails, Restart
  <2> QED BY <1>3, <2>1, Rests
<1>7. UNCHANGED pushing \/ (\E n, p \in Nodes : PushBatch(n, p))
      \/ (\E n \in Nodes : PeerPush(n) \/ PushFails(n) \/ Restart(n))
  BY Steps, Frames DEF vars, pushes
<1> QED BY <1>4, <1>5, <1>6, <1>7

LEMMA OthersStep == TypeOK /\ [Next]_vars => OthersOK'
<1> SUFFICES ASSUME TypeOK, [Next]_vars PROVE OthersOK'
  OBVIOUS
<1>1. ChainsOK /\ SyncsOK /\ PushesOK /\ OthersOK
  BY TypeParts
<1>2. MaxFaults \in Nat /\ Peers \in [Nodes -> SUBSET Nodes]
      /\ PushPeers \in [Nodes -> SUBSET Nodes] /\ Author \in [Messages -> Nodes]
  BY SyncAssumption
<1>3. signed' \subseteq Messages /\ old' \subseteq signed'
  <2>1. signed \subseteq Messages /\ old \subseteq signed
    BY <1>1 DEF OthersOK
  <2>2. UNCHANGED <<signed, old>> \/ (\E m \in Messages : AppendEvent(m) \/ Age(m))
    BY Steps, Frames DEF vars
  <2>3. ASSUME NEW m \in Messages, AppendEvent(m)
        PROVE  signed' = signed \cup {m} /\ UNCHANGED old
    BY <2>3 DEF AppendEvent
  <2>4. ASSUME NEW m \in Messages, Age(m)
        PROVE  m \in signed /\ old' = old \cup {m} /\ UNCHANGED signed
    BY <2>4 DEF Age
  <2> QED BY <2>1, <2>2, <2>3, <2>4
<1>4. faults' \in 0..MaxFaults
  <2>1. faults \in 0..MaxFaults
    BY <1>1 DEF OthersOK
  <2>2. UNCHANGED faults \/ (faults < MaxFaults /\ faults' = faults + 1)
    <3>1. UNCHANGED faults
          \/ (\E n \in Nodes, t \in Threads : SyncRequestFails(n, t) \/ PeerSaveFails(n, t))
          \/ (\E n \in Nodes : PushFails(n) \/ Restart(n)) \/ (\E e \in news : NewsLost(e))
      BY Steps, Frames DEF vars
    <3> QED
      BY <3>1 DEF SyncRequestFails, PeerSaveFails, PushFails, Restart, NewsLost, Fault
  <2> QED BY <1>2, <2>1, <2>2
<1>5. outcome' \in [Nodes -> {"idle", "solo", "running", "ok", "error", "fork"}]
  <2>1. outcome \in [Nodes -> {"idle", "solo", "running", "ok", "error", "fork"}]
    BY <1>1 DEF OthersOK
  <2>2. \/ UNCHANGED outcome
        \/ \E n \in Nodes, o \in {"idle", "solo", "running"} :
             outcome' = [outcome EXCEPT ![n] = o]
        \/ \E n \in Nodes, t \in Threads : FinishSync(n, t)
    <3>1. UNCHANGED outcome \/ (\E n \in Nodes : Restart(n))
          \/ (\E n \in Nodes, t \in Threads : StartSync(n, t) \/ FinishSync(n, t))
      BY Steps, Frames DEF vars
    <3>2. ASSUME NEW n \in Nodes, NEW t \in Threads, StartSync(n, t)
          PROVE  \E o \in {"solo", "running"} : outcome' = [outcome EXCEPT ![n] = o]
      BY <3>2 DEF StartSync
    <3>3. ASSUME NEW n \in Nodes, Restart(n) PROVE outcome' = [outcome EXCEPT ![n] = "idle"]
      BY <3>3 DEF Restart
    <3> QED BY <3>1, <3>2, <3>3
  <2>3. ASSUME NEW n \in Nodes, NEW t \in Threads, FinishSync(n, t)
        PROVE  outcome' \in [Nodes -> {"idle", "solo", "running", "ok", "error", "fork"}]
    <3>1. sync[n][t].result \in {"ok", "error", "fork"}
      BY <1>1, <2>3 DEF FinishSync, SyncAt, SyncsOK, SyncOK, Syncs
    <3> QED BY <2>1, <2>3, <3>1 DEF FinishSync
  <2> QED BY <2>1, <2>2, <2>3
<1>6. cooling' \in [Nodes -> SUBSET Nodes]
  <2>1. cooling \in [Nodes -> SUBSET Nodes]
    BY <1>1 DEF OthersOK
  <2>2. UNCHANGED cooling
        \/ (\E n, p \in Nodes : CoolDownEnds(n, p))
        \/ (\E n \in Nodes, t \in Threads : FinishSync(n, t))
    BY Steps, Frames DEF vars
  <2>3. ASSUME NEW n \in Nodes, NEW p \in Nodes, CoolDownEnds(n, p)
        PROVE  cooling' \in [Nodes -> SUBSET Nodes]
    BY <2>1, <2>3 DEF CoolDownEnds
  <2>4. ASSUME NEW n \in Nodes, NEW t \in Threads, FinishSync(n, t)
        PROVE  cooling' \in [Nodes -> SUBSET Nodes]
    <3>1. sync[n][t].peer \in Nodes
      BY <1>1, <2>4 DEF FinishSync, SyncAt, SyncsOK, SyncOK
    <3>2. \E S \in SUBSET Nodes : cooling' = [cooling EXCEPT ![n] = S]
      BY <2>1, <2>4, <3>1 DEF FinishSync
    <3> QED BY <2>1, <3>2
  <2> QED BY <2>1, <2>2, <2>3, <2>4
<1>7. pushed' \in [Nodes -> [Nodes -> Nat]]
  <2>1. pushed \in [Nodes -> [Nodes -> Nat]]
    BY <1>1 DEF OthersOK
  <2>2. UNCHANGED pushed \/ (\E n \in Nodes : PeerPush(n) \/ Restart(n))
    BY Steps, Frames DEF vars, pushes
  <2>3. ASSUME NEW n \in Nodes, PeerPush(n) PROVE pushed' \in [Nodes -> [Nodes -> Nat]]
    <3>1. Len(pushing[n].from) \in Nat
      BY <1>1 DEF PushesOK, PushOK, Pushed, Chains
    <3>2. pushed' = [pushed EXCEPT ![n] = [pushed[n] EXCEPT ![pushing[n].to] =
                                             Len(pushing[n].from)]]
      BY <2>3 DEF PeerPush
    <3>3. [pushed[n] EXCEPT ![pushing[n].to] = Len(pushing[n].from)] \in [Nodes -> Nat]
      BY <2>1, <3>1
    <3> QED BY <2>1, <3>2, <3>3
  <2>4. ASSUME NEW n \in Nodes, Restart(n) PROVE pushed' \in [Nodes -> [Nodes -> Nat]]
    BY <2>1, <2>4 DEF Restart
  <2> QED BY <2>1, <2>2, <2>3, <2>4
<1>8. news' \subseteq [to : Nodes, from : Chains]
  <2>1. news \subseteq [to : Nodes, from : Chains]
    BY <1>1 DEF OthersOK
  <2>2. news' \subseteq news \/ (\E m \in Messages : AppendEvent(m))
    <3>1. UNCHANGED news \/ (\E m \in Messages : AppendEvent(m))
          \/ (\E e \in news : NewsArrives(e) \/ NewsLost(e))
      BY Steps, Frames DEF vars, pushes
    <3>2. ASSUME NEW e \in news, NewsArrives(e) \/ NewsLost(e) PROVE news' \subseteq news
      BY <3>2 DEF NewsArrives, NewsLost
    <3> QED BY <3>1, <3>2
  <2>3. ASSUME NEW m \in Messages, AppendEvent(m)
        PROVE  news' \subseteq [to : Nodes, from : Chains]
    <3> DEFINE longer == Append(chain[Author[m]], m)
    <3>1. news' = news \cup {[to |-> p, from |-> longer] : p \in PushPeers[Author[m]]}
      BY <2>3 DEF AppendEvent
    <3>2. longer \in Chains
      BY <1>1, <1>2, PrefixAppend DEF ChainsOK
    <3>3. PushPeers[Author[m]] \subseteq Nodes
      BY <1>2
    <3> HIDE DEF longer
    <3> QED BY <2>1, <3>1, <3>2, <3>3
  <2> QED BY <2>1, <2>2, <2>3
<1> QED BY <1>3, <1>4, <1>5, <1>6, <1>7, <1>8 DEF OthersOK

\* Together, every step keeps the types.
LEMMA TypeStep == TypeOK /\ [Next]_vars => TypeOK'
<1> SUFFICES ASSUME TypeOK, [Next]_vars PROVE TypeOK'
  OBVIOUS
<1>1. ChainsOK' /\ SyncsOK' /\ PushesOK' /\ OthersOK'
  BY ChainsStep, SyncsStep, PushesStep, OthersStep
<1> QED BY <1>1, TypeParts, PTL

\* The type invariant of the network.
THEOREM TypeCorrect == Spec => []TypeOK
BY TypeInit, TypeStep, PTL DEF Spec

-----------------------------------------------------------------------------
(***************************************************************************)
(* Followers of a seed.  The chains alone are not inductive: what is on    *)
(* its way to a node was read earlier, so the invariant says the same of   *)
(* every answer, push and single event in flight.  It survives because     *)
(* nothing is ever sent to the seed and the seed never syncs, so its chain *)
(* only grows.                                                             *)
(***************************************************************************)
ChainsBegin(s) == \A n \in Nodes : IsPrefix(chain[n], chain[s])
AnswersBegin(s) == \A n \in Nodes : \A t \in Threads : IsPrefix(sync[n][t].seen, chain[s])
PushesBegin(s) ==
  \A n \in Nodes : pushing[n].to # s /\ IsPrefix(pushing[n].from, chain[s])
NewsBegins(s) == \A e \in news : e.to # s /\ IsPrefix(e.from, chain[s])
SeedIdle(s) == \A t \in Threads : sync[s][t].at = "idle"

Heard(s) ==
  ChainsBegin(s) /\ AnswersBegin(s) /\ PushesBegin(s) /\ NewsBegins(s) /\ SeedIdle(s)
NetInv == \A s \in Nodes : Seed(s) => Heard(s)

\* The types of what the invariant compares.
LEMMA ChainTypes ==
  ASSUME TypeOK
  PROVE  /\ chain \in [Nodes -> Chains]
         /\ \A n \in Nodes : \A t \in Threads : sync[n][t] \in Syncs /\ sync[n][t].seen \in Chains
         /\ \A n \in Nodes : pushing[n].from \in Chains
         /\ \A n \in Nodes : pushing[n] # NoPush => pushing[n].to \in Nodes \cup {Nobody}
         /\ \A e \in news : e.to \in Nodes /\ e.from \in Chains
<1>1. ChainsOK /\ SyncsOK /\ PushesOK /\ OthersOK
  BY TypeParts
<1>2. \A n \in Nodes : \A t \in Threads : sync[n][t] \in Syncs /\ sync[n][t].seen \in Chains
  BY <1>1 DEF SyncsOK, SyncOK, Syncs
<1>3. \A n \in Nodes : pushing[n].from \in Chains /\ pushing[n].to \in Nodes \cup {Nobody}
  BY <1>1 DEF PushesOK, PushOK, Pushed
<1> QED BY <1>1, <1>2, <1>3 DEF ChainsOK, OthersOK

LEMMA HeardInit == Init => NetInv
<1> SUFFICES ASSUME Init, NEW s \in Nodes, Seed(s) PROVE Heard(s)
  BY DEF NetInv
<1>1. IsPrefix(<<>>, <<>>)
  <2>1. <<>> \in Chains
    BY DEF Chains
  <2> QED BY <2>1, PrefixSelf
<1>2. chain[s] = <<>>
  BY DEF Init
<1>3. ChainsBegin(s)
  BY <1>1 DEF Init, ChainsBegin
<1>4. AnswersBegin(s)
  BY <1>1, <1>2 DEF Init, AnswersBegin, AtRest
<1>5. PushesBegin(s)
  BY <1>1, <1>2, SyncAssumption DEF Init, PushesBegin, NoPush
<1>6. NewsBegins(s)
  BY DEF Init, NewsBegins
<1>7. SeedIdle(s)
  BY DEF Init, SeedIdle, AtRest
<1> QED BY <1>3, <1>4, <1>5, <1>6, <1>7 DEF Heard

\* The seed's chain only grows, and only by its own events.
LEMMA SeedGrows ==
  ASSUME TypeOK, [Next]_vars, NEW s \in Nodes, Seed(s), Heard(s)
  PROVE  chain'[s] \in Chains /\ IsPrefix(chain[s], chain'[s])
<1>1. chain \in [Nodes -> Chains] /\ chain[s] \in Chains
  BY ChainTypes
<1>2. ASSUME NEW m \in Messages, AppendEvent(m)
      PROVE  chain'[s] \in Chains /\ IsPrefix(chain[s], chain'[s])
  <2>1. Author[m] = s
    BY DEF Seed
  <2>2. chain'[s] = Append(chain[s], m)
    BY <1>1, <1>2, <2>1 DEF AppendEvent
  <2> QED BY <1>1, <2>2, PrefixAppend
<1>3. ASSUME chain'[s] = chain[s]
      PROVE  chain'[s] \in Chains /\ IsPrefix(chain[s], chain'[s])
  BY <1>1, <1>3, PrefixSelf
<1>4. ASSUME NEW n \in Nodes, NEW t \in Threads, TakeForkAnswer(n, t) \/ TakeAnswer(n, t)
      PROVE  chain'[s] = chain[s]
  <2>1. sync[n][t].at = "answered"
    BY <1>4 DEF TakeForkAnswer, TakeAnswer, SyncAt
  <2>2. n # s
    BY <2>1 DEF Heard, SeedIdle
  <2> QED BY <1>1, <1>4, <2>2 DEF TakeForkAnswer, TakeAnswer
<1>5. ASSUME NEW n \in Nodes, PeerPush(n) PROVE chain'[s] = chain[s]
  <2>1. pushing[n].to # s
    BY DEF Heard, PushesBegin
  <2> QED BY <1>1, <1>5, <2>1 DEF PeerPush
<1>6. ASSUME NEW e \in news, NewsArrives(e) PROVE chain'[s] = chain[s]
  <2>1. e.to # s
    BY DEF Heard, NewsBegins
  <2> QED BY <1>1, <1>6, <2>1 DEF NewsArrives
<1>7. UNCHANGED chain \/ (\E m \in Messages : AppendEvent(m))
      \/ (\E n \in Nodes, t \in Threads : TakeForkAnswer(n, t) \/ TakeAnswer(n, t))
      \/ (\E n \in Nodes : PeerPush(n)) \/ (\E e \in news : NewsArrives(e))
  BY Steps, Frames DEF vars
<1> QED BY <1>2, <1>3, <1>4, <1>5, <1>6, <1>7

\* What began the seed's chain before a step still does.
LEMMA StillBegins ==
  ASSUME TypeOK, [Next]_vars, NEW s \in Nodes, Seed(s), Heard(s),
         NEW c \in Chains, IsPrefix(c, chain[s])
  PROVE  IsPrefix(c, chain'[s])
<1>1. chain[s] \in Chains
  BY ChainTypes
<1>2. chain'[s] \in Chains /\ IsPrefix(chain[s], chain'[s])
  BY SeedGrows
<1> QED BY <1>1, <1>2, PrefixTrans

LEMMA ChainsBeginStep ==
  ASSUME TypeOK, [Next]_vars, NEW s \in Nodes, Seed(s), Heard(s)
  PROVE  ChainsBegin(s)'
<1>1. chain \in [Nodes -> Chains] /\ chain[s] \in Chains
  BY ChainTypes
<1>2. \A n \in Nodes : IsPrefix(chain[n], chain[s])
  BY DEF Heard, ChainsBegin
<1>3. ASSUME NEW c \in Chains, NEW from \in Chains, NEW start, NEW altered,
             IsPrefix(c, chain[s]), IsPrefix(from, chain[s])
      PROVE  LET d == Ingested(c, from, start, altered)
             IN  d \in Chains /\ IsPrefix(d, chain[s])
  <2> DEFINE d == Ingested(c, from, start, altered)
  <2>1. d \in Chains /\ (d = c \/ IsPrefix(d, from))
    BY IngestedChain
  <2> HIDE DEF d
  <2>2. d \in Chains /\ IsPrefix(d, chain[s])
    BY <1>1, <1>3, <2>1, PrefixTrans
  <2> QED BY <2>2 DEF d
<1>4. ASSUME NEW k \in Nodes, NEW c \in Chains, IsPrefix(c, chain[s]),
             chain' = [chain EXCEPT ![k] = c]
      PROVE  ChainsBegin(s)'
  <2>1. \A n \in Nodes : chain'[n] \in Chains /\ IsPrefix(chain'[n], chain[s])
    BY <1>1, <1>2, <1>4
  <2>2. \A n \in Nodes : IsPrefix(chain'[n], chain'[s])
    BY <2>1, StillBegins
  <2> QED BY <2>2 DEF ChainsBegin
<1>5. ASSUME NEW m \in Messages, AppendEvent(m) PROVE ChainsBegin(s)'
  <2>1. Author[m] = s
    BY DEF Seed
  <2>2. \A n \in Nodes \ {s} : chain'[n] = chain[n]
    BY <1>1, <1>5, <2>1 DEF AppendEvent
  <2>3. chain'[s] \in Chains
    BY SeedGrows
  <2>4. IsPrefix(chain'[s], chain'[s])
    BY <2>3, PrefixSelf
  <2>5. ASSUME NEW n \in Nodes \ {s} PROVE IsPrefix(chain'[n], chain'[s])
    <3>1. chain[n] \in Chains /\ IsPrefix(chain[n], chain[s])
      BY <1>1, <1>2
    <3> QED BY <2>2, <3>1, StillBegins
  <2>6. \A n \in Nodes : IsPrefix(chain'[n], chain'[s])
    BY <2>4, <2>5
  <2> QED BY <2>6 DEF ChainsBegin
<1>6. ASSUME NEW n \in Nodes, NEW t \in Threads, TakeForkAnswer(n, t) PROVE ChainsBegin(s)'
  <2>1. chain' = [chain EXCEPT ![n] = <<>>] \/ chain' = [chain EXCEPT ![n] = chain[n]]
    BY <1>1, <1>6 DEF TakeForkAnswer
  <2>2. <<>> \in Chains /\ IsPrefix(<<>>, chain[s])
    BY <1>1, PrefixEmpty
  <2>3. chain[n] \in Chains /\ IsPrefix(chain[n], chain[s])
    BY <1>1, <1>2
  <2> QED BY <2>1, <2>2, <2>3, <1>4
<1>7. ASSUME NEW n \in Nodes, NEW t \in Threads, TakeAnswer(n, t) PROVE ChainsBegin(s)'
  <2> DEFINE w == sync[n][t]
             d == Ingested(chain[n], w.seen, w.start, Redacted)
  <2>1. chain' = [chain EXCEPT ![n] = d]
    BY <1>7 DEF TakeAnswer
  <2>2. w.seen \in Chains /\ chain[n] \in Chains
    BY ChainTypes
  <2>3. IsPrefix(w.seen, chain[s]) /\ IsPrefix(chain[n], chain[s])
    BY DEF Heard, AnswersBegin, ChainsBegin
  <2>4. d \in Chains /\ IsPrefix(d, chain[s])
    BY <2>2, <2>3, <1>3
  <2> HIDE DEF d
  <2> QED BY <2>1, <2>4, <1>4
<1>8. ASSUME NEW n \in Nodes, PeerPush(n) PROVE ChainsBegin(s)'
  <2> DEFINE push == pushing[n]
             d == Ingested(chain[push.to], push.from, push.start, {})
  <2>1. chain' = [chain EXCEPT ![push.to] = d]
    BY <1>8 DEF PeerPush
  <2>2. push.from \in Chains /\ IsPrefix(push.from, chain[s])
    BY ChainTypes DEF Heard, PushesBegin
  <2>3. CASE push.to \in Nodes
    <3>1. chain[push.to] \in Chains /\ IsPrefix(chain[push.to], chain[s])
      BY <1>1, <1>2, <2>3
    <3>2. d \in Chains /\ IsPrefix(d, chain[s])
      BY <2>2, <3>1, <1>3
    <3> HIDE DEF d
    <3> QED BY <2>1, <2>3, <3>2, <1>4
  <2>4. CASE push.to \notin Nodes
    <3>1. chain' = [chain EXCEPT ![s] = chain[s]]
      BY <1>1, <2>1, <2>4
    <3> QED BY <1>1, <1>2, <3>1, <1>4
  <2> QED BY <2>3, <2>4
<1>9. ASSUME NEW e \in news, NewsArrives(e) PROVE ChainsBegin(s)'
  <2> DEFINE d == Ingested(chain[e.to], e.from, Len(e.from) - 1, {})
  <2>1. chain' = [chain EXCEPT ![e.to] = d]
    BY <1>9 DEF NewsArrives
  <2>2. e.to \in Nodes /\ e.from \in Chains
    BY ChainTypes
  <2>3. IsPrefix(e.from, chain[s])
    BY DEF Heard, NewsBegins
  <2>4. chain[e.to] \in Chains /\ IsPrefix(chain[e.to], chain[s])
    BY <1>1, <1>2, <2>2
  <2>5. d \in Chains /\ IsPrefix(d, chain[s])
    BY <2>2, <2>3, <2>4, <1>3
  <2> HIDE DEF d
  <2> QED BY <2>1, <2>2, <2>5, <1>4
<1>10. ASSUME UNCHANGED chain PROVE ChainsBegin(s)'
  BY <1>2, <1>10 DEF ChainsBegin
<1>11. UNCHANGED chain \/ (\E m \in Messages : AppendEvent(m))
       \/ (\E n \in Nodes, t \in Threads : TakeForkAnswer(n, t) \/ TakeAnswer(n, t))
       \/ (\E n \in Nodes : PeerPush(n)) \/ (\E e \in news : NewsArrives(e))
  BY Steps, Frames DEF vars
<1> QED BY <1>5, <1>6, <1>7, <1>8, <1>9, <1>10, <1>11

\* A sync holds nothing, the copy of a chain, or a page of one.
LEMMA AnswersBeginStep ==
  ASSUME TypeOK, [Next]_vars, NEW s \in Nodes, Seed(s), Heard(s)
  PROVE  AnswersBegin(s)' /\ SeedIdle(s)'
<1>1. chain \in [Nodes -> Chains] /\ chain[s] \in Chains
  BY ChainTypes
<1>2. \A n \in Nodes : IsPrefix(chain[n], chain[s])
  BY DEF Heard, ChainsBegin
<1>3. \A n \in Nodes : \A t \in Threads :
        /\ sync[n][t] \in Syncs /\ sync[n][t].seen \in Chains
        /\ IsPrefix(sync[n][t].seen, chain[s])
  BY ChainTypes DEF Heard, AnswersBegin
<1>4. sync \in [Nodes -> [Threads -> Syncs]]
  BY TypeParts DEF SyncsOK
<1>5. <<>> \in Chains /\ IsPrefix(<<>>, chain[s])
  BY <1>1, PrefixEmpty
<1>6. ASSUME NEW n \in Nodes \ {s}, NEW t \in Threads, NEW w,
             w.seen \in Chains, IsPrefix(w.seen, chain[s]), SetSync(n, t, w)
      PROVE  AnswersBegin(s)' /\ SeedIdle(s)'
  <2>1. sync' = [sync EXCEPT ![n] = [sync[n] EXCEPT ![t] = w]]
    BY <1>6 DEF SetSync
  <2>2. ASSUME NEW o \in Nodes, NEW u \in Threads PROVE IsPrefix(sync'[o][u].seen, chain'[s])
    <3>1. sync'[o][u] = w \/ sync'[o][u] = sync[o][u]
      BY <1>4, <2>1
    <3> QED BY <1>3, <1>6, <3>1, StillBegins
  <2>3. sync'[s] = sync[s]
    BY <1>4, <2>1
  <2> QED BY <2>2, <2>3 DEF AnswersBegin, Heard, SeedIdle
<1>7. ASSUME UNCHANGED sync PROVE AnswersBegin(s)' /\ SeedIdle(s)'
  <2>1. \A o \in Nodes : \A u \in Threads : IsPrefix(sync'[o][u].seen, chain'[s])
    BY <1>3, <1>7, StillBegins
  <2> QED BY <1>7, <2>1 DEF AnswersBegin, Heard, SeedIdle
<1>8. ASSUME NEW n \in Nodes, NEW t \in Threads, sync[n][t].at # "idle" PROVE n # s
  BY <1>8 DEF Heard, SeedIdle
<1>9. ASSUME NEW n \in Nodes, NEW t \in Threads, StartSync(n, t)
      PROVE  AnswersBegin(s)' /\ SeedIdle(s)'
  <2>1. CASE UNCHANGED sync
    BY <2>1, <1>7
  <2>2. CASE ~UNCHANGED sync
    <3>1. PICK p \in Peers[n] \ cooling[n] :
            SetSync(n, t, [AtRest EXCEPT !.at = "ask",
                                         !.left = (Peers[n] \ cooling[n]) \ {p}, !.peer = p])
      BY <1>9, <2>2 DEF StartSync
    <3> DEFINE w == [AtRest EXCEPT !.at = "ask",
                                   !.left = (Peers[n] \ cooling[n]) \ {p}, !.peer = p]
    <3>2. n # s
      BY <3>1 DEF Seed
    <3>3. w.seen = <<>> /\ SetSync(n, t, w)
      BY <3>1 DEF AtRest
    <3> HIDE DEF w
    <3> QED BY <1>5, <1>6, <3>2, <3>3
  <2> QED BY <2>1, <2>2
<1>10. ASSUME NEW n \in Nodes, NEW t \in Threads, SendLocator(n, t)
       PROVE  AnswersBegin(s)' /\ SeedIdle(s)'
  <2> DEFINE w == [sync[n][t] EXCEPT !.at = "asked", !.seen = chain[n]]
  <2>1. n # s /\ SetSync(n, t, w)
    BY <1>8, <1>10 DEF SendLocator, SyncAt
  <2>2. w.seen = chain[n]
    BY <1>3 DEF Syncs
  <2>3. w.seen \in Chains /\ IsPrefix(w.seen, chain[s])
    BY <1>1, <1>2, <2>2
  <2> HIDE DEF w
  <2> QED BY <1>6, <2>1, <2>3
<1>11. ASSUME NEW n \in Nodes, NEW t \in Threads, AnswerSync(n, t)
       PROVE  AnswersBegin(s)' /\ SeedIdle(s)'
  <2> DEFINE v == sync[n][t]
             its == chain[v.peer]
             match == Matched(v.seen, its)
             page == SubSeq(its, 1, Least({Len(its), match + PageLimit}))
             w == [v EXCEPT !.at = "answered", !.seen = page, !.start = match,
                            !.forked = match = 0 /\ v.seen # <<>>]
  <2>1. SetSync(n, t, w) /\ v.at = "asked"
    BY <1>11 DEF AnswerSync, SyncAt
  <2>2. n # s
    BY <1>8, <2>1
  <2>3. v.peer \in Nodes
    BY <2>1, TypeParts DEF SyncsOK, SyncOK
  <2>4. its \in Chains /\ IsPrefix(its, chain[s])
    BY <1>1, <1>2, <2>3
  <2>5. v.seen \in Chains /\ v \in Syncs
    BY <1>3
  <2>6. page \in Chains /\ IsPrefix(page, its)
    BY <2>4, <2>5, AnswerBounds
  <2>7. w.seen = page
    <3> HIDE DEF page, match, its, v
    <3> QED BY <2>5 DEF Syncs
  <2> HIDE DEF page, match, its, w
  <2>8. w.seen \in Chains /\ IsPrefix(w.seen, chain[s])
    BY <1>1, <2>4, <2>6, <2>7, PrefixTrans
  <2>9. SetSync(n, t, w)
    BY <2>1
  <2> QED BY <1>6, <2>2, <2>8, <2>9
<1>12. ASSUME NEW n \in Nodes, NEW t \in Threads, NEW w, sync[n][t].at # "idle",
              w.seen = sync[n][t].seen \/ w.seen = <<>>, SetSync(n, t, w)
       PROVE  AnswersBegin(s)' /\ SeedIdle(s)'
  <2>1. n # s
    BY <1>8, <1>12
  <2>2. w.seen \in Chains /\ IsPrefix(w.seen, chain[s])
    BY <1>3, <1>5, <1>12
  <2> QED BY <1>6, <1>12, <2>1, <2>2
<1>13. ASSUME NEW n \in Nodes, NEW t \in Threads,
              \/ TakeForkAnswer(n, t) \/ TakeAnswer(n, t) \/ FinishSync(n, t)
              \/ SyncRequestFails(n, t) \/ PeerSaveFails(n, t)
       PROVE  AnswersBegin(s)' /\ SeedIdle(s)'
  <2>1. sync[n][t].at # "idle"
    BY <1>13 DEF TakeForkAnswer, TakeAnswer, FinishSync, SyncRequestFails, PeerSaveFails, SyncAt
  <2>2. ASSUME TakeForkAnswer(n, t)
        PROVE  \E w : (w.seen = sync[n][t].seen \/ w.seen = <<>>) /\ SetSync(n, t, w)
    BY <1>3, <2>2 DEF TakeForkAnswer, Syncs
  <2>3. ASSUME TakeAnswer(n, t)
        PROVE  \E w : (w.seen = sync[n][t].seen \/ w.seen = <<>>) /\ SetSync(n, t, w)
    <3>1. \/ SetSync(n, t, [sync[n][t] EXCEPT !.at = "settle", !.result = "ok"])
          \/ SetSync(n, t, [sync[n][t] EXCEPT !.at = "ask", !.rounds = @ + 1])
          \/ SetSync(n, t, [sync[n][t] EXCEPT !.at = "settle", !.result = "error"])
      BY <2>3 DEF TakeAnswer
    <3> DEFINE v == sync[n][t]
               done == [v EXCEPT !.at = "settle", !.result = "ok"]
               more == [v EXCEPT !.at = "ask", !.rounds = @ + 1]
               bad == [v EXCEPT !.at = "settle", !.result = "error"]
    <3>2. done.seen = v.seen /\ more.seen = v.seen /\ bad.seen = v.seen
      <4>1. v \in Syncs
        BY <1>3
      <4> HIDE DEF v
      <4> QED BY <4>1 DEF Syncs
    <3>3. SetSync(n, t, done) \/ SetSync(n, t, more) \/ SetSync(n, t, bad)
      BY <3>1
    <3> HIDE DEF done, more, bad
    <3> QED BY <3>2, <3>3
  <2>4. ASSUME FinishSync(n, t)
        PROVE  \E w : (w.seen = sync[n][t].seen \/ w.seen = <<>>) /\ SetSync(n, t, w)
    <3>1. SetSync(n, t, AtRest) \/ \E p \in sync[n][t].left :
            SetSync(n, t, [AtRest EXCEPT !.at = "ask", !.left = sync[n][t].left \ {p},
                                         !.peer = p])
      BY <2>4 DEF FinishSync
    <3> QED BY <3>1 DEF AtRest
  <2>5. ASSUME SyncRequestFails(n, t)
        PROVE  \E w : (w.seen = sync[n][t].seen \/ w.seen = <<>>) /\ SetSync(n, t, w)
    BY <1>3, <2>5 DEF SyncRequestFails, Syncs
  <2>6. ASSUME PeerSaveFails(n, t)
        PROVE  \E w : (w.seen = sync[n][t].seen \/ w.seen = <<>>) /\ SetSync(n, t, w)
    BY <2>6 DEF PeerSaveFails, AtRest
  <2> QED BY <1>12, <1>13, <2>1, <2>2, <2>3, <2>4, <2>5, <2>6
<1>14. ASSUME NEW n \in Nodes, Restart(n) PROVE AnswersBegin(s)' /\ SeedIdle(s)'
  <2>1. sync' = [sync EXCEPT ![n] = [t \in Threads |-> AtRest]]
    BY <1>14 DEF Restart
  <2>2. AtRest.seen = <<>> /\ AtRest.at = "idle"
    BY DEF AtRest
  <2>3. ASSUME NEW o \in Nodes, NEW u \in Threads PROVE IsPrefix(sync'[o][u].seen, chain'[s])
    <3>1. sync'[o][u] = AtRest \/ sync'[o][u] = sync[o][u]
      BY <1>4, <2>1
    <3> QED BY <1>3, <1>5, <2>2, <3>1, StillBegins
  <2>4. \A u \in Threads : sync'[s][u] = AtRest \/ sync'[s][u] = sync[s][u]
    BY <1>4, <2>1
  <2> QED BY <2>2, <2>3, <2>4 DEF AnswersBegin, Heard, SeedIdle
<1>15. UNCHANGED sync
       \/ (\E n \in Nodes, t \in Threads :
             \/ StartSync(n, t) \/ SendLocator(n, t) \/ AnswerSync(n, t)
             \/ TakeForkAnswer(n, t) \/ TakeAnswer(n, t) \/ FinishSync(n, t)
             \/ SyncRequestFails(n, t) \/ PeerSaveFails(n, t))
       \/ (\E n \in Nodes : Restart(n))
  BY Steps, Frames DEF vars
<1> QED BY <1>7, <1>9, <1>10, <1>11, <1>13, <1>14, <1>15

\* A push holds nothing or a batch of its sender's chain, and is for no seed.
LEMMA PushesBeginStep ==
  ASSUME TypeOK, [Next]_vars, NEW s \in Nodes, Seed(s), Heard(s)
  PROVE  PushesBegin(s)'
<1>1. chain \in [Nodes -> Chains] /\ chain[s] \in Chains
  BY ChainTypes
<1>2. \A n \in Nodes : /\ pushing[n].to # s /\ pushing[n].from \in Chains
                       /\ IsPrefix(pushing[n].from, chain[s])
  BY ChainTypes DEF Heard, PushesBegin
<1>3. pushing \in [Nodes -> Pushed]
  BY TypeParts DEF PushesOK
<1>4. ASSUME NEW n \in Nodes, NEW p, p.to # s, p.from \in Chains, IsPrefix(p.from, chain[s]),
             pushing' = [pushing EXCEPT ![n] = p]
      PROVE  PushesBegin(s)'
  <2>1. ASSUME NEW o \in Nodes
        PROVE  pushing'[o].to # s /\ IsPrefix(pushing'[o].from, chain'[s])
    <3>1. pushing'[o] = p \/ pushing'[o] = pushing[o]
      BY <1>3, <1>4
    <3> QED BY <1>2, <1>4, <3>1, StillBegins
  <2> QED BY <2>1 DEF PushesBegin
<1>5. ASSUME UNCHANGED pushing PROVE PushesBegin(s)'
  <2>1. \A o \in Nodes : pushing'[o].to # s /\ IsPrefix(pushing'[o].from, chain'[s])
    BY <1>2, <1>5, StillBegins
  <2> QED BY <2>1 DEF PushesBegin
<1>6. ASSUME NEW n \in Nodes, NEW p \in Nodes, PushBatch(n, p) PROVE PushesBegin(s)'
  <2> DEFINE c == chain[n]
             last == Least({Len(c), pushed[n][p] + BatchSize})
             batch == SubSeq(c, 1, last)
             push == [to |-> p, start |-> pushed[n][p], from |-> batch]
  <2>1. pushing' = [pushing EXCEPT ![n] = push] /\ p \in PushPeers[n]
    BY <1>6 DEF PushBatch
  <2>2. pushed[n][p] < Len(c)
    BY <1>6 DEF PushBatch
  <2>3. p # s
    BY <2>1 DEF Seed
  <2>4. c \in Chains /\ IsPrefix(c, chain[s])
    BY <1>1 DEF Heard, ChainsBegin
  <2>5. pushed[n][p] \in Nat /\ BatchSize \in Nat /\ Len(c) \in Nat
    BY <2>4, TypeParts, SyncAssumption DEF OthersOK, Chains
  <2>6. last \in 0..Len(c)
    BY <2>2, <2>4, <2>5, PageBounds
  <2> HIDE DEF last, c
  <2>7. batch \in Chains /\ IsPrefix(batch, c)
    BY <2>4, <2>6, PrefixCut
  <2> HIDE DEF batch
  <2>8. batch \in Chains /\ IsPrefix(batch, chain[s])
    BY <1>1, <2>4, <2>7, PrefixTrans
  <2>9. push.to = p /\ push.from = batch
    OBVIOUS
  <2> HIDE DEF push
  <2> QED BY <1>4, <2>1, <2>3, <2>8, <2>9
<1>7. ASSUME NEW n \in Nodes, PeerPush(n) \/ PushFails(n) \/ Restart(n) PROVE PushesBegin(s)'
  <2>1. pushing' = [pushing EXCEPT ![n] = NoPush]
    BY <1>7 DEF PeerPush, PushFails, Restart
  <2>2. NoPush.to # s /\ NoPush.from = <<>>
    BY SyncAssumption DEF NoPush
  <2>3. NoPush.from \in Chains /\ IsPrefix(NoPush.from, chain[s])
    BY <1>1, <2>2, PrefixEmpty
  <2> QED BY <1>4, <2>1, <2>2, <2>3
<1>8. UNCHANGED pushing \/ (\E n, p \in Nodes : PushBatch(n, p))
      \/ (\E n \in Nodes : PeerPush(n) \/ PushFails(n) \/ Restart(n))
  BY Steps, Frames DEF vars, pushes
<1> QED BY <1>5, <1>6, <1>7, <1>8

\* A single event is sent with the chain it was appended to, and to no seed.
LEMMA NewsBeginsStep ==
  ASSUME TypeOK, [Next]_vars, NEW s \in Nodes, Seed(s), Heard(s)
  PROVE  NewsBegins(s)'
<1>1. \A e \in news : e.to # s /\ e.from \in Chains /\ IsPrefix(e.from, chain[s])
  BY ChainTypes DEF Heard, NewsBegins
<1>2. ASSUME news' \subseteq news PROVE NewsBegins(s)'
  <2>1. \A e \in news' : e.to # s /\ IsPrefix(e.from, chain'[s])
    BY <1>1, <1>2, StillBegins
  <2> QED BY <2>1 DEF NewsBegins
<1>3. ASSUME NEW m \in Messages, AppendEvent(m) PROVE NewsBegins(s)'
  <2> DEFINE longer == Append(chain[s], m)
  <2>1. Author[m] = s
    BY DEF Seed
  <2>2. chain'[s] = longer
    BY <1>3, <2>1, ChainTypes DEF AppendEvent
  <2>3. news' = news \cup {[to |-> p, from |-> longer] : p \in PushPeers[s]}
    BY <1>3, <2>1 DEF AppendEvent
  <2>4. chain'[s] \in Chains
    BY SeedGrows
  <2>5. IsPrefix(longer, chain'[s])
    BY <2>2, <2>4, PrefixSelf
  <2>6. s \notin PushPeers[s]
    BY DEF Seed
  <2> HIDE DEF longer
  <2>7. ASSUME NEW e \in news' PROVE e.to # s /\ IsPrefix(e.from, chain'[s])
    <3>1. CASE e \in news
      BY <1>1, <3>1, StillBegins
    <3>2. CASE e \notin news
      <4>1. PICK p \in PushPeers[s] : e = [to |-> p, from |-> longer]
        BY <2>3, <3>2
      <4> QED BY <2>5, <2>6, <4>1
    <3> QED BY <3>1, <3>2
  <2> QED BY <2>7 DEF NewsBegins
<1>4. news' \subseteq news \/ (\E m \in Messages : AppendEvent(m))
  <2>1. UNCHANGED news \/ (\E m \in Messages : AppendEvent(m))
        \/ (\E e \in news : NewsArrives(e) \/ NewsLost(e))
    BY Steps, Frames DEF vars, pushes
  <2>2. ASSUME NEW e \in news, NewsArrives(e) \/ NewsLost(e) PROVE news' \subseteq news
    BY <2>2 DEF NewsArrives, NewsLost
  <2> QED BY <2>1, <2>2
<1> QED BY <1>2, <1>3, <1>4

LEMMA NetStep == TypeOK /\ NetInv /\ [Next]_vars => NetInv'
<1> SUFFICES ASSUME TypeOK, NetInv, [Next]_vars PROVE NetInv'
  OBVIOUS
<1>1. ASSUME NEW s \in Nodes, Seed(s) PROVE Heard(s)'
  <2>1. Heard(s)
    BY <1>1 DEF NetInv
  <2>2. ChainsBegin(s)'
    BY <1>1, <2>1, ChainsBeginStep
  <2>3. AnswersBegin(s)' /\ SeedIdle(s)'
    BY <1>1, <2>1, AnswersBeginStep
  <2>4. PushesBegin(s)' /\ NewsBegins(s)'
    BY <1>1, <2>1, PushesBeginStep, NewsBeginsStep
  <2> QED BY <2>2, <2>3, <2>4 DEF Heard
<1> QED BY <1>1 DEF NetInv

\* Nodes that hear of one author's events, directly or from each other, hold the
\* beginning of that author's chain, whatever is lost, late, repeated or reset.
THEOREM FollowersCorrect == Spec => []FollowersAgree
<1>1. Init => TypeOK /\ NetInv
  BY TypeInit, HeardInit
<1>2. TypeOK /\ NetInv /\ [Next]_vars => (TypeOK /\ NetInv)'
  BY TypeStep, NetStep
<1>3. NetInv => FollowersAgree
  BY DEF NetInv, Heard, ChainsBegin, FollowersAgree
<1> QED BY <1>1, <1>2, <1>3, PTL DEF Spec

-----------------------------------------------------------------------------
(***************************************************************************)
(* History.  Every way to change a chain but one extends it; the one that  *)
(* does not is a fork answer to a small chain, and no fork answer reaches  *)
(* a node that asks nobody, whose sync threads never leave "idle".         *)
(***************************************************************************)
AskersOnly == \A n \in Nodes : Peers[n] = {} => SeedIdle(n)

\* An ingest extends the chain or leaves it as it is.
LEMMA IngestGrows ==
  ASSUME NEW c \in Chains, NEW from \in Chains, NEW start, NEW altered
  PROVE  IsPrefix(c, Ingested(c, from, start, altered))
<1> DEFINE fit(k) == \A i \in (Len(c) + 1)..k :
                       /\ from[i] \notin old \cup altered
                       /\ Fresh(from[i], SubSeq(from, 1, i - 1))
           S == {k \in Len(c)..Len(from) : fit(k)}
<1>1. Len(c) \in Nat /\ Len(from) \in Nat
  BY DEF Chains
<1>2. CASE IsPrefix(c, from) /\ Len(c) >= start
  <2>1. Len(c) <= Len(from)
    BY <1>2 DEF IsPrefix
  <2>2. fit(Len(c))
    BY <1>1
  <2>3. Len(c) \in S
    BY <1>1, <2>1, <2>2
  <2>4. S \in SUBSET (0..Len(from)) /\ S # {}
    BY <1>1, <2>3
  <2>5. Largest(S) \in 0..Len(from) /\ Largest(S) >= Len(c)
    BY <1>1, <2>3, <2>4, LargestMember
  <2>6. Ingested(c, from, start, altered) = SubSeq(from, 1, Largest(S))
    BY <1>2 DEF Ingested
  <2> DEFINE k == Largest(S)
             d == SubSeq(from, 1, k)
  <2>7. d \in Chains /\ Len(d) = k /\ IsPrefix(d, from)
    <3> HIDE DEF k
    <3> QED BY <2>5, PrefixCut DEF k
  <2>8. \A i \in 1..Len(c) : c[i] = from[i]
    BY <1>2, PrefixPoints
  <2>9. k \in Nat /\ Len(c) <= k
    BY <2>5, <1>1
  <2> HIDE DEF S, k, d
  <2>10. \A i \in 1..k : d[i] = from[i]
    BY <2>7, PrefixPoints
  <2>11. Len(c) <= Len(d) /\ \A i \in 1..Len(c) : c[i] = d[i]
    BY <1>1, <2>7, <2>8, <2>9, <2>10
  <2>12. IsPrefix(c, d)
    BY <2>7, <2>11, PrefixPoints
  <2> QED BY <2>6, <2>12 DEF k, d, S
<1>3. CASE ~(IsPrefix(c, from) /\ Len(c) >= start)
  BY <1>3, PrefixSelf DEF Ingested
<1> QED BY <1>2, <1>3

LEMMA AskersInit == Init => AskersOnly
BY DEF Init, AskersOnly, SeedIdle, AtRest

\* A step of a cycle sets the state of one thread; the first needs a peer.
LEMMA StartSets ==
  ASSUME NEW n \in Nodes, NEW t \in Threads, StartSync(n, t)
  PROVE  UNCHANGED sync \/ (Peers[n] # {} /\ \E w : SetSync(n, t, w))
<1>1. CASE UNCHANGED sync
  BY <1>1
<1>2. CASE ~UNCHANGED sync
  <2>1. PICK p \in Peers[n] \ cooling[n] :
          SetSync(n, t, [AtRest EXCEPT !.at = "ask",
                                       !.left = (Peers[n] \ cooling[n]) \ {p}, !.peer = p])
    BY <1>2, Zenon DEF StartSync
  <2> QED BY <2>1
<1> QED BY <1>1, <1>2

LEMMA FinishSets ==
  ASSUME NEW n \in Nodes, NEW t \in Threads, FinishSync(n, t)
  PROVE  sync[n][t].at # "idle" /\ \E w : SetSync(n, t, w)
<1>1. sync[n][t].at # "idle"
  BY Zenon DEF FinishSync, SyncAt
<1>2. \E w : SetSync(n, t, w)
  BY Zenon DEF FinishSync
<1> QED BY <1>1, <1>2

\* A sync thread leaves "idle" only for a peer of its node.
LEMMA AskersStep == TypeOK /\ AskersOnly /\ [Next]_vars => AskersOnly'
<1> SUFFICES ASSUME TypeOK, AskersOnly, [Next]_vars,
                    NEW n \in Nodes, Peers[n] = {}, NEW v \in Threads
             PROVE  sync'[n][v].at = "idle"
  BY DEF AskersOnly, SeedIdle
<1>1. sync \in [Nodes -> [Threads -> Syncs]] /\ \A t \in Threads : sync[n][t].at = "idle"
  BY DEF TypeOK, AskersOnly, SeedIdle
<1>2. ASSUME sync'[n] = sync[n] PROVE sync'[n][v].at = "idle"
  BY <1>1, <1>2
<1>3. \A k, t, w : SetSync(k, t, w) /\ k # n => sync'[n] = sync[n]
  BY <1>1 DEF SetSync
<1>4. ASSUME NEW k \in Nodes, NEW t \in Threads, StartSync(k, t)
      PROVE  sync'[n] = sync[n]
  <2>1. CASE k = n
    <3>1. Peers[k] \ cooling[k] = {}
      BY <2>1
    <3> QED BY <1>4, <3>1 DEF StartSync
  <2>2. CASE k # n
    BY <1>3, <1>4, <2>2, StartSets
  <2> QED BY <2>1, <2>2
<1>5. ASSUME NEW k \in Nodes, NEW t \in Threads,
             \/ SendLocator(k, t) \/ AnswerSync(k, t) \/ TakeForkAnswer(k, t)
             \/ TakeAnswer(k, t) \/ FinishSync(k, t)
             \/ SyncRequestFails(k, t) \/ PeerSaveFails(k, t)
      PROVE  sync'[n] = sync[n]
  <2>1. SendLocator(k, t) => sync[k][t].at # "idle" /\ (k # n => sync'[n] = sync[n])
    BY <1>3 DEF SendLocator, SyncAt
  <2>2. AnswerSync(k, t) => sync[k][t].at # "idle" /\ (k # n => sync'[n] = sync[n])
    BY <1>3 DEF AnswerSync, SyncAt
  <2>3. TakeForkAnswer(k, t) => sync[k][t].at # "idle" /\ (k # n => sync'[n] = sync[n])
    BY <1>3 DEF TakeForkAnswer, SyncAt
  <2>4. TakeAnswer(k, t) => sync[k][t].at # "idle" /\ (k # n => sync'[n] = sync[n])
    BY <1>3 DEF TakeAnswer, SyncAt
  <2>5. FinishSync(k, t) => sync[k][t].at # "idle" /\ (k # n => sync'[n] = sync[n])
    BY <1>3, FinishSets
  <2>6. SyncRequestFails(k, t) => sync[k][t].at # "idle" /\ (k # n => sync'[n] = sync[n])
    BY <1>3 DEF SyncRequestFails, SyncAt
  <2>7. PeerSaveFails(k, t) => sync[k][t].at # "idle" /\ (k # n => sync'[n] = sync[n])
    BY <1>3 DEF PeerSaveFails, SyncAt
  <2>8. sync[k][t].at # "idle" /\ (k # n => sync'[n] = sync[n])
    BY <1>5, <2>1, <2>2, <2>3, <2>4, <2>5, <2>6, <2>7
  <2>9. k # n
    BY <1>1, <2>8
  <2> QED BY <2>8, <2>9
<1>6. ASSUME NEW k \in Nodes, Restart(k) PROVE sync'[n][v].at = "idle"
  BY <1>1, <1>6 DEF Restart, AtRest
<1>7. \/ UNCHANGED sync
      \/ \E k \in Nodes, t \in Threads :
           \/ StartSync(k, t) \/ SendLocator(k, t) \/ AnswerSync(k, t)
           \/ TakeForkAnswer(k, t) \/ TakeAnswer(k, t) \/ FinishSync(k, t)
           \/ SyncRequestFails(k, t) \/ PeerSaveFails(k, t)
      \/ \E k \in Nodes : Restart(k)
  BY Steps, Frames DEF vars
<1> QED BY <1>2, <1>4, <1>5, <1>6, <1>7

\* What a step may do to a node's chain.
LEMMA ChainGrows ==
  ASSUME TypeOK, [Next]_vars, NEW n \in Nodes
  PROVE  \/ IsPrefix(chain[n], chain'[n])
         \/ /\ Len(chain[n]) < SmallChain
            /\ \E t \in Threads : SyncAt(n, t, "answered") /\ sync[n][t].forked
<1>1. chain \in [Nodes -> Chains] /\ chain[n] \in Chains
  BY ChainTypes
<1> DEFINE Grows == IsPrefix(chain[n], chain'[n])
<1>2. ASSUME chain'[n] = chain[n] PROVE Grows
  BY <1>1, <1>2, PrefixSelf
<1>3. ASSUME NEW k \in Nodes, NEW from \in Chains, NEW start, NEW altered,
             chain' = [chain EXCEPT ![k] = Ingested(chain[k], from, start, altered)]
      PROVE  Grows
  <2>1. CASE k = n
    <3>1. chain'[n] = Ingested(chain[n], from, start, altered)
      BY <1>1, <1>3, <2>1
    <3> QED BY <1>1, <3>1, IngestGrows
  <2>2. CASE k # n
    BY <1>1, <1>2, <1>3, <2>2
  <2> QED BY <2>1, <2>2
<1>4. ASSUME NEW m \in Messages, AppendEvent(m) PROVE Grows
  <2>1. chain' = [chain EXCEPT ![Author[m]] = Append(chain[Author[m]], m)]
    BY <1>4 DEF AppendEvent
  <2>2. CASE Author[m] = n
    <3>1. chain'[n] = Append(chain[n], m)
      BY <1>1, <2>1, <2>2
    <3> QED BY <1>1, <3>1, PrefixAppend
  <2>3. CASE Author[m] # n
    BY <1>1, <1>2, <2>1, <2>3
  <2> QED BY <2>2, <2>3
<1>5. ASSUME NEW k \in Nodes, NEW t \in Threads, TakeForkAnswer(k, t)
      PROVE  \/ Grows
             \/ /\ Len(chain[n]) < SmallChain
                /\ \E u \in Threads : SyncAt(n, u, "answered") /\ sync[n][u].forked
  <2>1. CASE k = n
    <3>1. SyncAt(n, t, "answered") /\ sync[n][t].forked
      BY <1>5, <2>1 DEF TakeForkAnswer
    <3>2. CASE Len(chain[n]) < SmallChain
      BY <3>1, <3>2
    <3>3. CASE ~(Len(chain[n]) < SmallChain)
      BY <1>2, <1>5, <2>1, <3>3 DEF TakeForkAnswer
    <3> QED BY <3>2, <3>3
  <2>2. CASE k # n
    BY <1>1, <1>2, <1>5, <2>2 DEF TakeForkAnswer
  <2> QED BY <2>1, <2>2
<1>6. ASSUME NEW k \in Nodes, NEW t \in Threads, TakeAnswer(k, t) PROVE Grows
  <2>1. sync[k][t].seen \in Chains
    BY ChainTypes
  <2>2. chain' = [chain EXCEPT ![k] =
                    Ingested(chain[k], sync[k][t].seen, sync[k][t].start, Redacted)]
    BY <1>6 DEF TakeAnswer
  <2> QED BY <1>3, <2>1, <2>2
<1>7. ASSUME NEW k \in Nodes, PeerPush(k) PROVE Grows
  <2> DEFINE push == pushing[k]
  <2>1. push.from \in Chains
    BY ChainTypes
  <2>2. chain' = [chain EXCEPT ![push.to] =
                    Ingested(chain[push.to], push.from, push.start, {})]
    BY <1>7 DEF PeerPush
  <2>3. CASE push.to \in Nodes
    BY <1>3, <2>1, <2>2, <2>3
  <2>4. CASE push.to \notin Nodes
    BY <1>1, <1>2, <2>2, <2>4
  <2> QED BY <2>3, <2>4
<1>8. ASSUME NEW e \in news, NewsArrives(e) PROVE Grows
  <2>1. e.to \in Nodes /\ e.from \in Chains
    BY ChainTypes
  <2>2. chain' = [chain EXCEPT ![e.to] =
                    Ingested(chain[e.to], e.from, Len(e.from) - 1, {})]
    BY <1>8 DEF NewsArrives
  <2> QED BY <1>3, <2>1, <2>2
<1>9. UNCHANGED chain \/ (\E m \in Messages : AppendEvent(m))
      \/ (\E k \in Nodes, t \in Threads : TakeForkAnswer(k, t) \/ TakeAnswer(k, t))
      \/ (\E k \in Nodes : PeerPush(k)) \/ (\E e \in news : NewsArrives(e))
  BY Steps, Frames DEF vars
<1> QED BY <1>2, <1>4, <1>5, <1>6, <1>7, <1>8, <1>9

\* A node that asks nobody, or whose chain has reached the size a fork may reset,
\* only ever adds to its chain, in any network and whatever crosses or fails.
THEOREM HistoryCorrect == Spec => HistoryKept
<1>1. TypeOK /\ AskersOnly /\ [Next]_vars
        => [\A n \in Nodes : Peers[n] = {} \/ Len(chain[n]) >= SmallChain
              => IsPrefix(chain[n], chain'[n])]_chain
  <2> SUFFICES ASSUME TypeOK, AskersOnly, [Next]_vars, NEW n \in Nodes,
                      Peers[n] = {} \/ Len(chain[n]) >= SmallChain
               PROVE  IsPrefix(chain[n], chain'[n])
    OBVIOUS
  <2>1. Len(chain[n]) \in Nat /\ SmallChain \in Nat
    BY ChainTypes, SyncAssumption DEF Chains
  <2>2. Peers[n] = {} => \A t \in Threads : sync[n][t].at = "idle"
    BY DEF AskersOnly, SeedIdle
  <2> QED BY <2>1, <2>2, ChainGrows DEF SyncAt
<1>2. Init => TypeOK /\ AskersOnly
  BY TypeInit, AskersInit
<1>3. TypeOK /\ AskersOnly /\ [Next]_vars => (TypeOK /\ AskersOnly)'
  BY TypeStep, AskersStep
<1> QED BY <1>1, <1>2, <1>3, PTL DEF Spec, HistoryKept

-----------------------------------------------------------------------------
(***************************************************************************)
(* What a sync says it took.  A follower that asks a seed only is never    *)
(* told of a fork: its chain begins the seed's, so the locator's last      *)
(* position is matched, and the answer starts where the locator ended.     *)
(* Its chain therefore only grows, and keeps what any of its threads had   *)
(* in mind while the others ran.                                           *)
(***************************************************************************)
Follows(n, s) == Seed(s) /\ Peers[n] = {s}

\* What holds of a sync w of a follower of s whose chain is c.
Taken(s, c, w) ==
  /\ w.left \subseteq {s}
  /\ w.at # "idle" => w.peer = s
  /\ w.at = "asked" => IsPrefix(w.seen, c)
  /\ w.at = "answered" => ~w.forked /\ IsPrefix(SubSeq(w.seen, 1, w.start), c)
  /\ w.at = "settle" /\ w.result = "ok" => IsPrefix(w.seen, c)

TakenInv ==
  \A s, n \in Nodes : Follows(n, s) => \A t \in Threads : Taken(s, chain[n], sync[n][t])

\* A locator of a chain that begins the peer's is matched at its last position.
LEMMA MatchedWhole ==
  ASSUME NEW c \in Chains, NEW d \in Chains, IsPrefix(c, d)
  PROVE  Matched(c, d) = Len(c)
<1> DEFINE S == {i \in LocatorPositions(Len(c)) : IsPrefix(SubSeq(c, 1, i), d)}
<1>1. Len(c) \in Nat
  BY DEF Chains
<1>2. {0} \cup S \in SUBSET (0..Len(c)) /\ {0} \cup S # {}
  BY <1>1 DEF LocatorPositions
<1>3. Len(c) \in {0} \cup S
  <2>1. CASE Len(c) = 0
    BY <2>1
  <2>2. CASE Len(c) # 0
    <3>1. Len(c) - Len(c) <= Dense
      BY <1>1, SyncAssumption
    <3>2. Len(c) \in LocatorPositions(Len(c))
      BY <1>1, <2>2, <3>1 DEF LocatorPositions
    <3>3. SubSeq(c, 1, Len(c)) = c
      BY SubSeqFull DEF Chains
    <3> QED BY <3>2, <3>3
  <2> QED BY <2>1, <2>2
<1>4. Matched(c, d) = Largest({0} \cup S)
  BY DEF Matched
<1> HIDE DEF S
<1>5. Largest({0} \cup S) \in {0} \cup S
      /\ \A y \in {0} \cup S : Largest({0} \cup S) >= y
  BY <1>1, <1>2, LargestMember
<1>6. Largest({0} \cup S) >= Len(c) /\ Largest({0} \cup S) \in 0..Len(c)
  BY <1>2, <1>3, <1>5
<1> QED BY <1>1, <1>4, <1>6

\* What a thread took stays taken as the chain grows.
LEMMA TakenGrows ==
  ASSUME NEW s, NEW c \in Chains, NEW d \in Chains, IsPrefix(c, d),
         NEW w, SyncOK(w), Taken(s, c, w)
  PROVE  Taken(s, d, w)
<1>1. w.seen \in Chains /\ w.start \in Nat
  BY DEF SyncOK, Syncs
<1>2. w.at = "asked" => IsPrefix(w.seen, d)
  BY <1>1, PrefixTrans DEF Taken
<1>3. w.at = "settle" /\ w.result = "ok" => IsPrefix(w.seen, d)
  BY <1>1, PrefixTrans DEF Taken
<1>4. ASSUME w.at = "answered" PROVE IsPrefix(SubSeq(w.seen, 1, w.start), d)
  <2>1. w.start \in 0..Len(w.seen)
    BY <1>1, <1>4 DEF SyncOK, Chains
  <2>2. SubSeq(w.seen, 1, w.start) \in Chains
    BY <1>1, <2>1, PrefixCut
  <2>3. IsPrefix(SubSeq(w.seen, 1, w.start), c)
    BY <1>4 DEF Taken
  <2> QED BY <2>2, <2>3, PrefixTrans
<1> QED BY <1>2, <1>3, <1>4 DEF Taken

LEMMA TakenInit == Init => TakenInv
BY DEF Init, TakenInv, Taken, AtRest

\* A follower's chain only grows.
LEMMA FollowerGrows ==
  ASSUME TypeOK, TakenInv, [Next]_vars, NEW s \in Nodes, NEW n \in Nodes, Follows(n, s)
  PROVE  chain[n] \in Chains /\ chain'[n] \in Chains /\ IsPrefix(chain[n], chain'[n])
<1>1. \A t \in Threads : ~(SyncAt(n, t, "answered") /\ sync[n][t].forked)
  BY DEF TakenInv, Taken, SyncAt
<1>2. TypeOK'
  BY TypeStep
<1>3. chain \in [Nodes -> Chains] /\ chain' \in [Nodes -> Chains]
  BY <1>2 DEF TypeOK
<1> QED BY <1>1, <1>3, ChainGrows

\* An answer to a locator that begins the peer's chain is no fork and starts where the
\* locator ended.
LEMMA WholeAnswer ==
  ASSUME NEW c \in Chains, NEW d \in Chains, IsPrefix(c, d)
  PROVE  LET match == Matched(c, d)
             page == SubSeq(d, 1, Least({Len(d), match + PageLimit}))
         IN  ~(match = 0 /\ c # <<>>) /\ SubSeq(page, 1, match) = c
<1> DEFINE match == Matched(c, d)
           page == SubSeq(d, 1, Least({Len(d), match + PageLimit}))
<1>1. match = Len(c) /\ match \in Nat
  BY MatchedWhole DEF Chains
<1>2. page \in Chains /\ match \in 0..Len(page) /\ IsPrefix(page, d)
  BY AnswerBounds
<1> HIDE DEF match, page
<1>3. match = 0 => c = <<>>
  BY <1>1, EmptySeq DEF Chains
<1> DEFINE e == SubSeq(page, 1, match)
<1>4. e \in Chains /\ Len(e) = match /\ IsPrefix(e, page)
  BY <1>2, PrefixCut
<1> HIDE DEF e
<1>5. IsPrefix(e, d)
  BY <1>2, <1>4, PrefixTrans
<1>6. \A i \in 1..match : e[i] = d[i] /\ c[i] = d[i]
  BY <1>1, <1>4, <1>5, PrefixPoints
<1>7. e = c
  <2>1. e \in Seq(Messages) /\ c \in Seq(Messages) /\ Len(e) = Len(c)
    BY <1>1, <1>4 DEF Chains
  <2> QED BY <1>1, <1>6, <2>1, SeqEqual
<1> QED BY <1>3, <1>7 DEF match, page, e

\* Setting one thread's sync to one that is taken keeps what the others took.
LEMMA TakenSet ==
  ASSUME TypeOK, TakenInv, [Next]_vars, NEW s \in Nodes, NEW n \in Nodes, Follows(n, s),
         NEW k \in Nodes, NEW t \in Threads, NEW w, SetSync(k, t, w),
         k = n => Taken(s, chain'[n], w)
  PROVE  \A u \in Threads : Taken(s, chain'[n], sync'[n][u])
<1>1. sync \in [Nodes -> [Threads -> Syncs]]
  BY TypeParts DEF SyncsOK
<1>2. sync' = [sync EXCEPT ![k] = [sync[k] EXCEPT ![t] = w]]
  BY DEF SetSync
<1>3. ASSUME NEW u \in Threads PROVE Taken(s, chain'[n], sync[n][u])
  <2>1. SyncOK(sync[n][u])
    BY TypeParts DEF SyncsOK
  <2>2. Taken(s, chain[n], sync[n][u])
    BY DEF TakenInv
  <2> QED BY <2>1, <2>2, FollowerGrows, TakenGrows
<1>4. ASSUME NEW u \in Threads PROVE sync'[n][u] = sync[n][u] \/ (k = n /\ sync'[n][u] = w)
  BY <1>1, <1>2
<1> QED BY <1>3, <1>4

\* A sync at rest, or about to ask the seed, took nothing.
LEMMA TakenRest == \A s, c : Taken(s, c, AtRest)
<1>1. AtRest.at = "idle" /\ AtRest.left = {}
  BY DEF AtRest
<1> QED BY <1>1 DEF Taken

\* A sync about to ask p, with the peers of left after it.
Asking(left, p) == [AtRest EXCEPT !.at = "ask", !.left = left \ {p}, !.peer = p]

LEMMA TakenAtStart ==
  ASSUME NEW s, NEW left, left \subseteq {s}, NEW p \in left
  PROVE  \A c : Taken(s, c, Asking(left, p))
<1>1. /\ Asking(left, p).at = "ask" /\ Asking(left, p).left = left \ {p}
      /\ Asking(left, p).peer = p
  BY DEF AtRest, Asking
<1> QED BY <1>1 DEF Taken

\* What each step of a follower's thread makes of its sync.
LEMMA TakenAnswered ==
  ASSUME TypeOK, NetInv, TakenInv, NEW s \in Nodes, NEW n \in Nodes, Follows(n, s),
         NEW t \in Threads, AnswerSync(n, t)
  PROVE  \E w : SetSync(n, t, w) /\ Taken(s, chain[n], w)
<1> DEFINE v == sync[n][t]
           its == chain[v.peer]
           match == Matched(v.seen, its)
           page == SubSeq(its, 1, Least({Len(its), match + PageLimit}))
           forked == match = 0 /\ v.seen # <<>>
           w == [v EXCEPT !.at = "answered", !.seen = page, !.start = match,
                          !.forked = forked]
<1>1. SetSync(n, t, w) /\ v.at = "asked"
  BY DEF AnswerSync, SyncAt
<1>2. Taken(s, chain[n], v)
  BY DEF TakenInv
<1>3. v.peer = s /\ IsPrefix(v.seen, chain[n]) /\ v.left \subseteq {s}
  BY <1>1, <1>2 DEF Taken
<1>4. v \in Syncs /\ v.seen \in Chains /\ chain[n] \in Chains /\ chain[s] \in Chains
  BY ChainTypes
<1>5. IsPrefix(chain[n], chain[s])
  BY DEF NetInv, Heard, ChainsBegin, Follows
<1>6. IsPrefix(v.seen, its)
  BY <1>3, <1>4, <1>5, PrefixTrans
<1>7. ~forked /\ SubSeq(page, 1, match) = v.seen
  BY <1>3, <1>4, <1>6, WholeAnswer
<1>8. /\ w.at = "answered" /\ w.seen = page /\ w.start = match
      /\ w.forked = forked /\ w.left = v.left /\ w.peer = v.peer
  <2> HIDE DEF page, match, its, v, forked
  <2> QED BY <1>4 DEF Syncs
<1> HIDE DEF page, match, its, v, forked, w
<1>9. Taken(s, chain[n], w)
  BY <1>3, <1>7, <1>8 DEF Taken
<1> QED BY <1>1, <1>9

LEMMA TakenSent ==
  ASSUME TypeOK, TakenInv, NEW s \in Nodes, NEW n \in Nodes, Follows(n, s),
         NEW t \in Threads, SendLocator(n, t)
  PROVE  \E w : SetSync(n, t, w) /\ Taken(s, chain[n], w)
<1> DEFINE v == sync[n][t]
           w == [v EXCEPT !.at = "asked", !.seen = chain[n]]
<1>1. SetSync(n, t, w) /\ v.at = "ask"
  BY DEF SendLocator, SyncAt
<1>2. v \in Syncs /\ chain[n] \in Chains
  BY ChainTypes
<1>3. Taken(s, chain[n], v)
  BY DEF TakenInv
<1>4. w.at = "asked" /\ w.seen = chain[n] /\ w.left = v.left /\ w.peer = v.peer
  <2> HIDE DEF v
  <2> QED BY <1>2 DEF Syncs
<1>5. IsPrefix(chain[n], chain[n])
  BY <1>2, PrefixSelf
<1> HIDE DEF v, w
<1>6. Taken(s, chain[n], w)
  BY <1>1, <1>3, <1>4, <1>5 DEF Taken
<1> QED BY <1>1, <1>6

\* An answer with nothing beyond the matched event is in the chain already; another
\* one is taken whole, or the sync ends in an error.
LEMMA TakenTaken ==
  ASSUME TypeOK, TakenInv, [Next]_vars, NEW s \in Nodes, NEW n \in Nodes, Follows(n, s),
         NEW t \in Threads, TakeAnswer(n, t)
  PROVE  \E w : SetSync(n, t, w) /\ Taken(s, chain'[n], w)
<1> DEFINE v == sync[n][t]
           empty == Len(v.seen) = v.start
           all == AllTaken(chain[n], v.seen, v.start, Redacted)
           ok == [v EXCEPT !.at = "settle", !.result = "ok"]
           more == [v EXCEPT !.at = "ask", !.rounds = @ + 1]
           bad == [v EXCEPT !.at = "settle", !.result = "error"]
<1>1. /\ v.at = "answered"
      /\ \/ SetSync(n, t, ok) /\ (empty \/ all)
         \/ SetSync(n, t, more)
         \/ SetSync(n, t, bad)
  BY Zenon DEF TakeAnswer, SyncAt
<1>2. v \in Syncs /\ v.seen \in Chains /\ chain \in [Nodes -> Chains]
  BY ChainTypes
<1>3. Taken(s, chain[n], v)
  BY DEF TakenInv
<1>4. v.left \subseteq {s} /\ v.peer = s /\ IsPrefix(SubSeq(v.seen, 1, v.start), chain[n])
  BY <1>1, <1>3 DEF Taken
<1>5. chain[n] \in Chains /\ chain'[n] \in Chains /\ IsPrefix(chain[n], chain'[n])
  BY FollowerGrows
<1>6. ASSUME empty PROVE IsPrefix(v.seen, chain'[n])
  <2>1. SubSeq(v.seen, 1, v.start) = v.seen
    BY <1>2, <1>6, SubSeqFull DEF Chains
  <2> QED BY <1>2, <1>4, <1>5, <2>1, PrefixTrans
<1>7. ASSUME all PROVE IsPrefix(v.seen, chain'[n])
  <2>1. chain' = [chain EXCEPT ![n] = Ingested(chain[n], v.seen, v.start, Redacted)]
    BY DEF TakeAnswer
  <2>2. Ingested(chain[n], v.seen, v.start, Redacted) = v.seen
    BY <1>7 DEF AllTaken
  <2> HIDE DEF v
  <2>3. chain'[n] = v.seen
    BY <1>2, <2>1, <2>2
  <2> QED BY <1>2, <2>3, PrefixSelf
<1>8. /\ ok.at = "settle" /\ ok.seen = v.seen /\ ok.left = v.left /\ ok.peer = v.peer
      /\ more.at = "ask" /\ more.left = v.left /\ more.peer = v.peer
      /\ bad.at = "settle" /\ bad.result = "error" /\ bad.left = v.left /\ bad.peer = v.peer
  <2> HIDE DEF v
  <2> QED BY <1>2 DEF Syncs
<1> HIDE DEF v, empty, all, ok, more, bad
<1>9. empty \/ all => Taken(s, chain'[n], ok)
  BY <1>4, <1>6, <1>7, <1>8 DEF Taken
<1>10. Taken(s, chain'[n], more)
  BY <1>4, <1>8 DEF Taken
<1>11. Taken(s, chain'[n], bad)
  BY <1>4, <1>8 DEF Taken
<1> QED BY <1>1, <1>9, <1>10, <1>11

LEMMA TakenFailed ==
  ASSUME TypeOK, TakenInv, NEW s \in Nodes, NEW n \in Nodes, Follows(n, s),
         NEW t \in Threads, SyncRequestFails(n, t)
  PROVE  \E w : SetSync(n, t, w) /\ \A c : Taken(s, c, w)
<1> DEFINE v == sync[n][t]
           w == [v EXCEPT !.at = "settle", !.result = "error"]
<1>1. SetSync(n, t, w) /\ v.at # "idle"
  BY DEF SyncRequestFails
<1>2. v \in Syncs
  BY ChainTypes
<1>3. Taken(s, chain[n], v)
  BY DEF TakenInv
<1>4. w.at = "settle" /\ w.result = "error" /\ w.left = v.left /\ w.peer = v.peer
  <2> HIDE DEF v
  <2> QED BY <1>2 DEF Syncs
<1> HIDE DEF v, w
<1>5. \A c : Taken(s, c, w)
  BY <1>1, <1>3, <1>4 DEF Taken
<1> QED BY <1>1, <1>5

LEMMA TakenFinished ==
  ASSUME TypeOK, TakenInv, NEW s \in Nodes, NEW n \in Nodes, Follows(n, s),
         NEW t \in Threads, FinishSync(n, t)
  PROVE  \E w : SetSync(n, t, w) /\ \A c : Taken(s, c, w)
<1>1. SetSync(n, t, AtRest)
      \/ \E p \in sync[n][t].left : SetSync(n, t, Asking(sync[n][t].left, p))
  BY Zenon DEF FinishSync, Asking
<1>2. sync[n][t].left \subseteq {s}
  BY DEF TakenInv, Taken
<1> QED BY <1>1, <1>2, TakenRest, TakenAtStart

LEMMA TakenStarted ==
  ASSUME NEW s \in Nodes, NEW n \in Nodes, Follows(n, s), NEW t \in Threads, StartSync(n, t)
  PROVE  UNCHANGED sync \/ \E w : SetSync(n, t, w) /\ \A c : Taken(s, c, w)
<1> DEFINE left == Peers[n] \ cooling[n]
<1>1. UNCHANGED sync \/ \E p \in left : SetSync(n, t, Asking(left, p))
  BY Zenon DEF StartSync, Asking
<1>2. left \subseteq {s}
  BY DEF Follows
<1> HIDE DEF left
<1> QED BY <1>1, <1>2, TakenAtStart

LEMMA TakenStep == TypeOK /\ NetInv /\ TakenInv /\ [Next]_vars => TakenInv'
<1> SUFFICES ASSUME TypeOK, NetInv, TakenInv, [Next]_vars,
                    NEW s \in Nodes, NEW n \in Nodes, Follows(n, s)
             PROVE  \A u \in Threads : Taken(s, chain'[n], sync'[n][u])
  BY DEF TakenInv, Follows, Seed
<1> DEFINE Kept == \A u \in Threads : Taken(s, chain'[n], sync'[n][u])
<1>1. sync \in [Nodes -> [Threads -> Syncs]]
  BY TypeParts DEF SyncsOK
<1>2. ASSUME sync'[n] = sync[n] PROVE Kept
  <2>1. ASSUME NEW u \in Threads PROVE Taken(s, chain'[n], sync[n][u])
    <3>1. SyncOK(sync[n][u])
      BY TypeParts DEF SyncsOK
    <3>2. Taken(s, chain[n], sync[n][u])
      BY DEF TakenInv
    <3> QED BY <3>1, <3>2, FollowerGrows, TakenGrows
  <2> QED BY <1>2, <2>1
<1>3. ASSUME NEW t \in Threads, \E w : SetSync(n, t, w) /\ Taken(s, chain'[n], w)
      PROVE  Kept
  BY <1>3, TakenSet
<1>4. ASSUME NEW k \in Nodes, k # n, NEW t \in Threads, \E w : SetSync(k, t, w)
      PROVE  sync'[n] = sync[n]
  BY <1>1, <1>4 DEF SetSync
<1>5. ASSUME NEW t \in Threads, StartSync(n, t) PROVE Kept
  BY <1>2, <1>3, <1>5, TakenStarted
<1>6. ASSUME NEW t \in Threads, SendLocator(n, t) \/ AnswerSync(n, t) PROVE Kept
  <2>1. chain' = chain
    BY <1>6, Frames
  <2>2. \E w : SetSync(n, t, w) /\ Taken(s, chain[n], w)
    BY <1>6, TakenSent, TakenAnswered
  <2> QED BY <1>3, <2>1, <2>2
<1>7. ASSUME NEW t \in Threads PROVE ~TakeForkAnswer(n, t)
  <2>1. Taken(s, chain[n], sync[n][t])
    BY DEF TakenInv
  <2> QED BY <2>1 DEF Taken, TakeForkAnswer, SyncAt
<1>8. ASSUME NEW t \in Threads, TakeAnswer(n, t) PROVE Kept
  BY <1>3, <1>8, TakenTaken
<1>9. ASSUME NEW t \in Threads, FinishSync(n, t) \/ SyncRequestFails(n, t) PROVE Kept
  <2>1. \E w : SetSync(n, t, w) /\ \A c : Taken(s, c, w)
    BY <1>9, TakenFinished, TakenFailed
  <2> QED BY <1>3, <2>1
<1>10. ASSUME NEW t \in Threads, PeerSaveFails(n, t) PROVE Kept
  <2>1. SetSync(n, t, AtRest)
    BY <1>10 DEF PeerSaveFails
  <2> QED BY <1>3, <2>1, TakenRest
<1>11. ASSUME NEW k \in Nodes, Restart(k) PROVE Kept
  <2>1. sync' = [sync EXCEPT ![k] = [t \in Threads |-> AtRest]]
    BY <1>11 DEF Restart
  <2>2. CASE k = n
    <3>1. \A u \in Threads : sync'[n][u] = AtRest
      BY <1>1, <2>1, <2>2
    <3> QED BY <3>1, TakenRest
  <2>3. CASE k # n
    BY <1>1, <1>2, <2>1, <2>3
  <2> QED BY <2>2, <2>3
<1>12. ASSUME NEW k \in Nodes, k # n, NEW t \in Threads,
              \/ StartSync(k, t) \/ SendLocator(k, t) \/ AnswerSync(k, t)
              \/ TakeForkAnswer(k, t) \/ TakeAnswer(k, t) \/ FinishSync(k, t)
              \/ SyncRequestFails(k, t) \/ PeerSaveFails(k, t)
       PROVE  sync'[n] = sync[n]
  <2>1. StartSync(k, t) => UNCHANGED sync \/ \E w : SetSync(k, t, w)
    BY StartSets
  <2>2. SendLocator(k, t) \/ AnswerSync(k, t) => \E w : SetSync(k, t, w)
    BY Zenon DEF SendLocator, AnswerSync
  <2>3. TakeForkAnswer(k, t) \/ TakeAnswer(k, t) => \E w : SetSync(k, t, w)
    BY Zenon DEF TakeForkAnswer, TakeAnswer
  <2>4. FinishSync(k, t) => \E w : SetSync(k, t, w)
    BY FinishSets
  <2>5. SyncRequestFails(k, t) \/ PeerSaveFails(k, t) => \E w : SetSync(k, t, w)
    BY Zenon DEF SyncRequestFails, PeerSaveFails
  <2>6. UNCHANGED sync \/ \E w : SetSync(k, t, w)
    BY <1>12, <2>1, <2>2, <2>3, <2>4, <2>5
  <2> QED BY <1>4, <1>12, <2>6
<1>13. \/ UNCHANGED sync
       \/ \E k \in Nodes, t \in Threads :
            \/ StartSync(k, t) \/ SendLocator(k, t) \/ AnswerSync(k, t)
            \/ TakeForkAnswer(k, t) \/ TakeAnswer(k, t) \/ FinishSync(k, t)
            \/ SyncRequestFails(k, t) \/ PeerSaveFails(k, t)
       \/ \E k \in Nodes : Restart(k)
  BY Steps, Frames DEF vars
<1> HIDE DEF Kept
<1>14. Kept
  BY <1>2, <1>5, <1>6, <1>7, <1>8, <1>9, <1>10, <1>11, <1>12, <1>13
<1> QED BY <1>14 DEF Kept

\* A follower's sync that ends "ok" has all of the seed's answer in the chain, for any
\* page and locator size, any number of threads' steps between locator and ingest, and
\* any events that ingest rejects.
THEOREM SyncsTake == Spec => []SyncedIsTaken
<1>1. Init => TypeOK /\ NetInv /\ TakenInv
  BY TypeInit, HeardInit, TakenInit
<1>2. TypeOK /\ NetInv /\ TakenInv /\ [Next]_vars => (TypeOK /\ NetInv /\ TakenInv)'
  BY TypeStep, NetStep, TakenStep
<1>3. TakenInv => SyncedIsTaken
  BY DEF TakenInv, Taken, Follows, SyncedIsTaken
<1> QED BY <1>1, <1>2, <1>3, PTL DEF Spec
=============================================================================
