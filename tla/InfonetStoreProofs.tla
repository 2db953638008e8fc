------------------------- MODULE InfonetStoreProofs -------------------------
(***************************************************************************)
(* Proofs about InfonetStore, for every set of authors and threads, every  *)
(* bound on events and sequences, and every number of crashes and failed   *)
(* writes, with resets and outages: the types; until a race the links and  *)
(* the sequence numbers; until a race, a reset or a long outage that the   *)
(* store implements AppendOnlyLog and what its WAL saves.                  *)
(***************************************************************************)
EXTENDS InfonetStore, SequenceTheorems, WellFoundedInduction, TLAPS

-----------------------------------------------------------------------------
(***************************************************************************)
(* Chains.                                                                 *)
(***************************************************************************)
Tables == [Authors -> 0..MaxSequence]
Chains == [events : Seq(Events), domains : Tables]

\* A set of naturals below a bound that has a member has a least one.
LEMMA LeastMember ==
  ASSUME NEW S \in SUBSET Nat, S # {}
  PROVE  \E n \in S : \A m \in S : n <= m
<1>1. PICK n \in S : \A m \in S : ~ (<<m, n>> \in OpToRel(<, Nat))
  BY WFMin, NatLessThanWellFounded
<1>2. \A m \in S : ~(m < n)
  BY <1>1 DEF OpToRel
<1> QED BY <1>2

\* The table _rebuild_state computes: each author's greatest sequence number.
LEMMA RebuiltTable ==
  ASSUME NEW s \in Seq(Events)
  PROVE  /\ Rebuilt(s) \in Tables
         /\ \A i \in DOMAIN s : s[i].sequence <= Rebuilt(s)[s[i].by]
         /\ \A a \in Authors :
              \/ Rebuilt(s)[a] = 0
              \/ \E i \in DOMAIN s : s[i].by = a /\ s[i].sequence = Rebuilt(s)[a]
<1> USE StoreAssumption
<1> DEFINE Bounds(a, n) == \A i \in DOMAIN s : s[i].by = a => s[i].sequence <= n
           Reached(a, n) == n = 0 \/ \E i \in DOMAIN s : s[i].by = a /\ s[i].sequence = n
<1>e. \A i \in DOMAIN s : s[i] \in Events
  BY LenProperties, ElementOfSeq
<1>1. ASSUME NEW a \in Authors
      PROVE  \E n \in 0..MaxSequence : Bounds(a, n) /\ Reached(a, n)
  <2> DEFINE S == {n \in 0..MaxSequence : Bounds(a, n)}
  <2>1. MaxSequence \in S
    BY <1>e DEF Events
  <2>2. PICK n \in S : \A m \in S : n <= m
    <3>1. S \subseteq 0..MaxSequence
      OBVIOUS
    <3>2. S \in SUBSET Nat
      <4> HIDE DEF S
      <4> QED BY <3>1
    <3>3. S # {}
      <4> HIDE DEF S
      <4> QED BY <2>1
    <3> HIDE DEF S
    <3> QED BY <3>2, <3>3, LeastMember
  <2>3. Reached(a, n)
    <3> SUFFICES ASSUME ~Reached(a, n) PROVE FALSE
      OBVIOUS
    <3>1. n - 1 \in 0..MaxSequence
      BY <2>2
    <3>2. Bounds(a, n - 1)
      BY <2>2, <1>e DEF Events
    <3>3. n - 1 \in S
      BY <3>1, <3>2
    <3> QED BY <3>3, <2>2
  <2> QED BY <2>2, <2>3
<1>2. \A a \in Authors : /\ Rebuilt(s)[a] \in 0..MaxSequence
                         /\ Bounds(a, Rebuilt(s)[a]) /\ Reached(a, Rebuilt(s)[a])
  BY <1>1 DEF Rebuilt
<1>3. Rebuilt(s) \in Tables
  BY <1>2 DEF Rebuilt, Tables
<1>4. \A i \in DOMAIN s : s[i].by \in Authors
  BY <1>e DEF Events
<1> QED BY <1>2, <1>3, <1>4

LEMMA HeadHashType == ASSUME NEW s \in Seq(Events) PROVE HeadHash(s) \in 0..MaxEvents
<1> USE StoreAssumption
<1>1. CASE s = <<>>
  BY <1>1 DEF HeadHash, Genesis
<1>2. CASE s # <<>>
  <2>1. Len(s) \in 1..Len(s)
    BY <1>2, EmptySeq
  <2>2. s[Len(s)] \in Events
    BY <2>1, ElementOfSeq
  <2> QED BY <1>2, <2>2 DEF HeadHash, Last, Events
<1> QED BY <1>1, <1>2

LEMMA EmptyChain == Empty \in Chains /\ Empty.events = <<>> /\ NoSequences \in Tables
BY StoreAssumption, EmptySeq DEF Empty, Chain, Chains, Tables, NoSequences

-----------------------------------------------------------------------------
(***************************************************************************)
(* Types.  A writer that holds an event past its first check holds one     *)
(* that was created, with a link and a sequence of the right type.         *)
(***************************************************************************)
InFlight == \A t \in Writers : at[t] \in Adding => event[t] \in Events
TypeInv == TypeOK /\ InFlight

LEMMA TypeInit == Init => TypeInv
<1> SUFFICES ASSUME Init PROVE TypeInv
  OBVIOUS
<1> USE StoreAssumption DEF Init
<1>1. at \in [Threads -> Locations] /\ \A t \in Writers : at[t] = "idle"
  BY DEF Locations, AtRest, Threads
<1>2. /\ events \in Seq(Events) /\ file \in Chains
      /\ written \in [Threads -> Chains]
      /\ sequences \in Tables /\ domains \in Tables
  BY EmptyChain, EmptySeq
<1>3. minted \in 0..MaxEvents /\ faults \in 0..MaxFaults /\ acked \subseteq 1..MaxEvents
  OBVIOUS
<1>4. TypeOK
  BY <1>1, <1>2, <1>3 DEF TypeOK, Chains, Tables
<1> QED BY <1>1, <1>4 DEF TypeInv, InFlight, Adding

\* Where threads are after a step, for the ways a step moves them.
LEMMA Moves ==
  ASSUME TypeOK, NEW t \in Threads
  PROVE  /\ \A l \in Locations :
              Goto(t, l) => /\ at' \in [Threads -> Locations]
                            /\ at'[t] = l
                            /\ \A u \in Threads \ {t} : at'[u] = at[u]
         /\ t \in Writers /\ Saved(t) =>
              /\ dirty' \in BOOLEAN
              /\ at' \in [Threads -> Locations]
              /\ at'[t] = "idle"
              /\ \A u \in Writers \ {t} : at'[u] = at[u]
<1>1. ASSUME NEW l \in Locations, Goto(t, l)
      PROVE  /\ at' \in [Threads -> Locations]
             /\ at'[t] = l
             /\ \A u \in Threads \ {t} : at'[u] = at[u]
  BY <1>1 DEF TypeOK, Goto
<1>2. ASSUME t \in Writers, Saved(t)
      PROVE  /\ dirty' \in BOOLEAN
             /\ at' \in [Threads -> Locations]
             /\ at'[t] = "idle"
             /\ \A u \in Writers \ {t} : at'[u] = at[u]
  <2>1. Timer \in Threads /\ Timer \notin Writers /\ Writers \subseteq Threads
    BY StoreAssumption DEF Threads
  <2>2. "idle" \in Locations /\ "waiting" \in Locations
    BY DEF Locations
  <2> QED BY <1>2, <2>1, <2>2 DEF TypeOK, Saved
<1> QED BY <1>1, <1>2

LEMMA OverlapsType ==
  ASSUME TypeOK, NEW t \in Writers, Overlaps(t)
  PROVE  /\ overlapped' \in BOOLEAN
         /\ ~overlapped' => ~overlapped /\ \A u \in Writers \ {t} : at[u] \notin Adding
BY Zenon DEF TypeOK, Overlaps

\* A start from a chain file and a WAL of the right type.
LEMMA BootedType ==
  ASSUME TypeOK, NEW chain \in Chains, NEW log \in Events \cup {NoEvent},
         Booted(chain, log), faults' \in 0..MaxFaults
  PROVE  TypeInv'
<1> USE StoreAssumption
<1>a. /\ "idle" \in Locations /\ "off" \in Locations /\ "waiting" \in Locations
      /\ Timer \notin Writers /\ Threads = Writers \cup {Timer}
  BY DEF Locations, Threads
<1>c. chain.events \in Seq(Events) /\ chain.domains \in Tables
  BY DEF Chains
<1>1. /\ at' \in [Threads -> Locations]
      /\ \A t \in Writers : at'[t] = "idle"
  BY <1>a DEF Booted, AtRest
<1>2. /\ event' \in [Writers -> Events \cup {NoEvent}]
      /\ written' \in [Threads -> Chains]
  BY EmptyChain DEF Booted
<1>l. ASSUME NEW c \in Chains, Loaded(c)
      PROVE  events' \in Seq(Events) /\ sequences' \in Tables /\ domains' \in Tables
  BY <1>l, RebuiltTable DEF Loaded, Chains
<1>3. /\ events' \in Seq(Events) /\ sequences' \in Tables /\ domains' \in Tables
      /\ file' \in Chains /\ wal' \in Events \cup {NoEvent} /\ dirty' \in BOOLEAN
  <2>1. CASE ~Replayable(log, chain) /\ Loaded(chain) /\ file' = chain
             /\ wal' = NoEvent /\ dirty' = FALSE
    BY <1>l, <2>1
  <2>2. CASE Loaded(Empty) /\ file' = chain /\ wal' = NoEvent /\ dirty' = FALSE
    BY <1>l, <2>2, EmptyChain
  <2>3. CASE Replayable(log, chain)
             /\ LET longer == Chain(Append(chain.events, log), chain.domains)
                IN  /\ Loaded(longer)
                    /\ \/ file' = longer /\ wal' = NoEvent /\ dirty' = FALSE
                       \/ file' = chain /\ wal' = log /\ dirty' = TRUE
    <3> DEFINE longer == Chain(Append(chain.events, log), chain.domains)
    <3>1. log \in Events
      BY <2>3 DEF Replayable
    <3>2. longer \in Chains
      BY <1>c, <3>1, AppendProperties DEF Chain, Chains
    <3> HIDE DEF longer
    <3> QED BY <1>l, <2>3, <3>2 DEF longer
  <2> QED BY <2>1, <2>2, <2>3 DEF Booted
<1>4. UNCHANGED <<minted, acked, discarded, overlapped>>
  BY DEF Booted
<1>6. aged' \in BOOLEAN
  BY DEF Booted, TypeOK
<1>5. TypeOK'
  BY <1>1, <1>2, <1>3, <1>4, <1>6 DEF TypeOK, Chains, Tables
<1> QED BY <1>1, <1>5 DEF TypeInv, InFlight, Adding

LEMMA TypeStep == TypeInv /\ [Next]_vars => TypeInv'
<1> SUFFICES ASSUME TypeInv, [Next]_vars PROVE TypeInv'
  OBVIOUS
<1> USE StoreAssumption
<1>t. /\ TypeOK /\ InFlight
      /\ Writers \subseteq Threads /\ Timer \in Threads /\ Timer \notin Writers
  BY DEF TypeInv, Threads
<1>l. Locations = {"off", "idle", "waiting", "signing", "minted", "logged",
                   "checked", "serialise", "replace", "clean", "clear"}
  BY DEF Locations
<1>s. /\ \A e \in Events : Append(events, e) \in Seq(Events)
      /\ HeadHash(events) \in 0..MaxEvents
  BY <1>t, AppendProperties, HeadHashType DEF TypeOK
<1>1. ASSUME NEW t \in Writers, NEW a \in Authors, NEW n \in 1..MaxSequence,
             AppendBegins(t, a, n)
      PROVE  TypeInv'
  <2> DEFINE e == [id |-> minted + 1, prev |-> Genesis, by |-> a, sequence |-> n]
  <2>1. /\ at' \in [Threads -> Locations]
        /\ at'[t] = "signing"
        /\ \A u \in Threads \ {t} : at'[u] = at[u]
    BY <1>1, <1>t, <1>l, Moves DEF AppendBegins
  <2>2. e \in Events /\ minted' \in 0..MaxEvents
    BY <1>1, <1>t DEF AppendBegins, TypeOK, Events, Genesis
  <2>3. event' = [event EXCEPT ![t] = e]
    BY <1>1 DEF AppendBegins
  <2> HIDE DEF e
  <2>4. event' \in [Writers -> Events \cup {NoEvent}] /\ event'[t] = e
        /\ \A u \in Writers \ {t} : event'[u] = event[u]
    BY <2>2, <2>3, <1>t DEF TypeOK
  <2>5. TypeOK'
    BY <1>1, <1>t, <2>1, <2>2, <2>4
       DEF AppendBegins, TypeOK, memory, disk, history
  <2> QED BY <1>t, <2>1, <2>2, <2>4, <2>5 DEF TypeInv, InFlight, Adding
<1>2. ASSUME NEW t \in Writers, NEW a \in Authors, NEW n \in 1..MaxSequence,
             IngestChecks(t, a, n)
      PROVE  TypeInv'
  <2> DEFINE e == [id |-> minted + 1, prev |-> HeadHash(events), by |-> a,
                   sequence |-> n]
  <2>1. /\ at' \in [Threads -> Locations]
        /\ at'[t] = "checked"
        /\ \A u \in Threads \ {t} : at'[u] = at[u]
    BY <1>2, <1>t, <1>l, Moves DEF IngestChecks
  <2>2. e \in Events /\ minted' \in 0..MaxEvents
    BY <1>2, <1>t, <1>s DEF IngestChecks, TypeOK, Events
  <2>3. event' = [event EXCEPT ![t] = e]
    BY <1>2 DEF IngestChecks
  <2> HIDE DEF e
  <2>4. event' \in [Writers -> Events \cup {NoEvent}] /\ event'[t] = e
        /\ \A u \in Writers \ {t} : event'[u] = event[u]
    BY <2>2, <2>3, <1>t DEF TypeOK
  <2>5. TypeOK'
    BY <1>2, <1>t, <2>1, <2>2, <2>4
       DEF IngestChecks, TypeOK, memory, disk, history
  <2> QED BY <1>t, <2>1, <2>2, <2>4, <2>5 DEF TypeInv, InFlight, Adding
<1>3. ASSUME NEW t \in Writers, EventLinked(t) PROVE TypeInv'
  <2>1. /\ at' \in [Threads -> Locations]
        /\ at'[t] = "minted"
        /\ \A u \in Threads \ {t} : at'[u] = at[u]
    BY <1>3, <1>t, <1>l, Moves DEF EventLinked
  <2>2. event[t] \in Events
    BY <1>3, <1>t DEF EventLinked, InFlight, Adding
  <2>3. [event[t] EXCEPT !.prev = HeadHash(events)] \in Events
    BY <2>2, <1>s DEF Events
  <2>4. event' \in [Writers -> Events \cup {NoEvent}] /\ event'[t] \in Events
        /\ \A u \in Writers \ {t} : event'[u] = event[u]
    BY <1>3, <2>3, <1>t DEF TypeOK, EventLinked
  <2>5. TypeOK'
    BY <1>3, <1>t, <2>1, <2>4 DEF EventLinked, TypeOK, memory, disk, history
  <2> QED BY <1>t, <2>1, <2>4, <2>5 DEF TypeInv, InFlight, Adding
<1>4. ASSUME NEW t \in Writers, WriteWal(t) PROVE TypeInv'
  <2>1. /\ at' \in [Threads -> Locations]
        /\ at'[t] = "logged"
        /\ \A u \in Threads \ {t} : at'[u] = at[u]
    BY <1>4, <1>t, <1>l, Moves DEF WriteWal
  <2>2. event[t] \in Events
    BY <1>4, <1>t DEF WriteWal, InFlight, Adding
  <2>3. wal' \in Events \cup {NoEvent} /\ faults' \in 0..MaxFaults
    BY <1>4, <1>t, <2>2 DEF WriteWal, TypeOK, Fault
  <2>4. TypeOK'
    BY <1>4, <1>t, <2>1, <2>3 DEF WriteWal, TypeOK, memory, history
  <2> QED BY <1>4, <1>t, <2>1, <2>2, <2>4 DEF WriteWal, TypeInv, InFlight, Adding
<1>5. ASSUME NEW t \in Writers, EventAdded(t) PROVE TypeInv'
  <2>1. /\ dirty' \in BOOLEAN
        /\ at' \in [Threads -> Locations]
        /\ at'[t] = "idle"
        /\ \A u \in Writers \ {t} : at'[u] = at[u]
    BY <1>5, <1>t, Moves DEF EventAdded
  <2>2. event[t] \in Events
    BY <1>5, <1>t DEF EventAdded, InFlight, Adding
  <2>3. /\ event[t].by \in Authors /\ event[t].id \in 1..MaxEvents
        /\ event[t].sequence \in 0..MaxSequence
    BY <2>2 DEF Events
  <2>4. /\ events' \in Seq(Events)
        /\ sequences' \in [Authors -> 0..MaxSequence]
        /\ acked' \subseteq 1..MaxEvents
    BY <1>5, <1>t, <1>s, <2>2, <2>3 DEF EventAdded, TypeOK
  <2>5. event' \in [Writers -> Events \cup {NoEvent}]
        /\ \A u \in Writers \ {t} : event'[u] = event[u]
    BY <1>5, <1>t DEF EventAdded, TypeOK
  <2>7. overlapped' \in BOOLEAN
    BY <1>5, <1>t, OverlapsType DEF EventAdded
  <2>6. TypeOK'
    BY <1>5, <1>t, <2>1, <2>4, <2>5, <2>7 DEF EventAdded, TypeOK, disk
  <2> QED BY <1>t, <2>1, <2>5, <2>6 DEF TypeInv, InFlight, Adding
<1>6. ASSUME NEW t \in Writers, NEW a \in Authors, NEW n \in 1..MaxPrivate,
             SequenceUsed(t, a, n)
      PROVE  TypeInv'
  <2>1. /\ dirty' \in BOOLEAN
        /\ at' \in [Threads -> Locations]
        /\ at'[t] = "idle"
        /\ \A u \in Writers \ {t} : at'[u] = at[u]
    BY <1>6, <1>t, Moves DEF SequenceUsed
  <2>2. domains' \in [Authors -> 0..MaxSequence]
    BY <1>6, <1>t DEF SequenceUsed, TypeOK
  <2>3. TypeOK'
    BY <1>6, <1>t, <2>1, <2>2 DEF SequenceUsed, TypeOK, disk, history
  <2> QED BY <1>6, <1>t, <2>1, <2>3 DEF SequenceUsed, TypeInv, InFlight, Adding
<1>7. ASSUME NEW t \in Writers, ResetChain(t) PROVE TypeInv'
  <2>1. /\ at' \in [Threads -> Locations]
        /\ at'[t] = "serialise"
        /\ \A u \in Threads \ {t} : at'[u] = at[u]
    BY <1>7, <1>t, <1>l, Moves DEF ResetChain
  <2>3. overlapped' \in BOOLEAN
    BY <1>7, <1>t, OverlapsType DEF ResetChain
  <2>2. TypeOK'
    BY <1>7, <1>t, <2>1, <2>3, EmptyChain, EmptySeq DEF ResetChain, TypeOK, Tables, disk
  <2> QED BY <1>7, <1>t, <2>1, <2>2 DEF ResetChain, TypeInv, InFlight, Adding
<1>8. CASE TimerFires
  <2>1. /\ at' \in [Threads -> Locations]
        /\ \A u \in Threads \ {Timer} : at'[u] = at[u]
    BY <1>8, <1>t, <1>l, Moves DEF TimerFires
  <2>2. TypeOK'
    BY <1>8, <1>t, <2>1 DEF TimerFires, TypeOK, memory, disk, history
  <2> QED BY <1>8, <1>t, <2>1, <2>2 DEF TimerFires, TypeInv, InFlight
<1>9. ASSUME NEW t \in Threads, FlushStep(t) \/ FlushFails(t) PROVE TypeInv'
  <2>r. AtRest(t) \in Locations /\ AtRest(t) \notin Adding
    BY <1>l DEF AtRest, Adding
  <2>c. file \in Chains /\ written \in [Threads -> Chains] /\ Empty \in Chains
        /\ Chain(events, domains) \in Chains
    BY <1>t, EmptyChain DEF TypeOK, Chains, Tables, Chain
  <2>1. PICK l \in Locations \ Adding : Goto(t, l)
    BY <1>9, <1>l, <2>r
       DEF FlushStep, FlushFails, Serialise, ReplaceFile, MarkClean, ClearWal, Adding
  <2>2. /\ at' \in [Threads -> Locations]
        /\ at'[t] = l
        /\ \A u \in Threads \ {t} : at'[u] = at[u]
    BY <2>1, <1>t, Moves
  <2>3. written' \in [Threads -> Chains]
    BY <1>9, <2>c
       DEF FlushStep, FlushFails, Serialise, ReplaceFile, MarkClean, ClearWal
  <2>4. file' \in Chains
    BY <1>9, <2>c
       DEF FlushStep, FlushFails, Serialise, ReplaceFile, MarkClean, ClearWal, disk
  <2>w. wal' \in {wal, NoEvent} /\ dirty' \in {dirty, FALSE}
    BY <1>9
       DEF FlushStep, FlushFails, Serialise, ReplaceFile, MarkClean, ClearWal, disk
  <2>f. faults' = faults \/ Fault
    BY <1>9
       DEF FlushStep, FlushFails, Serialise, ReplaceFile, MarkClean, ClearWal
  <2>5. wal' \in Events \cup {NoEvent} /\ dirty' \in BOOLEAN
    BY <2>w, <1>t DEF TypeOK
  <2>8. faults' \in 0..MaxFaults
    BY <2>f, <1>t DEF Fault, TypeOK
  <2>6. UNCHANGED <<memory, event, minted, acked, history>>
    BY <1>9
       DEF FlushStep, FlushFails, Serialise, ReplaceFile, MarkClean, ClearWal
  <2>7. TypeOK'
    BY <1>t, <2>2, <2>3, <2>4, <2>5, <2>6, <2>8 DEF TypeOK, Chains, Tables, memory, history
  <2> QED BY <1>t, <2>1, <2>2, <2>6, <2>7 DEF TypeInv, InFlight, Adding
<1>10. CASE Crash
  <2>1. file \in Chains /\ wal \in Events \cup {NoEvent} /\ faults' \in 0..MaxFaults
    BY <1>10, <1>t DEF Crash, Fault, TypeOK, Chains, Tables
  <2> QED BY <1>10, <1>t, <2>1, BootedType DEF Crash
<1>11. CASE CleanExit
  <2>1. /\ file \in Chains /\ wal \in Events \cup {NoEvent}
        /\ Chain(events, domains) \in Chains /\ faults' \in 0..MaxFaults
    BY <1>11, <1>t DEF CleanExit, TypeOK, Chains, Tables, Chain
  <2> QED BY <1>11, <1>t, <2>1, BootedType DEF CleanExit
<1>12. CASE UNCHANGED vars
  BY <1>12, <1>t DEF vars, memory, disk, locals, history, TypeInv, TypeOK, InFlight
<1> QED BY <1>1, <1>2, <1>3, <1>4, <1>5, <1>6, <1>7, <1>8, <1>9, <1>10, <1>11,
           <1>12 DEF Next, Request, WriterStep

\* Every variable of the store has its type in every reachable state: the events
\* that append() mints and ingest_events() accepts, the file, the WAL and the
\* tables that are rebuilt at each start.
THEOREM TypeCorrect == Spec => []TypeOK
<1>1. TypeInv => TypeOK
  BY DEF TypeInv
<1> QED BY TypeInit, TypeStep, <1>1, PTL DEF Spec

-----------------------------------------------------------------------------
(***************************************************************************)
(* Until a race: a chain is good when it links and its authors' numbers    *)
(* increase.  Every copy of it is good, the table of last sequences covers *)
(* it, and an event about to join it is ahead of that table and, from the  *)
(* moment it is linked, points to the head: another thread's addition      *)
(* would end that, and is the race.                                        *)
(***************************************************************************)
Increasing(s) ==
  \A i, j \in DOMAIN s : i < j /\ s[i].by = s[j].by => s[i].sequence < s[j].sequence
Good(s) == Linked(s) /\ Increasing(s)

CopiesGood == /\ Good(events) /\ Good(file.events)
              /\ \A t \in Threads : Good(written[t].events)
TableCovers == \A i \in DOMAIN events : events[i].sequence <= sequences[events[i].by]
NextFits ==
  \A t \in Writers :
    /\ at[t] \in Adding => event[t].sequence > sequences[event[t].by]
    /\ at[t] \in Adding \ {"signing"} => event[t].prev = HeadHash(events)
ChainGood == CopiesGood /\ TableCovers /\ NextFits
ChainInv == ~overlapped => ChainGood

LEMMA EmptyGood == Good(<<>>)
BY DEF Good, Linked, Increasing

LEMMA AppendGood ==
  ASSUME NEW s \in Seq(Events), NEW e \in Events, Good(s), e.prev = HeadHash(s),
         \A i \in DOMAIN s : s[i].by = e.by => s[i].sequence < e.sequence
  PROVE  Good(Append(s, e))
<1> DEFINE r == Append(s, e)
<1>1. /\ r \in Seq(Events) /\ Len(r) = Len(s) + 1
      /\ \A i \in 1..Len(s) : r[i] = s[i]
      /\ r[Len(s) + 1] = e
  BY AppendProperties
<1>2. DOMAIN r = 1..(Len(s) + 1) /\ DOMAIN s = 1..Len(s) /\ Len(s) \in Nat
  BY <1>1, LenProperties
<1> HIDE DEF r
<1>3. Linked(r)
  <2> SUFFICES ASSUME NEW i \in DOMAIN r
               PROVE  r[i].prev = IF i = 1 THEN Genesis ELSE r[i - 1].id
    BY DEF Linked
  <2>1. CASE i \in 1..Len(s)
    <3>1. r[i] = s[i] /\ (i # 1 => r[i - 1] = s[i - 1])
      BY <2>1, <1>1, <1>2
    <3> QED BY <2>1, <3>1, <1>2 DEF Good, Linked
  <2>2. CASE i = Len(s) + 1
    <3>1. CASE s = <<>>
      <4>1. Len(s) = 0
        BY <3>1, EmptySeq
      <4> QED BY <2>2, <4>1, <3>1, <1>1 DEF HeadHash
    <3>2. CASE s # <<>>
      <4>1. Len(s) \in 1..Len(s)
        BY <3>2, EmptySeq
      <4>2. HeadHash(s) = s[Len(s)].id
        BY <3>2 DEF HeadHash, Last
      <4> QED BY <2>2, <4>1, <4>2, <1>1, <1>2
    <3> QED BY <3>1, <3>2
  <2> QED BY <2>1, <2>2, <1>2
<1>4. Increasing(r)
  <2> SUFFICES ASSUME NEW i \in DOMAIN r, NEW j \in DOMAIN r, i < j, r[i].by = r[j].by
               PROVE  r[i].sequence < r[j].sequence
    BY DEF Increasing
  <2>1. i \in 1..Len(s) /\ r[i] = s[i]
    BY <1>1, <1>2
  <2>2. CASE j \in 1..Len(s)
    BY <2>1, <2>2, <1>1, <1>2 DEF Good, Increasing
  <2>3. CASE j = Len(s) + 1
    BY <2>1, <2>3, <1>1, <1>2
  <2> QED BY <2>2, <2>3, <1>2
<1> QED BY <1>3, <1>4 DEF Good, r

LEMMA ChainInit == Init => ChainInv
BY EmptyGood DEF Init, Empty, Chain, ChainInv, ChainGood, CopiesGood, TableCovers, NextFits,
                 AtRest, Threads, Adding, StoreAssumption

\* A start from a good chain file, with any WAL.
LEMMA BootedGood ==
  ASSUME NEW chain \in Chains, NEW log \in Events \cup {NoEvent},
         Good(chain.events), Booted(chain, log)
  PROVE  ChainGood'
<1> USE StoreAssumption
<1>c. chain.events \in Seq(Events)
  BY DEF Chains
<1>i. \A t \in Writers : at'[t] = "idle"
  BY DEF Booted, AtRest, Threads
<1>n. NextFits'
  BY <1>i DEF NextFits, Adding
<1>w. \A t \in Threads : Good(written'[t].events)
  BY EmptyGood DEF Booted, Empty, Chain
<1>l. ASSUME NEW c \in Chains, Loaded(c), Good(c.events)
      PROVE  Good(events') /\ TableCovers'
  BY <1>l, RebuiltTable DEF Loaded, TableCovers, Chains
<1>1. Good(events') /\ TableCovers' /\ Good(file'.events)
  <2>1. CASE Loaded(chain) /\ file' = chain
    BY <1>l, <2>1
  <2>2. CASE Loaded(Empty) /\ file' = chain
    BY <1>l, <2>2, EmptyChain, EmptyGood
  <2>3. CASE Replayable(log, chain) /\ Accepted(log, chain)
             /\ LET longer == Chain(Append(chain.events, log), chain.domains)
                IN  /\ Loaded(longer)
                    /\ \/ file' = longer /\ wal' = NoEvent /\ dirty' = FALSE
                       \/ file' = chain /\ wal' = log /\ dirty' = TRUE
    <3> DEFINE longer == Chain(Append(chain.events, log), chain.domains)
    <3>1. log \in Events /\ log.prev = HeadHash(chain.events)
      BY <2>3 DEF Replayable
    <3>2. longer \in Chains /\ longer.events = Append(chain.events, log)
      BY <1>c, <3>1, AppendProperties DEF Chain, Chains
    <3>3. \A i \in DOMAIN chain.events :
            chain.events[i].by = log.by => chain.events[i].sequence < log.sequence
      <4>1. \A i \in DOMAIN chain.events : chain.events[i].sequence \in Nat
        <5>1. \A i \in DOMAIN chain.events : chain.events[i] \in Events
          BY <1>c, LenProperties, ElementOfSeq
        <5> QED BY <5>1 DEF Events
      <4>2. \A i \in DOMAIN chain.events :
              chain.events[i].sequence <= Rebuilt(chain.events)[chain.events[i].by]
        BY <1>c, RebuiltTable
      <4>3. Rebuilt(chain.events)[log.by] \in Nat
        <5>1. log.by \in Authors
          BY <3>1 DEF Events
        <5>2. Rebuilt(chain.events) \in [Authors -> 0..MaxSequence]
          BY <1>c, RebuiltTable DEF Tables
        <5> QED BY <5>1, <5>2
      <4>4. log.sequence > Rebuilt(chain.events)[log.by] /\ log.sequence \in Nat
        BY <2>3, <3>1 DEF Accepted, Events
      <4> QED BY <4>1, <4>2, <4>3, <4>4
    <3>4. Good(longer.events)
      BY <1>c, <3>1, <3>2, <3>3, AppendGood
    <3> HIDE DEF longer
    <3> QED BY <1>l, <2>3, <3>2, <3>4 DEF longer
  <2> QED BY <2>1, <2>2, <2>3 DEF Booted
<1> QED BY <1>n, <1>w, <1>1 DEF ChainGood, CopiesGood

\* Steps that leave the chain, its table and its copies as they are, and move a
\* thread to where no event is held, keep the chain good.
LEMMA QuietStep ==
  ASSUME ChainGood, TypeInv, UNCHANGED <<events, sequences, event>>,
         Good(file'.events), \A t \in Threads : Good(written'[t].events),
         \A t \in Writers : at'[t] \in Adding => at'[t] = at[t]
  PROVE  ChainGood'
<1>1. CopiesGood'
  BY DEF ChainGood, CopiesGood
<1>2. TableCovers'
  BY DEF ChainGood, TableCovers
<1>3. NextFits'
  BY DEF ChainGood, NextFits
<1> QED BY <1>1, <1>2, <1>3 DEF ChainGood

\* Nothing undoes a race, a reset or an outage.
LEMMA RaceStays ==
  TypeOK /\ [Next]_vars =>
    /\ overlapped => overlapped'
    /\ discarded => discarded'
    /\ aged => aged'
<1> DEFINE Kept == /\ overlapped => overlapped'
                   /\ discarded => discarded'
                   /\ aged => aged'
<1> SUFFICES ASSUME TypeOK, [Next]_vars PROVE Kept
  OBVIOUS
<1>k. ASSUME UNCHANGED history PROVE Kept
  BY <1>k DEF history
<1>1. ASSUME NEW t \in Writers, EventAdded(t) \/ ResetChain(t) PROVE Kept
  <2>1. Overlaps(t)
    BY <1>1 DEF EventAdded, ResetChain
  <2>2. overlapped => overlapped'
    BY <2>1, Zenon DEF Overlaps
  <2>3. discarded => discarded'
    BY <1>1 DEF EventAdded, ResetChain
  <2>4. aged' = aged
    BY <1>1 DEF EventAdded, ResetChain
  <2>5. aged => aged'
    BY <2>4
  <2> QED BY <2>2, <2>3, <2>5
<1>2. ASSUME NEW t \in Writers, EventLinked(t) \/ WriteWal(t) PROVE Kept
  BY <1>2, <1>k DEF EventLinked, WriteWal
<1>3. ASSUME NEW t \in Writers, NEW a \in Authors, NEW n \in 1..MaxSequence,
             AppendBegins(t, a, n) \/ IngestChecks(t, a, n)
      PROVE  Kept
  BY <1>3, <1>k DEF AppendBegins, IngestChecks
<1>4. ASSUME NEW t \in Writers, NEW a \in Authors, NEW n \in 1..MaxPrivate,
             SequenceUsed(t, a, n)
      PROVE  Kept
  BY <1>4, <1>k DEF SequenceUsed
<1>5. ASSUME NEW t \in Threads, FlushStep(t) \/ FlushFails(t) PROVE Kept
  BY <1>5, <1>k DEF FlushStep, FlushFails, Serialise, ReplaceFile, MarkClean, ClearWal
<1>6. ASSUME Crash \/ CleanExit PROVE Kept
  <2>1. /\ overlapped' = overlapped /\ discarded' = discarded
        /\ aged' = aged \/ aged' = TRUE
    BY <1>6, Zenon DEF Crash, CleanExit, Booted
  <2>2. aged => aged'
    BY <2>1
  <2>3. overlapped => overlapped'
    BY <2>1
  <2>4. discarded => discarded'
    BY <2>1
  <2> QED BY <2>2, <2>3, <2>4
<1>7. ASSUME TimerFires \/ UNCHANGED vars PROVE Kept
  BY <1>7, <1>k DEF TimerFires, vars
<1> HIDE DEF Kept
<1> QED BY <1>1, <1>2, <1>3, <1>4, <1>5, <1>6, <1>7 DEF Next, Request, WriterStep

LEMMA ChainStep == TypeInv /\ ChainInv /\ [Next]_vars => ChainInv'
<1> SUFFICES ASSUME TypeInv, ChainGood, [Next]_vars, ~overlapped' PROVE ChainGood'
  BY RaceStays DEF ChainInv, TypeInv
<1> USE StoreAssumption
<1>t. /\ TypeOK /\ InFlight
      /\ Writers \subseteq Threads /\ Timer \in Threads /\ Timer \notin Writers
  BY DEF TypeInv, Threads
<1>c. CopiesGood /\ TableCovers /\ NextFits
  BY DEF ChainGood
<1>l. Locations = {"off", "idle", "waiting", "signing", "minted", "logged",
                   "checked", "serialise", "replace", "clean", "clear"}
  BY DEF Locations
<1>1. ASSUME NEW t \in Writers, NEW a \in Authors, NEW n \in 1..MaxSequence,
             AppendBegins(t, a, n) \/ IngestChecks(t, a, n)
      PROVE  ChainGood'
  <2>1. /\ \A u \in Writers \ {t} : event'[u] = event[u]
        /\ event'[t].by = a /\ event'[t].sequence = n
        /\ Fresh(a, n)
        /\ event'[t].prev = Genesis \/ event'[t].prev = HeadHash(events)
    BY <1>1, <1>t DEF AppendBegins, IngestChecks, TypeOK
  <2>2. /\ \A u \in Writers \ {t} : at'[u] = at[u]
        /\ \/ at'[t] = "signing"
           \/ event'[t].prev = HeadHash(events)
    BY <1>1, <1>t, <1>l, Moves DEF AppendBegins, IngestChecks, TypeOK
  <2>3. UNCHANGED <<events, sequences, file, written>>
    BY <1>1 DEF AppendBegins, IngestChecks, memory, disk
  <2>4. NextFits'
    BY <1>c, <2>1, <2>2, <2>3 DEF NextFits, Fresh
  <2> QED BY <1>c, <2>3, <2>4 DEF ChainGood, CopiesGood, TableCovers
<1>2. ASSUME NEW t \in Writers, EventLinked(t) PROVE ChainGood'
  <2>1. event[t] \in Events /\ at[t] = "signing"
    BY <1>2, <1>t DEF EventLinked, InFlight, Adding
  <2>2. event'[t] = [event[t] EXCEPT !.prev = HeadHash(events)]
    BY <1>2, <1>t DEF EventLinked, TypeOK
  <2>3. /\ event'[t].prev = HeadHash(events)
        /\ event'[t].by = event[t].by /\ event'[t].sequence = event[t].sequence
    BY <2>1, <2>2 DEF Events
  <2>4. UNCHANGED <<events, sequences, file, written>>
    BY <1>2 DEF EventLinked, memory, disk
  <2>6. \A u \in Writers \ {t} : event'[u] = event[u] /\ at'[u] = at[u]
    BY <1>2, <1>t, <1>l, Moves DEF EventLinked, TypeOK
  <2>5. NextFits'
    BY <1>c, <2>1, <2>3, <2>4, <2>6 DEF NextFits, Adding
  <2> QED BY <1>c, <2>4, <2>5 DEF ChainGood, CopiesGood, TableCovers
<1>3. ASSUME NEW t \in Writers, WriteWal(t) PROVE ChainGood'
  <2>1. at[t] = "minted" /\ \A u \in Writers \ {t} : at'[u] = at[u]
    BY <1>3, <1>t, <1>l, Moves DEF WriteWal
  <2>2. UNCHANGED <<events, sequences, file, written, event>>
    BY <1>3 DEF WriteWal, memory
  <2>3. NextFits'
    BY <1>c, <2>1, <2>2 DEF NextFits, Adding
  <2> QED BY <1>c, <2>2, <2>3 DEF ChainGood, CopiesGood, TableCovers
<1>4. ASSUME NEW t \in Writers, EventAdded(t) PROVE ChainGood'
  <2> DEFINE e == event[t]
  <2>1. /\ e \in Events /\ at[t] \in Adding \ {"signing"}
        /\ e.prev = HeadHash(events) /\ e.sequence > sequences[e.by]
    BY <1>4, <1>t, <1>c DEF EventAdded, InFlight, NextFits, Adding
  <2>2. /\ events' = Append(events, e)
        /\ sequences' = [sequences EXCEPT ![e.by] = e.sequence]
        /\ UNCHANGED <<file, written>>
    BY <1>4 DEF EventAdded, disk
  <2> HIDE DEF e
  <2>3. \A i \in DOMAIN events : events[i] \in Events
    BY <1>t, LenProperties, ElementOfSeq DEF TypeOK
  <2>4. \A i \in DOMAIN events : /\ events[i].by \in Authors
                                 /\ events[i].sequence \in Nat
    BY <2>3 DEF Events
  <2>5. e.by \in Authors /\ e.sequence \in Nat
    BY <2>1 DEF Events
  <2>6. \A a \in Authors : sequences[a] \in Nat
    BY <1>t DEF TypeOK
  <2>7. \A i \in DOMAIN events : events[i].by = e.by => events[i].sequence < e.sequence
    BY <1>c, <2>1, <2>4, <2>5, <2>6 DEF TableCovers
  <2>8. Good(events')
    BY <1>t, <1>c, <2>1, <2>2, <2>7, AppendGood DEF TypeOK, CopiesGood
  <2>9. TableCovers'
    <3>1. /\ DOMAIN events' = 1..(Len(events) + 1) /\ DOMAIN events = 1..Len(events)
          /\ \A i \in 1..Len(events) : events'[i] = events[i]
          /\ events'[Len(events) + 1] = e
      BY <1>t, <2>1, <2>2, AppendProperties, LenProperties DEF TypeOK
    <3>2. /\ sequences'[e.by] = e.sequence
          /\ \A a \in Authors \ {e.by} : sequences'[a] = sequences[a]
      BY <1>t, <2>2, <2>5 DEF TypeOK
    <3>3. ASSUME NEW i \in DOMAIN events
          PROVE  events[i].sequence <= sequences'[events[i].by]
      BY <1>c, <2>4, <2>5, <2>7, <3>2, <3>3 DEF TableCovers
    <3>4. Len(events) \in Nat
      BY <1>t, LenProperties DEF TypeOK
    <3> QED BY <2>5, <3>1, <3>2, <3>3, <3>4 DEF TableCovers
  <2>10. NextFits'
    <3>1. at'[t] = "idle" /\ \A u \in Writers \ {t} : at'[u] = at[u]
      BY <1>4, <1>t, Moves DEF EventAdded
    <3>2. \A u \in Writers \ {t} : at[u] \notin Adding
      BY <1>4, <1>t, OverlapsType DEF EventAdded
    <3> QED BY <3>1, <3>2 DEF NextFits, Adding
  <2> QED BY <1>c, <2>2, <2>8, <2>9, <2>10 DEF ChainGood, CopiesGood
<1>5. ASSUME NEW t \in Writers, NEW a \in Authors, NEW n \in 1..MaxPrivate,
             SequenceUsed(t, a, n)
      PROVE  ChainGood'
  <2>1. /\ at'[t] = "idle"
        /\ \A u \in Writers \ {t} : at'[u] = at[u]
    BY <1>5, <1>t, Moves DEF SequenceUsed
  <2>2. UNCHANGED <<events, sequences, event, file, written>>
    BY <1>5 DEF SequenceUsed, disk
  <2> QED BY <1>c, <2>1, <2>2, QuietStep DEF CopiesGood, Adding
<1>6. ASSUME NEW t \in Writers, ResetChain(t) PROVE ChainGood'
  <2>1. at'[t] = "serialise" /\ \A u \in Writers \ {t} : at'[u] = at[u]
    BY <1>6, <1>t, <1>l, Moves DEF ResetChain
  <2>4. \A u \in Writers \ {t} : at[u] \notin Adding
    BY <1>6, <1>t, OverlapsType DEF ResetChain
  <2>2. events' = <<>> /\ UNCHANGED <<file, written>>
    BY <1>6 DEF ResetChain, disk
  <2>3. Good(events') /\ TableCovers' /\ NextFits'
    BY <2>1, <2>2, <2>4, EmptyGood DEF TableCovers, NextFits, Adding
  <2> QED BY <1>c, <2>2, <2>3 DEF ChainGood, CopiesGood
<1>7. CASE TimerFires
  <2>1. \A u \in Threads \ {Timer} : at'[u] = at[u]
    BY <1>7, <1>t, <1>l, Moves DEF TimerFires
  <2>2. UNCHANGED <<events, sequences, event, file, written>>
    BY <1>7 DEF TimerFires, memory, disk
  <2> QED BY <1>c, <1>t, <2>1, <2>2, QuietStep DEF CopiesGood
<1>8. ASSUME NEW t \in Threads, FlushStep(t) \/ FlushFails(t) PROVE ChainGood'
  <2>r. AtRest(t) \in Locations \ Adding
    BY <1>l DEF AtRest, Adding
  <2>1. PICK l \in Locations \ Adding : Goto(t, l)
    BY <1>8, <1>l, <2>r
       DEF FlushStep, FlushFails, Serialise, ReplaceFile, MarkClean, ClearWal, Adding
  <2>2. at'[t] = l /\ \A u \in Threads \ {t} : at'[u] = at[u]
    BY <2>1, <1>t, Moves
  <2>3. \/ written' = [written EXCEPT ![t] = Chain(events, domains)]
        \/ written' = [written EXCEPT ![t] = Empty]
        \/ written' = written
    BY <1>8
       DEF FlushStep, FlushFails, Serialise, ReplaceFile, MarkClean, ClearWal
  <2>4. \A u \in Threads : Good(written'[u].events)
    <3>1. /\ Chain(events, domains).events = events
          /\ Empty.events = <<>>
          /\ \A x : (written' = [written EXCEPT ![t] = x]) =>
               \A u \in Threads : written'[u] = x \/ written'[u] = written[u]
      BY <1>t, EmptyChain DEF Chain, TypeOK
    <3>2. \A u \in Threads : \/ written'[u] = Chain(events, domains)
                             \/ written'[u] = Empty
                             \/ written'[u] = written[u]
      BY <2>3, <3>1
    <3> QED BY <3>1, <3>2, <1>c, EmptyGood DEF CopiesGood
  <2>5. file' = file \/ file' = written[t]
    BY <1>8
       DEF FlushStep, FlushFails, Serialise, ReplaceFile, MarkClean, ClearWal, disk
  <2>6. Good(file'.events)
    BY <2>5, <1>c DEF CopiesGood
  <2>7. UNCHANGED <<events, sequences, event>>
    BY <1>8
       DEF FlushStep, FlushFails, Serialise, ReplaceFile, MarkClean, ClearWal, memory
  <2> QED BY <1>t, <2>1, <2>2, <2>4, <2>6, <2>7, QuietStep
<1>9. CASE Crash
  <2>1. file \in Chains /\ wal \in Events \cup {NoEvent} /\ Good(file.events)
    BY <1>t, <1>c DEF TypeOK, Chains, Tables, CopiesGood
  <2> QED BY <1>9, <2>1, BootedGood DEF Crash
<1>10. CASE CleanExit
  <2>1. /\ file \in Chains /\ wal \in Events \cup {NoEvent} /\ Good(file.events)
        /\ Chain(events, domains) \in Chains
        /\ Good(Chain(events, domains).events)
    BY <1>t, <1>c DEF TypeOK, Chains, Tables, Chain, CopiesGood
  <2> QED BY <1>10, <2>1, BootedGood DEF CleanExit
<1>11. CASE UNCHANGED vars
  BY <1>11, <1>c, QuietStep DEF vars, memory, disk, locals, CopiesGood
<1> QED BY <1>1, <1>2, <1>3, <1>4, <1>5, <1>6, <1>7, <1>8, <1>9, <1>10, <1>11
           DEF Next, Request, WriterStep

LEMMA ChainInvariant == Spec => []ChainInv
BY TypeInit, TypeStep, ChainInit, ChainStep, PTL DEF Spec

\* Any number of threads add events.  As long as none adds one, or resets the
\* chain, while another is adding, the chain links in memory and on disk, through
\* saves, resets, outages, crashes, failed writes and replays of the WAL: that race
\* is the only way to break what validate_chain checks.
THEOREM LinksUntilARace == Spec => []ChainLinks
<1>1. ChainInv => ChainLinks
  BY DEF ChainInv, ChainGood, CopiesGood, Good, ChainLinks, AlwaysLinked
<1> QED BY ChainInvariant, <1>1, PTL

\* Until such a race no author's sequence number comes twice or goes back along the
\* chain, however often the table of last sequences is rebuilt from a file that is
\* behind the chain that was lost.
THEOREM SequencesUntilARace == Spec => []SequencesIncrease
<1>1. ChainInv => SequencesIncrease
  BY DEF ChainInv, ChainGood, CopiesGood, Good, Increasing, SequencesIncrease
<1> QED BY ChainInvariant, <1>1, PTL

-----------------------------------------------------------------------------
(***************************************************************************)
(* The store as an append-only log, until a race, a reset or an outage.    *)
(*                                                                         *)
(* The file is a beginning of the chain, and so is what the timer is about *)
(* to write.  That a start keeps the file rests on the WAL: the logged     *)
(* event is in the chain or about to join it, and of its author no event   *)
(* before it has its number or a higher one.  So an event that is missing  *)
(* from the file is ahead of every number the file holds, ingest_events    *)
(* accepts it, and _load never falls back to an empty chain.               *)
(***************************************************************************)
FileBehind ==
  /\ IsPrefix(file.events, events)
  /\ \A t \in Writers : at[t] \notin {"serialise", "replace", "clean", "clear"}
  /\ at[Timer] = "replace" => /\ IsPrefix(file.events, written[Timer].events)
                              /\ IsPrefix(written[Timer].events, events)
WalHeld ==
  wal # NoEvent => \/ wal.id \in Ids(events)
                   \/ \E t \in Writers : at[t] = "logged" /\ event[t] = wal
WalAhead ==
  wal # NoEvent =>
    \A i \in DOMAIN events :
      events[i].by = wal.by /\ events[i].sequence >= wal.sequence
        => \E j \in 1..i : events[j].id = wal.id
LogGood == FileBehind /\ WalHeld /\ WalAhead
LogInv == Undisturbed => LogGood

\* A sequence begins another iff it is no longer and agrees with it.
LEMMA PrefixPoints ==
  ASSUME NEW c \in Seq(Events), NEW d \in Seq(Events)
  PROVE  IsPrefix(c, d) <=> Len(c) <= Len(d) /\ \A i \in 1..Len(c) : c[i] = d[i]
<1>1. SubSeq(c, 1, Len(c)) = c /\ Len(c) \in Nat /\ Len(d) \in Nat
  BY SubSeqFull, LenProperties
<1>2. CASE Len(c) <= Len(d)
  <2> DEFINE e == SubSeq(d, 1, Len(c))
  <2>1. e \in Seq(Events) /\ Len(e) = Len(c) /\ \A i \in 1..Len(c) : e[i] = d[i]
    BY <1>1, <1>2
  <2>2. c = e <=> \A i \in 1..Len(c) : c[i] = d[i]
    BY <2>1, SeqEqual
  <2> QED BY <1>1, <1>2, <2>2 DEF IsPrefix
<1>3. CASE ~(Len(c) <= Len(d))
  BY <1>3 DEF IsPrefix
<1> QED BY <1>2, <1>3

LEMMA PrefixSelf == ASSUME NEW c \in Seq(Events) PROVE IsPrefix(c, c)
BY PrefixPoints, LenProperties

LEMMA PrefixTrans ==
  ASSUME NEW c \in Seq(Events), NEW d \in Seq(Events), NEW e \in Seq(Events),
         IsPrefix(c, d), IsPrefix(d, e)
  PROVE  IsPrefix(c, e)
<1>1. Len(c) \in Nat /\ Len(d) \in Nat /\ Len(e) \in Nat
  BY LenProperties
<1>2. Len(c) <= Len(d) /\ \A i \in 1..Len(c) : c[i] = d[i]
  BY PrefixPoints
<1>3. Len(d) <= Len(e) /\ \A i \in 1..Len(d) : d[i] = e[i]
  BY PrefixPoints
<1>4. Len(c) <= Len(e) /\ \A i \in 1..Len(c) : c[i] = e[i]
  BY <1>1, <1>2, <1>3
<1> QED BY <1>4, PrefixPoints

LEMMA PrefixAppend ==
  ASSUME NEW c \in Seq(Events), NEW e \in Events
  PROVE  Append(c, e) \in Seq(Events) /\ IsPrefix(c, Append(c, e))
<1> DEFINE d == Append(c, e)
<1>1. d \in Seq(Events) /\ Len(d) = Len(c) + 1 /\ \A i \in 1..Len(c) : d[i] = c[i]
  BY AppendProperties
<1>2. Len(c) \in Nat /\ Len(c) <= Len(d)
  BY <1>1, LenProperties
<1> HIDE DEF d
<1>3. d \in Seq(Events) /\ IsPrefix(c, d)
  BY <1>1, <1>2, PrefixPoints
<1> QED BY <1>3 DEF d

\* A beginning of a chain is the chain cut at its length.
LEMMA PrefixCut ==
  ASSUME NEW c \in Seq(Events), NEW d \in Seq(Events), IsPrefix(c, d)
  PROVE  Len(c) \in 0..Len(d) /\ c = SubSeq(d, 1, Len(c))
<1>1. SubSeq(c, 1, Len(c)) = c /\ Len(c) \in Nat /\ Len(d) \in Nat
  BY SubSeqFull, LenProperties
<1> QED BY <1>1 DEF IsPrefix

\* Every event of a chain is an event.
LEMMA EventsOf ==
  ASSUME NEW s \in Seq(Events)
  PROVE  /\ DOMAIN s = 1..Len(s) /\ Len(s) \in Nat
         /\ \A i \in DOMAIN s : /\ s[i] \in Events
                                /\ s[i].by \in Authors
                                /\ s[i].sequence \in Nat
<1>1. \A i \in DOMAIN s : s[i] \in Events
  BY LenProperties, ElementOfSeq
<1> QED BY <1>1, LenProperties DEF Events

\* The crux: until then, ingest_events accepts what the WAL would replay.
LEMMA ReplayAccepted ==
  ASSUME TypeInv, LogGood, Replayable(wal, file)
  PROVE  Accepted(wal, file)
<1> DEFINE s == file.events
<1>1. /\ s \in Seq(Events) /\ events \in Seq(Events)
      /\ wal \in Events /\ wal # NoEvent /\ wal.id \notin Ids(s)
      /\ IsPrefix(s, events)
  BY DEF TypeInv, TypeOK, Replayable, LogGood, FileBehind
<1>2. wal.by \in Authors /\ wal.sequence \in Nat /\ wal.sequence > 0
  BY <1>1, StoreAssumption DEF Events
<1> HIDE DEF s
<1>3. /\ DOMAIN s = 1..Len(s) /\ DOMAIN events = 1..Len(events)
      /\ Len(s) \in Nat /\ Len(events) \in Nat
      /\ Len(s) <= Len(events) /\ \A i \in 1..Len(s) : s[i] = events[i]
  BY <1>1, PrefixPoints, EventsOf
<1>4. ASSUME NEW i \in DOMAIN s, s[i].by = wal.by PROVE s[i].sequence < wal.sequence
  <2>1. s[i].sequence \in Nat
    BY <1>1, EventsOf
  <2> SUFFICES ASSUME s[i].sequence >= wal.sequence PROVE FALSE
    BY <1>2, <2>1
  <2>2. i \in DOMAIN events /\ events[i] = s[i]
    BY <1>3
  <2>3. PICK j \in 1..i : events[j].id = wal.id
    BY <1>1, <1>4, <2>2 DEF LogGood, WalAhead
  <2>4. j \in DOMAIN s /\ s[j].id = wal.id
    BY <1>3, <2>3
  <2> QED BY <1>1, <2>4 DEF Ids
<1>5. \/ Rebuilt(s)[wal.by] = 0
      \/ \E i \in DOMAIN s : s[i].by = wal.by /\ s[i].sequence = Rebuilt(s)[wal.by]
  BY <1>1, <1>2, RebuiltTable
<1>6. wal.sequence > Rebuilt(s)[wal.by]
  BY <1>2, <1>4, <1>5
<1> QED BY <1>6 DEF Accepted, s

LEMMA LogInit == Init => LogInv
<1> SUFFICES ASSUME Init PROVE LogInv
  OBVIOUS
<1>1. events = <<>> /\ file.events = <<>> /\ wal = NoEvent
  BY DEF Init, Empty, Chain
<1>2. IsPrefix(file.events, events)
  BY <1>1, PrefixSelf, EmptySeq
<1>3. /\ \A t \in Writers : at[t] = "idle"
      /\ at[Timer] = "off"
  BY StoreAssumption DEF Init, AtRest, Threads
<1> QED BY <1>1, <1>2, <1>3 DEF LogInv, LogGood, FileBehind, WalHeld, WalAhead

\* Steps that leave the chain and its copies as they are, keep the WAL or remove it,
\* and do not touch an event that was logged and is about to join the chain.
LEMMA LogQuiet ==
  ASSUME LogGood,
         UNCHANGED <<events, file, written>>, wal' \in {wal, NoEvent},
         at'[Timer] = "replace" => at[Timer] = "replace",
         \A t \in Writers : at'[t] \notin {"serialise", "replace", "clean", "clear"}
                            \/ at'[t] = at[t],
         \A t \in Writers : at[t] = "logged" => at'[t] = "logged" /\ event'[t] = event[t]
  PROVE  LogGood'
<1>1. FileBehind /\ WalHeld /\ WalAhead
  BY DEF LogGood
<1>2. FileBehind'
  BY <1>1 DEF FileBehind
<1>3. WalHeld'
  BY <1>1 DEF WalHeld
<1>4. WalAhead'
  BY <1>1 DEF WalAhead
<1> QED BY <1>2, <1>3, <1>4 DEF LogGood

\* A start before any such thing, from the files a crash left or from the chain a clean
\* exit flushed: the chain begins with what the file held, and either is that or
\* ends with the event of the WAL.
LEMMA BootedLog ==
  ASSUME TypeInv, LogGood, ~aged',
         NEW chain \in Chains, NEW log \in Events \cup {NoEvent}, Booted(chain, log),
         \/ chain = file /\ log = wal
         \/ chain = Chain(events, domains) /\ log = NoEvent
  PROVE  /\ file' \in Chains
         /\ IsPrefix(chain.events, file'.events) /\ IsPrefix(file'.events, events')
         /\ \/ events' = chain.events
            \/ Replayable(log, chain) /\ events' = Append(chain.events, log)
         /\ LogGood'
<1> USE StoreAssumption
<1>c. chain.events \in Seq(Events)
  BY DEF Chains
<1>a. /\ \A t \in Writers : at'[t] = "idle"
      /\ at'[Timer] \in {"off", "waiting"}
  BY DEF Booted, AtRest, Threads
<1>1. Replayable(log, chain) => Accepted(log, chain)
  BY ReplayAccepted DEF Replayable
<1>2. CASE Loaded(chain) /\ file' = chain /\ wal' = NoEvent
  <2>1. events' = chain.events /\ file'.events = chain.events
    BY <1>2 DEF Loaded
  <2>2. IsPrefix(chain.events, chain.events)
    BY <1>c, PrefixSelf
  <2>3. LogGood'
    BY <1>a, <1>2, <2>1, <2>2 DEF LogGood, FileBehind, WalHeld, WalAhead
  <2> QED BY <1>2, <2>1, <2>2, <2>3
<1>3. CASE Replayable(log, chain) /\ Accepted(log, chain)
           /\ LET longer == Chain(Append(chain.events, log), chain.domains)
              IN  /\ Loaded(longer)
                  /\ \/ file' = longer /\ wal' = NoEvent /\ dirty' = FALSE
                     \/ file' = chain /\ wal' = log /\ dirty' = TRUE
  <2> DEFINE longer == Chain(Append(chain.events, log), chain.domains)
             s == chain.events
             r == Append(s, log)
  <2>1. log \in Events
    BY <1>3 DEF Replayable
  <2>2. r \in Seq(Events) /\ IsPrefix(s, r)
    BY <1>c, <2>1, PrefixAppend
  <2>3. longer \in Chains /\ longer.events = r
    BY <2>2 DEF Chain, Chains
  <2>4. events' = r
    BY <1>3, <2>3 DEF Loaded
  <2>5. \/ file' = longer /\ wal' = NoEvent
        \/ file' = chain /\ wal' = log
    BY <1>3
  <2>6. /\ file' \in Chains
        /\ IsPrefix(s, file'.events) /\ IsPrefix(file'.events, events')
    <3>1. IsPrefix(s, s) /\ IsPrefix(r, r)
      BY <1>c, <2>2, PrefixSelf
    <3> HIDE DEF longer, r, s
    <3> QED BY <2>2, <2>3, <2>4, <2>5, <3>1 DEF s
  <2>7. FileBehind'
    BY <1>a, <2>6 DEF FileBehind
  <2>8. /\ Len(r) = Len(s) + 1 /\ Len(s) \in Nat /\ DOMAIN r = 1..(Len(s) + 1)
        /\ DOMAIN s = 1..Len(s)
        /\ \A i \in 1..Len(s) : r[i] = s[i]
        /\ r[Len(s) + 1] = log
    <3>1. r \in Seq(Events) /\ Len(r) = Len(s) + 1
          /\ (\A i \in 1..Len(s) : r[i] = s[i]) /\ r[Len(s) + 1] = log
      BY <1>c, <2>1, AppendProperties
    <3> QED BY <1>c, <2>2, <3>1, EventsOf
  <2>9. WalHeld'
    <3> HIDE DEF r, s
    <3>1. log.id \in Ids(r)
      BY <2>8 DEF Ids
    <3> QED BY <2>4, <2>5, <3>1 DEF WalHeld
  <2>10. WalAhead'
    <3>t. log.by \in Authors /\ log.sequence \in Nat
      BY <2>1 DEF Events
    <3>2. \A i \in DOMAIN s : s[i].sequence \in Nat
      BY <1>c, EventsOf
    <3>1. ASSUME NEW i \in DOMAIN s, s[i].by = log.by
          PROVE  s[i].sequence < log.sequence
      <4>1. s[i].sequence <= Rebuilt(s)[s[i].by] /\ Rebuilt(s) \in Tables
        BY <1>c, RebuiltTable
      <4>2. Rebuilt(s)[log.by] \in Nat
        BY <3>t, <4>1 DEF Tables
      <4>3. log.sequence > Rebuilt(s)[log.by]
        BY <1>3 DEF Accepted
      <4> QED BY <3>1, <3>t, <3>2, <4>1, <4>2, <4>3
    <3> HIDE DEF r, s
    <3>3. ASSUME NEW i \in DOMAIN r, r[i].by = log.by, r[i].sequence >= log.sequence
          PROVE  \E j \in 1..i : r[j].id = log.id
      <4>1. i = Len(s) + 1
        BY <2>8, <3>t, <3>1, <3>2, <3>3
      <4> QED BY <2>8, <4>1
    <3> QED BY <2>4, <2>5, <3>3 DEF WalAhead
  <2> QED BY <1>3, <2>4, <2>6, <2>7, <2>9, <2>10 DEF LogGood
<1>4. ~(Replayable(log, chain) /\ aged' = TRUE)
  BY Zenon
<1> QED BY <1>1, <1>2, <1>3, <1>4 DEF Booted

LEMMA DisturbedStays == TypeOK /\ [Next]_vars /\ Undisturbed' => Undisturbed
BY RaceStays, Zenon DEF Undisturbed

LEMMA LogStep ==
  TypeInv /\ ChainInv /\ LogInv /\ [Next]_vars => LogInv'
<1> SUFFICES ASSUME TypeInv, ChainGood, LogGood, [Next]_vars,
                    ~discarded', ~overlapped', ~aged'
             PROVE  LogGood'
  BY DisturbedStays, Zenon DEF LogInv, ChainInv, TypeInv, Undisturbed
<1> USE StoreAssumption
<1>t. /\ TypeOK /\ InFlight
      /\ Writers \subseteq Threads /\ Timer \in Threads /\ Timer \notin Writers
      /\ Threads = Writers \cup {Timer}
  BY DEF TypeInv, Threads
<1>l. Locations = {"off", "idle", "waiting", "signing", "minted", "logged",
                   "checked", "serialise", "replace", "clean", "clear"}
  BY DEF Locations
<1>i. FileBehind /\ WalHeld /\ WalAhead
  BY DEF LogGood
<1>1. ASSUME NEW t \in Writers, NEW a \in Authors, NEW n \in 1..MaxSequence,
             AppendBegins(t, a, n) \/ IngestChecks(t, a, n)
      PROVE  LogGood'
  <2>1. PICK l \in {"signing", "checked"} : Goto(t, l)
    BY <1>1 DEF AppendBegins, IngestChecks
  <2>2. at'[t] = l /\ \A u \in Threads \ {t} : at'[u] = at[u]
    BY <2>1, <1>t, <1>l, Moves
  <2>3. at[t] = "idle" /\ UNCHANGED <<events, file, wal, written>>
    BY <1>1 DEF AppendBegins, IngestChecks, memory, disk
  <2>4. \A u \in Writers \ {t} : event'[u] = event[u]
    BY <1>1, <1>t DEF AppendBegins, IngestChecks, TypeOK
  <2> QED BY <1>t, <2>1, <2>2, <2>3, <2>4, LogQuiet
<1>2. ASSUME NEW t \in Writers, EventLinked(t) PROVE LogGood'
  <2>1. at'[t] = "minted" /\ \A u \in Threads \ {t} : at'[u] = at[u]
    BY <1>2, <1>t, <1>l, Moves DEF EventLinked
  <2>2. at[t] = "signing" /\ UNCHANGED <<events, file, wal, written>>
    BY <1>2 DEF EventLinked, memory, disk
  <2>3. \A u \in Writers \ {t} : event'[u] = event[u]
    BY <1>2, <1>t DEF EventLinked, TypeOK
  <2> QED BY <1>t, <2>1, <2>2, <2>3, LogQuiet
<1>3. ASSUME NEW t \in Writers, WriteWal(t) PROVE LogGood'
  <2>1. at'[t] = "logged" /\ \A u \in Threads \ {t} : at'[u] = at[u]
    BY <1>3, <1>t, <1>l, Moves DEF WriteWal
  <2>2. /\ at[t] = "minted" /\ UNCHANGED <<events, file, event, written>>
        /\ wal' = event[t] \/ wal' = wal
    BY <1>3 DEF WriteWal, memory
  <2>4. FileBehind'
    BY <1>i, <1>t, <2>1, <2>2 DEF FileBehind
  <2>5. WalHeld'
    BY <1>i, <1>t, <2>1, <2>2 DEF WalHeld
  <2>6. WalAhead'
    <3>1. CASE wal' = wal
      BY <1>i, <2>2, <3>1 DEF WalAhead
    <3>2. CASE wal' = event[t]
      <4> DEFINE e == event[t]
      <4>1. e \in Events /\ e.sequence > sequences[e.by]
        BY <1>t, <2>2 DEF InFlight, ChainGood, NextFits, Adding
      <4>2. e.by \in Authors /\ e.sequence \in Nat
        BY <4>1 DEF Events
      <4>3. \A i \in DOMAIN events : /\ events[i].by \in Authors
                                     /\ events[i].sequence \in Nat
                                     /\ events[i].sequence <= sequences[events[i].by]
        BY <1>t, EventsOf DEF TypeOK, ChainGood, TableCovers
      <4>4. \A x \in Authors : sequences[x] \in Nat
        BY <1>t DEF TypeOK
      <4> HIDE DEF e
      <4>5. \A i \in DOMAIN events : ~(events[i].by = e.by /\ events[i].sequence >= e.sequence)
        BY <4>1, <4>2, <4>3, <4>4
      <4> QED BY <2>2, <3>2, <4>5 DEF WalAhead, e
    <3> QED BY <2>2, <3>1, <3>2
  <2> QED BY <2>4, <2>5, <2>6 DEF LogGood
<1>4. ASSUME NEW t \in Writers, EventAdded(t) PROVE LogGood'
  <2> DEFINE e == event[t]
  <2>1. e \in Events
    BY <1>4, <1>t DEF EventAdded, InFlight, Adding
  <2>2. /\ events' = Append(events, e)
        /\ UNCHANGED <<file, wal, written>>
        /\ Saved(t)
    BY <1>4 DEF EventAdded, disk
  <2>3. \A u \in Writers \ {t} : at[u] \notin Adding /\ at'[u] = at[u]
    BY <1>4, <1>t, OverlapsType, Moves DEF EventAdded
  <2>4. wal # NoEvent => wal.id \in Ids(events) \/ wal = e
    BY <1>i, <2>3 DEF WalHeld, Adding
  <2>5. at'[t] = "idle" /\ (at'[Timer] = "replace" => at[Timer] = "replace")
    BY <2>2, <1>t DEF Saved, TypeOK
  <2> HIDE DEF e
  <2>e. events \in Seq(Events) /\ file.events \in Seq(Events)
        /\ written[Timer].events \in Seq(Events)
    BY <1>t DEF TypeOK
  <2>6. events' \in Seq(Events) /\ IsPrefix(events, events')
    BY <2>1, <2>2, <2>e, PrefixAppend
  <2>7. FileBehind'
    <3>1. IsPrefix(file.events, events')
      BY <1>i, <2>6, <2>e, PrefixTrans DEF FileBehind
    <3>2. at[Timer] = "replace" => IsPrefix(written[Timer].events, events')
      BY <1>i, <2>6, <2>e, PrefixTrans DEF FileBehind
    <3> QED BY <1>i, <2>2, <2>3, <2>5, <3>1, <3>2 DEF FileBehind
  <2>8. /\ DOMAIN events' = 1..(Len(events) + 1) /\ DOMAIN events = 1..Len(events)
        /\ Len(events) \in Nat
        /\ \A i \in 1..Len(events) : events'[i] = events[i]
        /\ events'[Len(events) + 1] = e
    BY <2>1, <2>2, <2>e, AppendProperties, LenProperties
  <2>9. wal # NoEvent => wal.id \in Ids(events')
    BY <2>4, <2>8 DEF Ids
  <2>10. WalHeld'
    BY <2>2, <2>9 DEF WalHeld
  <2>11. WalAhead'
    <3> SUFFICES ASSUME wal # NoEvent, NEW i \in DOMAIN events',
                        events'[i].by = wal.by, events'[i].sequence >= wal.sequence
                 PROVE  \E j \in 1..i : events'[j].id = wal.id
      BY <2>2 DEF WalAhead
    <3>1. CASE i \in DOMAIN events
      <4>1. PICK j \in 1..i : events[j].id = wal.id
        BY <1>i, <2>8, <3>1 DEF WalAhead
      <4> QED BY <2>8, <3>1, <4>1
    <3>2. CASE i = Len(events) + 1
      BY <2>4, <2>8, <3>2 DEF Ids
    <3> QED BY <2>8, <3>1, <3>2
  <2> QED BY <2>7, <2>10, <2>11 DEF LogGood
<1>5. ASSUME NEW t \in Writers, NEW a \in Authors, NEW n \in 1..MaxPrivate,
             SequenceUsed(t, a, n)
      PROVE  LogGood'
  <2>1. /\ at[t] = "idle" /\ Saved(t)
        /\ UNCHANGED <<events, file, wal, written, event>>
    BY <1>5 DEF SequenceUsed, disk
  <2>2. \A u \in Writers \ {t} : at'[u] = at[u]
    BY <2>1, <1>t, Moves
  <2>3. at'[t] = "idle" /\ (at'[Timer] = "replace" => at[Timer] = "replace")
    BY <2>1, <1>t DEF Saved, TypeOK
  <2> QED BY <2>1, <2>2, <2>3, LogQuiet
<1>6. CASE TimerFires
  <2>1. at'[Timer] = "serialise" /\ \A u \in Writers : at'[u] = at[u]
    BY <1>6, <1>t, <1>l, Moves DEF TimerFires
  <2>2. UNCHANGED <<events, file, wal, written, event>>
    BY <1>6 DEF TimerFires, memory, disk
  <2> QED BY <2>1, <2>2, LogQuiet
<1>7. ASSUME NEW t \in Threads, FlushStep(t) \/ FlushFails(t) PROVE LogGood'
  <2>1. t = Timer
    BY <1>7, <1>t, <1>i
       DEF FileBehind, FlushStep, FlushFails, Serialise, ReplaceFile, MarkClean, ClearWal
  <2>r. AtRest(t) = "off"
    BY <2>1 DEF AtRest
  <2>e. /\ events \in Seq(Events) /\ file.events \in Seq(Events)
        /\ UNCHANGED <<events, event>>
    BY <1>t, <1>7 DEF TypeOK, memory,
       FlushStep, FlushFails, Serialise, ReplaceFile, MarkClean, ClearWal
  <2>2. CASE Serialise(t) /\ dirty
    <3>1. /\ Goto(t, "replace") /\ UNCHANGED <<file, wal>>
          /\ written' = [written EXCEPT ![t] = Chain(events, domains)]
      BY <2>2 DEF Serialise, disk
    <3>2. at'[Timer] = "replace" /\ \A u \in Writers : at'[u] = at[u]
      BY <3>1, <2>1, <1>t, <1>l, Moves
    <3>3. written'[Timer].events = events
      BY <3>1, <2>1, <1>t DEF TypeOK, Chain
    <3>4. IsPrefix(events, events)
      BY <2>e, PrefixSelf
    <3>5. FileBehind'
      BY <1>i, <2>e, <3>1, <3>2, <3>3, <3>4 DEF FileBehind
    <3>6. WalHeld' /\ WalAhead'
      BY <1>i, <2>e, <3>1, <3>2 DEF WalHeld, WalAhead
    <3> QED BY <3>5, <3>6 DEF LogGood
  <2>3. CASE ReplaceFile(t)
    <3>1. /\ Goto(t, "clean") /\ file' = written[t] /\ wal' = wal
          /\ at[t] = "replace"
      BY <2>3 DEF ReplaceFile
    <3>2. at'[Timer] = "clean" /\ \A u \in Writers : at'[u] = at[u]
      BY <3>1, <2>1, <1>t, <1>l, Moves
    <3>3. FileBehind'
      BY <1>i, <2>1, <2>e, <3>1, <3>2 DEF FileBehind
    <3>4. WalHeld' /\ WalAhead'
      BY <1>i, <2>e, <3>1, <3>2 DEF WalHeld, WalAhead
    <3> QED BY <3>3, <3>4 DEF LogGood
  <2>4. CASE (Serialise(t) /\ ~dirty) \/ FlushFails(t) \/ MarkClean(t) \/ ClearWal(t)
    <3>1. /\ file' = file /\ wal' \in {wal, NoEvent}
          /\ Goto(t, "off") \/ Goto(t, "clear")
      BY <2>4, <2>r DEF Serialise, FlushFails, MarkClean, ClearWal, disk
    <3>2. at'[Timer] \in {"off", "clear"} /\ \A u \in Writers : at'[u] = at[u]
      BY <3>1, <2>1, <1>t, <1>l, Moves
    <3>3. FileBehind'
      BY <1>i, <2>e, <3>1, <3>2 DEF FileBehind
    <3>4. WalHeld' /\ WalAhead'
      BY <1>i, <2>e, <3>1, <3>2 DEF WalHeld, WalAhead
    <3> QED BY <3>3, <3>4 DEF LogGood
  <2> QED BY <1>7, <2>2, <2>3, <2>4 DEF FlushStep
<1>8. CASE Crash \/ CleanExit
  <2>1. /\ file \in Chains /\ wal \in Events \cup {NoEvent}
        /\ Chain(events, domains) \in Chains
    BY <1>t DEF TypeOK, Chains, Tables, Chain
  <2> QED BY <1>8, <2>1, BootedLog DEF Crash, CleanExit
<1>9. CASE UNCHANGED vars
  BY <1>9, LogQuiet DEF vars, memory, disk, locals
<1>10. \A t \in Writers : ~ResetChain(t)
  BY DEF ResetChain
<1> QED BY <1>1, <1>2, <1>3, <1>4, <1>5, <1>6, <1>7, <1>8, <1>9, <1>10
           DEF Next, Request, WriterStep

\* Every step on an undisturbed store, as the abstract log sees it.
LEMMA LogMoves ==
  ASSUME TypeInv, LogGood, [Next]_vars, ~discarded', ~aged'
  PROVE  \/ \E e \in Events : events' = Append(events, e) /\ file' = file
         \/ events' = events /\ IsPrefix(file.events, file'.events)
                             /\ IsPrefix(file'.events, events)
         \/ /\ IsPrefix(file.events, file'.events) /\ IsPrefix(file'.events, events')
            /\ \/ IsPrefix(events', events)
               \/ \E e \in Events : \E n \in 0..Len(events) :
                    events' = Append(SubSeq(events, 1, n), e)
<1> USE StoreAssumption
<1>t. /\ TypeOK /\ InFlight
      /\ Threads = Writers \cup {Timer} /\ Timer \notin Writers
      /\ events \in Seq(Events) /\ file.events \in Seq(Events)
  BY DEF TypeInv, Threads, TypeOK
<1>i. /\ IsPrefix(file.events, events)
      /\ \A t \in Writers : at[t] \notin {"serialise", "replace", "clean", "clear"}
      /\ at[Timer] = "replace" => /\ IsPrefix(file.events, written[Timer].events)
                                  /\ IsPrefix(written[Timer].events, events)
  BY DEF LogGood, FileBehind
<1>s. IsPrefix(file.events, file.events) /\ IsPrefix(events, events)
  BY <1>t, PrefixSelf
<1>1. ASSUME NEW t \in Writers, EventAdded(t)
      PROVE  \E e \in Events : events' = Append(events, e) /\ file' = file
  <2>1. event[t] \in Events
    BY <1>1, <1>t DEF EventAdded, InFlight, Adding
  <2>2. events' = Append(events, event[t]) /\ file' = file
    BY <1>1 DEF EventAdded, disk
  <2> QED BY <2>1, <2>2
<1>2. ASSUME NEW t \in Threads, ReplaceFile(t)
      PROVE  /\ events' = events
             /\ IsPrefix(file.events, file'.events) /\ IsPrefix(file'.events, events)
  <2>1. t = Timer /\ file' = written[t] /\ events' = events /\ at[t] = "replace"
    BY <1>2, <1>t, <1>i DEF ReplaceFile, memory
  <2> QED BY <2>1, <1>i
<1>3. ASSUME Crash \/ CleanExit
      PROVE  /\ IsPrefix(file.events, file'.events) /\ IsPrefix(file'.events, events')
             /\ \/ IsPrefix(events', events)
                \/ \E e \in Events : \E n \in 0..Len(events) :
                     events' = Append(SubSeq(events, 1, n), e)
  <2> DEFINE whole == Chain(events, domains)
  <2>1. /\ file \in Chains /\ wal \in Events \cup {NoEvent}
        /\ whole \in Chains /\ whole.events = events
    BY <1>t DEF TypeOK, Chains, Tables, Chain
  <2>2. Booted(file, wal) \/ Booted(whole, NoEvent)
    BY <1>3 DEF Crash, CleanExit
  <2>3. ASSUME NEW chain \in Chains, NEW log \in Events \cup {NoEvent}, Booted(chain, log),
               \/ chain = file /\ log = wal
               \/ chain = whole /\ log = NoEvent
        PROVE  /\ IsPrefix(file.events, file'.events) /\ IsPrefix(file'.events, events')
               /\ \/ IsPrefix(events', events)
                  \/ \E e \in Events : \E n \in 0..Len(events) :
                       events' = Append(SubSeq(events, 1, n), e)
    <3>c. chain.events \in Seq(Events) /\ IsPrefix(chain.events, events)
          /\ IsPrefix(file.events, chain.events)
      BY <1>t, <1>i, <1>s, <2>1, <2>3
    <3>1. /\ file' \in Chains
          /\ IsPrefix(chain.events, file'.events) /\ IsPrefix(file'.events, events')
          /\ \/ events' = chain.events
             \/ log \in Events /\ events' = Append(chain.events, log)
      BY <2>3, BootedLog DEF Replayable
    <3>2. file'.events \in Seq(Events)
      BY <3>1 DEF Chains
    <3>3. IsPrefix(file.events, file'.events)
      BY <1>t, <3>c, <3>1, <3>2, PrefixTrans
    <3>4. Len(chain.events) \in 0..Len(events)
          /\ chain.events = SubSeq(events, 1, Len(chain.events))
      BY <1>t, <3>c, PrefixCut
    <3> QED BY <3>c, <3>1, <3>3, <3>4
  <2> HIDE DEF whole
  <2> QED BY <2>1, <2>2, <2>3
<1>4. ASSUME NEW t \in Writers, ~EventAdded(t), Request(t) \/ WriterStep(t)
      PROVE  events' = events /\ file' = file
  BY <1>4 DEF Request, WriterStep, AppendBegins, IngestChecks, SequenceUsed, ResetChain,
              EventLinked, WriteWal, memory, disk
<1>5. ASSUME NEW t \in Threads, ~ReplaceFile(t), FlushStep(t) \/ FlushFails(t)
      PROVE  events' = events /\ file' = file
  BY <1>5 DEF FlushStep, FlushFails, Serialise, MarkClean, ClearWal, memory, disk
<1>6. CASE TimerFires \/ UNCHANGED vars
  <2>1. events' = events /\ file' = file
    BY <1>6 DEF TimerFires, vars, memory, disk
  <2> QED BY <2>1, <1>i, <1>s
<1> QED BY <1>1, <1>2, <1>3, <1>4, <1>5, <1>6, <1>i, <1>s DEF Next

LEMMA LedgerInit == Init => Ledger!Init
<1> SUFFICES ASSUME Init PROVE Ledger!Init
  OBVIOUS
<1>1. Empty.events = <<>>
  BY DEF Empty, Chain
<1>2. Undisturbed /\ events = <<>> /\ file.events = <<>>
  BY <1>1 DEF Init, Undisturbed
<1> QED BY <1>2 DEF Ledger!Init

LEMMA LedgerStep ==
  ASSUME TypeInv, LogInv, [Next]_vars
  PROVE  [Ledger!Next]_<<IF Undisturbed THEN events ELSE <<>>,
                         IF Undisturbed THEN file.events ELSE <<>>, Undisturbed>>
<1>t. TypeOK
  BY DEF TypeInv
<1>b. Undisturbed \in BOOLEAN /\ Undisturbed' \in BOOLEAN
  BY DEF Undisturbed
<1>d. Undisturbed' => Undisturbed
  BY <1>t, DisturbedStays
<1>1. CASE ~Undisturbed
  BY <1>1, <1>b, <1>d
<1>2. CASE Undisturbed /\ ~Undisturbed'
  BY <1>2, <1>b DEF Ledger!Next, Ledger!Discard
<1>3. CASE Undisturbed /\ Undisturbed'
  <2>g. LogGood /\ ~discarded' /\ ~aged'
    BY <1>3 DEF LogInv, Undisturbed
  <2>1. CASE \E e \in Events : events' = Append(events, e) /\ file' = file
    <3>1. Ledger!Add
      BY <1>3, <2>1 DEF Ledger!Add
    <3> QED BY <3>1 DEF Ledger!Next
  <2>2. CASE events' = events /\ IsPrefix(file.events, file'.events)
                              /\ IsPrefix(file'.events, events)
    <3>1. Ledger!Store
      BY <1>3, <2>2 DEF Ledger!Store, Ledger!IsPrefix, IsPrefix
    <3> QED BY <3>1 DEF Ledger!Next
  <2>3. CASE /\ IsPrefix(file.events, file'.events) /\ IsPrefix(file'.events, events')
             /\ \/ IsPrefix(events', events)
                \/ \E e \in Events : \E n \in 0..Len(events) :
                     events' = Append(SubSeq(events, 1, n), e)
    <3>1. Ledger!Crash
      BY <1>3, <2>3 DEF Ledger!Crash, Ledger!IsPrefix, IsPrefix
    <3> QED BY <3>1 DEF Ledger!Next
  <2> QED BY <2>g, <2>1, <2>2, <2>3, LogMoves
<1> QED BY <1>1, <1>2, <1>3

\* Until a reset gives the chain up, a race breaks it or the WAL's event outlives its
\* age, a node with any number of threads is an append-only log on one disk: _flush
\* only makes the chain file grow, and _load after a crash keeps all of the file and
\* drops no more than what it does not hold.  A race leaves a chain on disk that need
\* not link and whose replay is refused; an aged event is refused too, and both start
\* an empty chain over the file.  The abstract log may be given up at any step, so
\* the theorem says of those three events only that nothing else breaks the log.
THEOREM StoreIsALog == Spec => LedgerImplemented
<1>1. Init => TypeInv /\ ChainInv /\ LogInv
  BY TypeInit, ChainInit, LogInit
<1>2. TypeInv /\ [Next]_vars => TypeInv'
  BY TypeStep
<1>3. TypeInv /\ ChainInv /\ [Next]_vars => ChainInv'
  BY ChainStep
<1>4. TypeInv /\ ChainInv /\ LogInv /\ [Next]_vars => LogInv'
  BY LogStep
<1>5. TypeInv /\ LogInv /\ [Next]_vars =>
        [Ledger!Next]_<<IF Undisturbed THEN events ELSE <<>>,
                        IF Undisturbed THEN file.events ELSE <<>>, Undisturbed>>
  BY LedgerStep
<1> QED BY <1>1, <1>2, <1>3, <1>4, <1>5, LedgerInit, PTL
        DEF Spec, LedgerImplemented, Ledger!Spec

\* What StartKeepsFile asks of every state, until a race, a reset or an aged event:
\* memory never holds less than the chain file, so no start drops what was saved.
THEOREM FileIsKept == Spec => [](Undisturbed => StartKeepsFile)
<1>1. Init => TypeInv /\ ChainInv /\ LogInv
  BY TypeInit, ChainInit, LogInit
<1>2. TypeInv /\ ChainInv /\ LogInv /\ [Next]_vars => (TypeInv /\ ChainInv /\ LogInv)'
  BY TypeStep, ChainStep, LogStep
<1>3. LogInv => (Undisturbed => StartKeepsFile)
  BY DEF LogInv, LogGood, FileBehind, StartKeepsFile
<1> QED BY <1>1, <1>2, <1>3, PTL DEF Spec

-----------------------------------------------------------------------------
(***************************************************************************)
(* What the WAL saves.  Ids rise along the chain, and what a writer is     *)
(* about to add has a higher one: so the event of the WAL, when it is the  *)
(* next after those in the file, is not in the file, and _replay_wal does  *)
(* not take it for one that is.  That it links is ChainInv, and that it is *)
(* accepted is ReplayAccepted.  All of it until a race, a reset or an aged *)
(* event.                                                                  *)
(***************************************************************************)
IdsBelow(s, n) == \A i \in DOMAIN s : s[i].id < n
IdsRise(s) == \A i \in DOMAIN s : \A j \in DOMAIN s : i < j => s[i].id < s[j].id
IdsInv ==
  Undisturbed =>
    /\ IdsRise(events) /\ IdsBelow(events, minted + 1)
    /\ \A t \in Writers : at[t] \in Adding => /\ event[t].id <= minted
                                               /\ IdsBelow(events, event[t].id)

LEMMA IdsAppend ==
  ASSUME NEW s \in Seq(Events), NEW e \in Events, IdsRise(s), IdsBelow(s, e.id),
         NEW n \in Nat, e.id <= n
  PROVE  IdsRise(Append(s, e)) /\ IdsBelow(Append(s, e), n + 1)
<1> DEFINE r == Append(s, e)
<1>1. /\ DOMAIN r = 1..(Len(s) + 1) /\ DOMAIN s = 1..Len(s) /\ Len(s) \in Nat
      /\ \A i \in 1..Len(s) : r[i] = s[i]
      /\ r[Len(s) + 1] = e
  BY AppendProperties, LenProperties
<1>2. \A i \in DOMAIN s : s[i] \in Events
  BY EventsOf
<1>3. e.id \in Nat /\ \A i \in DOMAIN s : s[i].id \in Nat
  BY <1>2, StoreAssumption DEF Events
<1> HIDE DEF r
<1>4. IdsRise(r)
  BY <1>1, <1>3 DEF IdsRise, IdsBelow
<1>5. IdsBelow(r, n + 1)
  <2> SUFFICES ASSUME NEW i \in DOMAIN r PROVE r[i].id < n + 1
    BY DEF IdsBelow
  <2>1. CASE i \in DOMAIN s
    BY <1>1, <1>3, <2>1 DEF IdsBelow
  <2>2. CASE i = Len(s) + 1
    BY <1>1, <1>3, <2>2
  <2> QED BY <1>1, <2>1, <2>2
<1> QED BY <1>4, <1>5 DEF r

\* A beginning of a chain whose ids rise has ids that rise and are no higher.
LEMMA IdsPrefix ==
  ASSUME NEW c \in Seq(Events), NEW d \in Seq(Events), IsPrefix(c, d), IdsRise(d),
         NEW n \in Nat, IdsBelow(d, n)
  PROVE  IdsRise(c) /\ IdsBelow(c, n)
<1>1. /\ DOMAIN c = 1..Len(c) /\ DOMAIN d = 1..Len(d) /\ Len(c) \in Nat /\ Len(d) \in Nat
      /\ Len(c) <= Len(d) /\ \A i \in 1..Len(c) : c[i] = d[i]
  BY PrefixPoints, EventsOf
<1> QED BY <1>1 DEF IdsRise, IdsBelow

\* An event that is in a chain, but not in a beginning of it, has a higher id than
\* all of that.
LEMMA IdsBeyond ==
  ASSUME NEW c \in Seq(Events), NEW d \in Seq(Events), IsPrefix(c, d), IdsRise(d),
         NEW n \in Ids(d), n \notin Ids(c)
  PROVE  IdsBelow(c, n)
<1>1. /\ DOMAIN c = 1..Len(c) /\ DOMAIN d = 1..Len(d) /\ Len(c) \in Nat /\ Len(d) \in Nat
      /\ Len(c) <= Len(d) /\ \A i \in 1..Len(c) : c[i] = d[i]
  BY PrefixPoints, EventsOf
<1>2. PICK k \in DOMAIN d : d[k].id = n
  BY DEF Ids
<1>3. ~(k \in 1..Len(c))
  BY <1>1, <1>2 DEF Ids
<1> QED BY <1>1, <1>2, <1>3 DEF IdsRise, IdsBelow

LEMMA IdsInit == Init => IdsInv
<1> SUFFICES ASSUME Init PROVE IdsInv
  OBVIOUS
<1>1. events = <<>> /\ \A t \in Writers : at[t] = "idle"
  BY StoreAssumption DEF Init, AtRest, Threads
<1> QED BY <1>1 DEF IdsInv, IdsRise, IdsBelow, Adding

LEMMA IdsStep ==
  TypeInv /\ LogInv /\ IdsInv /\ [Next]_vars => IdsInv'
<1> SUFFICES ASSUME TypeInv, LogGood, IdsInv, [Next]_vars, Undisturbed, Undisturbed'
             PROVE  IdsInv'
  BY DisturbedStays DEF IdsInv, TypeInv, LogInv
<1>u. ~discarded' /\ ~overlapped' /\ ~aged'
  BY DEF Undisturbed
<1> USE StoreAssumption
<1>t. /\ TypeOK /\ InFlight
      /\ Writers \subseteq Threads /\ Timer \in Threads /\ Timer \notin Writers
      /\ Threads = Writers \cup {Timer}
      /\ minted \in Nat /\ events \in Seq(Events) /\ file.events \in Seq(Events)
  BY DEF TypeInv, Threads, TypeOK
<1>l. Locations = {"off", "idle", "waiting", "signing", "minted", "logged",
                   "checked", "serialise", "replace", "clean", "clear"}
  BY DEF Locations
<1>i. /\ IdsRise(events) /\ IdsBelow(events, minted + 1)
      /\ \A t \in Writers : at[t] \in Adding => /\ event[t].id <= minted
                                                 /\ IdsBelow(events, event[t].id)
  BY DEF IdsInv
<1>1. ASSUME NEW t \in Writers, NEW a \in Authors, NEW n \in 1..MaxSequence,
             AppendBegins(t, a, n) \/ IngestChecks(t, a, n)
      PROVE  IdsInv'
  <2>1. events' = events /\ minted' = minted + 1 /\ event'[t].id = minted + 1
    BY <1>1, <1>t DEF AppendBegins, IngestChecks, TypeOK, memory
  <2>o. \A u \in Writers \ {t} : event'[u] = event[u]
    BY <1>1, <1>t DEF AppendBegins, IngestChecks, TypeOK
  <2>3. PICK l \in {"signing", "checked"} : Goto(t, l)
    BY <1>1 DEF AppendBegins, IngestChecks
  <2>4. \A u \in Writers \ {t} : at'[u] = at[u]
    BY <2>3, <1>t, <1>l, Moves
  <2>5. \A u \in Writers \ {t} :
          at'[u] \in Adding => event'[u].id <= minted + 1 /\ IdsBelow(events, event'[u].id)
    <3>1. \A u \in Writers : at[u] \in Adding => event[u].id \in Nat
      BY <1>t DEF InFlight, Events
    <3> QED BY <1>i, <1>t, <2>o, <2>4, <3>1
  <2>2. IdsBelow(events, minted + 2)
    <3>1. \A i \in DOMAIN events : events[i].id \in Nat
      <4>1. \A i \in DOMAIN events : events[i] \in Events
        BY <1>t, EventsOf
      <4> QED BY <4>1 DEF Events
    <3> QED BY <1>i, <1>t, <3>1 DEF IdsBelow
  <2>6. IdsBelow(events, minted + 1) /\ IdsRise(events)
    BY <1>i
  <2>7. ASSUME NEW u \in Writers, at'[u] \in Adding
        PROVE  event'[u].id <= minted' /\ IdsBelow(events', event'[u].id)
    <3>1. CASE u = t
      BY <1>t, <2>1, <2>6, <3>1
    <3>2. CASE u # t
      BY <2>1, <2>5, <2>7, <3>2
    <3> QED BY <3>1, <3>2
  <2>8. IdsRise(events') /\ IdsBelow(events', minted' + 1)
    <3>1. minted' + 1 = minted + 2
      BY <1>t, <2>1
    <3> QED BY <2>1, <2>2, <2>6, <3>1
  <2> QED BY <2>7, <2>8 DEF IdsInv
<1>2. ASSUME NEW t \in Writers, EventLinked(t) \/ WriteWal(t) PROVE IdsInv'
  <2>1. event[t] \in Events /\ at[t] \in Adding
    BY <1>2, <1>t DEF EventLinked, WriteWal, InFlight, Adding
  <2>2. UNCHANGED <<events, minted>> /\ event'[t].id = event[t].id
    BY <1>2, <1>t, <2>1 DEF EventLinked, WriteWal, TypeOK, memory, Events
  <2>3. \A u \in Writers \ {t} : event'[u] = event[u]
    BY <1>2, <1>t DEF EventLinked, WriteWal, TypeOK
  <2>4. \A u \in Writers \ {t} : at'[u] = at[u]
    BY <1>2, <1>t, <1>l, Moves DEF EventLinked, WriteWal
  <2> QED BY <1>i, <2>1, <2>2, <2>3, <2>4 DEF IdsInv
<1>3. ASSUME NEW t \in Writers, EventAdded(t) PROVE IdsInv'
  <2> DEFINE e == event[t]
  <2>1. /\ e \in Events /\ e.id <= minted /\ IdsBelow(events, e.id)
    BY <1>3, <1>t, <1>i DEF EventAdded, InFlight, Adding
  <2>2. events' = Append(events, e) /\ minted' = minted /\ at'[t] = "idle"
    BY <1>3, <1>t, Moves DEF EventAdded
  <2> HIDE DEF e
  <2>3. IdsRise(events') /\ IdsBelow(events', minted + 1)
    BY <1>t, <1>i, <2>1, <2>2, IdsAppend
  <2>4. \A u \in Writers \ {t} : at[u] \notin Adding /\ at'[u] = at[u]
    BY <1>3, <1>u, <1>t, OverlapsType, Moves DEF EventAdded
  <2>5. "idle" \notin Adding
    BY DEF Adding
  <2> QED BY <2>2, <2>3, <2>4, <2>5 DEF IdsInv
<1>4. ASSUME NEW t \in Writers, NEW a \in Authors, NEW n \in 1..MaxPrivate,
             SequenceUsed(t, a, n)
      PROVE  IdsInv'
  <2>1. UNCHANGED <<events, minted, event>> /\ at'[t] = "idle"
    BY <1>4, <1>t, Moves DEF SequenceUsed
  <2>2. \A u \in Writers \ {t} : at'[u] = at[u]
    BY <1>4, <1>t, Moves DEF SequenceUsed
  <2>3. "idle" \notin Adding
    BY DEF Adding
  <2> QED BY <1>i, <2>1, <2>2, <2>3 DEF IdsInv
<1>5. ASSUME NEW t \in Threads, (t = Timer /\ TimerFires) \/ FlushStep(t) \/ FlushFails(t)
      PROVE  IdsInv'
  <2>1. t = Timer
    BY <1>5, <1>t DEF LogGood, FileBehind, TimerFires, FlushStep, FlushFails, Serialise,
                      ReplaceFile, MarkClean, ClearWal
  <2>r. AtRest(t) \in Locations
    BY <1>l DEF AtRest
  <2>2. PICK l \in Locations : Goto(t, l)
    BY <1>5, <1>l, <2>1, <2>r DEF TimerFires, FlushStep, FlushFails, Serialise,
                                  ReplaceFile, MarkClean, ClearWal
  <2>3. \A u \in Writers : at'[u] = at[u]
    BY <2>1, <2>2, <1>t, Moves
  <2>4. UNCHANGED <<events, minted, event>>
    BY <1>5 DEF TimerFires, FlushStep, FlushFails, Serialise, ReplaceFile, MarkClean,
                ClearWal, memory
  <2> QED BY <1>i, <2>3, <2>4 DEF IdsInv
<1>6. CASE Crash \/ CleanExit
  <2> DEFINE whole == Chain(events, domains)
  <2>1. /\ file \in Chains /\ wal \in Events \cup {NoEvent} /\ whole \in Chains
        /\ whole.events = events
    BY <1>t DEF TypeOK, Chains, Tables, Chain
  <2>f. IsPrefix(file.events, events)
    BY DEF LogGood, FileBehind
  <2>2. IdsRise(file.events) /\ IdsBelow(file.events, minted + 1)
    BY <1>t, <1>i, <2>f, IdsPrefix
  <2>3. \/ events' = file.events
        \/ events' = events
        \/ Replayable(wal, file) /\ events' = Append(file.events, wal)
    <3>1. Booted(file, wal) \/ Booted(whole, NoEvent)
      BY <1>6 DEF Crash, CleanExit
    <3>2. ~Replayable(NoEvent, whole)
      BY DEF Replayable
    <3> HIDE DEF whole
    <3>3. CASE Booted(file, wal)
      BY <1>u, <2>1, <3>3, BootedLog
    <3>4. CASE Booted(whole, NoEvent)
      BY <1>u, <2>1, <3>2, <3>4, BootedLog DEF whole
    <3> QED BY <3>1, <3>3, <3>4
  <2>4. minted' = minted /\ \A t \in Writers : at'[t] = "idle"
    BY <1>6, <1>t DEF Crash, CleanExit, Booted, AtRest
  <2>5. ASSUME Replayable(wal, file)
        PROVE  wal \in Events /\ wal.id <= minted /\ IdsBelow(file.events, wal.id)
    <3>1. wal \in Events /\ wal # NoEvent /\ wal.id \notin Ids(file.events)
      BY <2>1, <2>5 DEF Replayable
    <3>2. CASE wal.id \in Ids(events)
      <4>1. IdsBelow(file.events, wal.id)
        BY <1>t, <1>i, <2>f, <3>1, <3>2, IdsBeyond
      <4>2. wal.id < minted + 1 /\ wal.id \in Nat
        BY <1>i, <3>1, <3>2 DEF Ids, IdsBelow, Events
      <4> QED BY <1>t, <3>1, <4>1, <4>2
    <3>3. CASE \E t \in Writers : at[t] = "logged" /\ event[t] = wal
      <4>1. wal.id <= minted /\ IdsBelow(events, wal.id)
        BY <1>i, <3>3 DEF Adding
      <4>2. wal.id \in Nat
        BY <3>1 DEF Events
      <4> QED BY <1>t, <1>i, <2>f, <3>1, <4>1, <4>2, IdsPrefix
    <3> QED BY <3>1, <3>2, <3>3 DEF LogGood, WalHeld
  <2>6. IdsRise(events') /\ IdsBelow(events', minted + 1)
    BY <1>t, <1>i, <2>2, <2>3, <2>5, IdsAppend
  <2> QED BY <2>4, <2>6 DEF IdsInv, Adding
<1>7. CASE UNCHANGED vars
  BY <1>7, <1>i DEF vars, memory, locals, IdsInv
<1>8. \A t \in Writers : ~ResetChain(t)
  BY <1>u DEF ResetChain
<1> QED BY <1>1, <1>2, <1>3, <1>4, <1>5, <1>6, <1>7, <1>8, <1>t
           DEF Next, Request, WriterStep

LEMMA SurvivesStep ==
  ASSUME TypeInv, ChainGood, LogGood, IdsInv, Undisturbed, Crash, ~aged',
         wal # NoEvent, Len(file.events) < Len(events),
         events[Len(file.events) + 1] = wal
  PROVE  wal.id \in Ids(events')
<1> DEFINE s == file.events
           k == Len(s) + 1
<1>t. /\ s \in Seq(Events) /\ events \in Seq(Events) /\ wal \in Events
      /\ file \in Chains
  BY DEF TypeInv, TypeOK, Chains, Tables
<1>1. /\ DOMAIN s = 1..Len(s) /\ DOMAIN events = 1..Len(events)
      /\ Len(s) \in Nat /\ Len(events) \in Nat
      /\ \A i \in 1..Len(s) : s[i] = events[i]
  <2>1. IsPrefix(s, events)
    BY DEF LogGood, FileBehind
  <2> QED BY <1>t, <2>1, PrefixPoints, EventsOf
<1>2. k \in DOMAIN events /\ events[k] = wal
  BY <1>1
<1>3. wal.id \notin Ids(s)
  <2>1. IdsRise(events)
    BY DEF IdsInv
  <2>2. \A i \in DOMAIN s : events[i].id < events[k].id
    BY <1>1, <1>2, <2>1 DEF IdsRise
  <2>3. wal.id \in Nat
    BY <1>t DEF Events
  <2> QED BY <1>1, <1>2, <2>2, <2>3 DEF Ids
<1>4. wal.prev = HeadHash(s)
  <2>1. Linked(events)
    BY DEF ChainGood, CopiesGood, Good
  <2>2. wal.prev = IF k = 1 THEN Genesis ELSE events[k - 1].id
    BY <1>2, <2>1 DEF Linked
  <2>3. CASE s = <<>>
    <3>1. Len(s) = 0
      BY <2>3, EmptySeq
    <3> QED BY <2>2, <2>3, <3>1 DEF HeadHash
  <2>4. CASE s # <<>>
    <3>1. Len(s) \in 1..Len(s) /\ Len(s) # 0
      BY <1>t, <1>1, <2>4, EmptySeq
    <3>2. HeadHash(s) = s[Len(s)].id
      BY <2>4 DEF HeadHash, Last
    <3> QED BY <1>1, <2>2, <3>1, <3>2
  <2> QED BY <2>3, <2>4
<1>5. Replayable(wal, file)
  BY <1>3, <1>4 DEF Replayable
<1>6. Accepted(wal, file)
  BY <1>5, ReplayAccepted
<1>7. events' = Append(s, wal)
  <2>1. Booted(file, wal)
    BY DEF Crash
  <2>2. Chain(Append(s, wal), file.domains).events = Append(s, wal)
    BY DEF Chain
  <2>3. ~(aged' = TRUE)
    BY Zenon
  <2> QED BY <1>5, <1>6, <2>1, <2>2, <2>3 DEF Booted, Loaded
<1> HIDE DEF s
<1>8. Append(s, wal)[Len(s) + 1] = wal /\ Len(s) + 1 \in DOMAIN Append(s, wal)
  BY <1>t, <1>1, AppendProperties, LenProperties
<1> QED BY <1>7, <1>8 DEF Ids

\* With any number of threads, an event that would be the next in the file and is in
\* the WAL is in the chain again after any crash, until a race, a reset or an aged
\* event: _replay_wal neither takes it for saved or stale nor has it refused.  (An
\* entry that append replaces or _flush removes before its event is in the file saves
\* nothing.)
THEOREM WalSavesTheNext == Spec => LoggedSurvives
<1>1. Init => TypeInv /\ ChainInv /\ LogInv /\ IdsInv
  BY TypeInit, ChainInit, LogInit, IdsInit
<1>2. TypeInv /\ ChainInv /\ LogInv /\ IdsInv /\ [Next]_vars
        => (TypeInv /\ ChainInv /\ LogInv /\ IdsInv)'
  BY TypeStep, ChainStep, LogStep, IdsStep
<1>3. TypeInv /\ ChainInv /\ LogInv /\ IdsInv /\ [Next]_vars =>
        [ Crash /\ Undisturbed' /\ wal # NoEvent
            /\ Len(file.events) < Len(events) /\ events[Len(file.events) + 1] = wal
          => wal.id \in Ids(events') ]_vars
  <2> SUFFICES ASSUME TypeInv, ChainInv, LogInv, IdsInv, [Next]_vars, Crash,
                      Undisturbed', wal # NoEvent,
                      Len(file.events) < Len(events),
                      events[Len(file.events) + 1] = wal
               PROVE  wal.id \in Ids(events')
    OBVIOUS
  <2>1. Undisturbed
    BY DisturbedStays DEF TypeInv
  <2>2. ChainGood /\ LogGood /\ ~aged'
    BY <2>1 DEF ChainInv, LogInv, Undisturbed
  <2> QED BY <2>1, <2>2, SurvivesStep
<1> QED BY <1>1, <1>2, <1>3, PTL DEF Spec, LoggedSurvives
=============================================================================
