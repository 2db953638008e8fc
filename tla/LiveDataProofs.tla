--------------------------- MODULE LiveDataProofs ---------------------------
(***************************************************************************)
(* Proofs about LiveData, for any layers, threads, pages and agents and    *)
(* any bounds: the types, that an answer of 304 is right for a tag of this *)
(* process whose body came, that an agent told "unchanged" is current in   *)
(* what it has from this process, and that a sensor's reading stops it all.*)
(***************************************************************************)
EXTENDS LiveData, TLAPS

-----------------------------------------------------------------------------
(***************************************************************************)
(* Types, with what a thread's place says of what it holds.                *)
(***************************************************************************)
Places ==
  /\ \A f \in Fetchers : at[f] = "mark" => doing[f] \in Layers
  /\ at[Loop] = "answer" =>
       reply.who \in Browsers /\ reply.call \in Calls /\ reply.tag \in Tags
TypeInv == TypeOK /\ Places

Threaded ==
  /\ lock \in {Free, Loop}
  /\ at \in [Threads -> Locations]
  /\ doing \in [Fetchers -> Layers \cup {NoTag}]
  /\ reply \in [who : Browsers \cup {NoTag}, call : Calls \cup {NoTag},
                tag : Tags \cup {NoTag}]
Stored ==
  /\ data \in [Layers -> [n : 0..MaxWrites, of : 0..MaxWrites]]
  /\ writes \in 0..MaxWrites
  /\ version \in Nat
  /\ layerVersion \in [Layers -> Nat]
  /\ active \subseteq Layers
  /\ activeVersion \in 0..MaxToggles
  /\ cache \in Writes
  /\ life \in 0..MaxRestarts
  /\ published \in Writes
  /\ marked \in Writes
Polled ==
  browser \in [Browsers -> [etag : Tags \cup {NoTag}, life : 0..MaxRestarts,
                            seen : Writes, got : Tags \cup {NoTag},
                            gotLife : 0..MaxRestarts]]
Answers == [step : CallSteps, tag : Tags \cup {NoTag}, life : 0..MaxRestarts, seen : Writes]
Called == calls \in [Browsers -> [Calls -> Answers]]
Asked ==
  agent \in [Agents -> [asked : BOOLEAN, versions : [Layers -> Nat],
                        seen : Writes, waiting : BOOLEAN,
                        snapshot : [Layers -> Nat],
                        from : [Layers -> 0..MaxRestarts]]]

\* The type invariant is its parts.
LEMMA TypeParts == TypeOK <=> Threaded /\ Stored /\ Polled /\ Called /\ Asked
BY DEF TypeOK, Threaded, Stored, Polled, Called, Asked, Answers

\* Facts about the values that steps write.
LEMMA Values ==
  ASSUME TypeOK
  PROVE  /\ Tag \in Tags
         /\ LastWrites \in Writes
         /\ Zero \in Writes
         /\ Zero \in [Layers -> Nat]
         /\ NoCall \in Answers
         /\ \A n \in 0..MaxWrites :
              Seeded(n) \in [Layers -> [n : 0..MaxWrites, of : 0..MaxWrites]]
<1> USE StoreAssumption
<1>1. Tag \in Tags
  BY DEF TypeOK, Tag, Tags
<1>2. LastWrites \in Writes
  BY DEF TypeOK, LastWrites, Writes
<1>3. Zero \in Writes /\ Zero \in [Layers -> Nat]
  BY DEF Zero, Writes
<1>5. NoCall \in Answers
  BY <1>3 DEF NoCall, Answers, CallSteps
<1>4. ASSUME NEW n \in 0..MaxWrites
      PROVE  Seeded(n) \in [Layers -> [n : 0..MaxWrites, of : 0..MaxWrites]]
  <2>1. ASSUME NEW l \in Layers
        PROVE  [n |-> n, of |-> cache[l]] \in [n : 0..MaxWrites, of : 0..MaxWrites]
    BY <1>4 DEF TypeOK, Writes
  <2> QED BY <2>1 DEF Seeded, TypeOK
<1> QED BY <1>1, <1>2, <1>3, <1>4, <1>5

\* One request of a page changes.
LEMMA CallStep ==
  ASSUME Called, NEW b \in Browsers, NEW k \in Calls, NEW c \in Answers, Call(b, k, c)
  PROVE  /\ Called'
         /\ \A x \in Browsers, y \in Calls :
              calls'[x][y] = IF x = b /\ y = k THEN c ELSE calls[x][y]
BY DEF Called, Call

\* All start empty, at rest.
LEMMA TypeInit == Init => TypeInv
<1> SUFFICES ASSUME Init PROVE TypeInv
  OBVIOUS
<1> USE StoreAssumption DEF Init
<1>1. Threaded
  BY DEF Threaded, NoReply, Locations, Threads
<1>2. Zero \in Writes /\ Zero \in [Layers -> Nat]
  BY DEF Zero, Writes
<1>3. Stored
  BY <1>2 DEF Stored
<1>4. Polled
  BY <1>2 DEF Polled
<1>5. Asked
  BY <1>2 DEF Asked, Zero
<1>6. Places
  BY DEF Places, Threads
<1>7. NoCall \in Answers
  BY <1>2 DEF NoCall, Answers, CallSteps
<1>8. Called
  BY <1>7 DEF Called
<1> QED BY <1>1, <1>3, <1>4, <1>5, <1>6, <1>8, TypeParts DEF TypeInv

\* A page's own step changes nothing of the backend and of the agents.
LEMMA PageLeavesBackend ==
  ASSUME NEW b \in Browsers, PageStep(b)
  PROVE  UNCHANGED backend
<1>1. ASSUME NEW k, ForceRefresh(b, k) \/ TakeHeaders(b, k) \/ TakeBody(b, k) \/ Fails(b, k)
      PROVE  UNCHANGED backend
  BY <1>1, Zenon DEF ForceRefresh, TakeHeaders, TakeBody, Fails
<1>2. ASSUME Ask(b) \/ ForgetTag(b) PROVE UNCHANGED backend
  BY <1>2, Zenon DEF Ask, ForgetTag
<1> QED BY <1>1, <1>2, Zenon DEF PageStep

\* What the threads hold, and where they are.
LEMMA ThreadedStep == TypeInv /\ [Next]_vars => Threaded' /\ Places'
<1> SUFFICES ASSUME TypeInv, [Next]_vars PROVE Threaded' /\ Places'
  OBVIOUS
<1>t. /\ lock \in {Free, Loop}
      /\ at \in [Threads -> Locations]
      /\ doing \in [Fetchers -> Layers \cup {NoTag}]
      /\ reply \in [who : Browsers \cup {NoTag}, call : Calls \cup {NoTag},
                    tag : Tags \cup {NoTag}]
  BY DEF TypeInv, TypeOK
<1>p. Places
  BY DEF TypeInv
<1>v. Tag \in Tags
  BY Values DEF TypeInv
<1> USE StoreAssumption, <1>t, <1>p
    DEF Threaded, Places, Threads, Locations, Goto, threads, NoReply
<1>1. ASSUME NEW f \in Fetchers, NEW l \in Layers, Fetch(f, l)
      PROVE  Threaded' /\ Places'
  BY <1>1 DEF Fetch
<1>2. ASSUME NEW f \in Fetchers, MarkFresh(f) PROVE Threaded' /\ Places'
  BY <1>2 DEF MarkFresh
<1>3. ASSUME NEW t \in Threads, BumpDataVersion(t) PROVE Threaded' /\ Places'
  BY <1>3 DEF BumpDataVersion
<1>4. ASSUME NEW f \in Fetchers, SaveCache(f) PROVE Threaded' /\ Places'
  BY <1>4 DEF SaveCache
<1>5. ASSUME NEW f \in Fetchers, Refresh(f) PROVE Threaded' /\ Places'
  BY <1>5 DEF Refresh
<1>6. ASSUME NEW b \in Browsers, NEW k \in Calls, Poll(b, k) PROVE Threaded' /\ Places'
  BY <1>6, <1>v DEF Poll
<1>16. ASSUME NEW b \in Browsers, NEW k \in Calls, NotModified(b, k)
       PROVE  Threaded' /\ Places'
  BY <1>16 DEF NotModified
<1>7. ASSUME NEW b \in Browsers, PageStep(b) PROVE Threaded' /\ Places'
  <2>1. UNCHANGED <<lock, at, doing, reply>>
    BY <1>7, PageLeavesBackend DEF backend
  <2> QED BY <2>1
<1>8. ASSUME NEW l \in Layers, UpdateLayers(l) PROVE Threaded' /\ Places'
  BY <1>8 DEF UpdateLayers
<1>9. CASE SensorPosts
  BY <1>9 DEF SensorPosts
<1>10. CASE Answer
  BY <1>10 DEF Answer
<1>11. CASE StoreReading
  BY <1>11 DEF StoreReading
<1>12. ASSUME NEW a \in Agents, AgentStep(a) PROVE Threaded' /\ Places'
  BY <1>12 DEF AgentStep, AgentAsks, GetLayerSlice
<1>13. CASE Restart
  <2>1. lock' = Free /\ Idle
    BY <1>13, Zenon DEF Restart
  <2> QED BY <2>1 DEF Idle
<1>14. CASE UNCHANGED vars
  BY <1>14 DEF vars
<1>15. Loop \in Threads
  OBVIOUS
<1> QED
  BY <1>1, <1>2, <1>3, <1>4, <1>5, <1>6, <1>7, <1>8, <1>9, <1>10, <1>11, <1>12,
     <1>13, <1>14, <1>15, <1>16 DEF Next, FetcherStep, HandlerStep

\* The store, the cache files and the history variables.
LEMMA StoredStep == TypeInv /\ [Next]_vars => Stored'
<1> SUFFICES ASSUME TypeInv, [Next]_vars PROVE Stored'
  OBVIOUS
<1>t. Stored
  BY TypeParts DEF TypeInv
<1>v. /\ LastWrites \in Writes
      /\ Zero \in Writes
      /\ Zero \in [Layers -> Nat]
      /\ \A n \in 0..MaxWrites :
           Seeded(n) \in [Layers -> [n : 0..MaxWrites, of : 0..MaxWrites]]
  BY Values DEF TypeInv
<1>p. Places
  BY DEF TypeInv
<1> USE StoreAssumption DEF Stored
<1>1. ASSUME NEW f \in Fetchers, NEW l \in Layers, Fetch(f, l) PROVE Stored'
  <2>1. writes + 1 \in 0..MaxWrites
    BY <1>1, <1>t DEF Fetch
  <2>2. [n |-> writes + 1, of |-> writes + 1] \in [n : 0..MaxWrites, of : 0..MaxWrites]
    BY <2>1
  <2>3. data' \in [Layers -> [n : 0..MaxWrites, of : 0..MaxWrites]]
    BY <1>1, <1>t, <2>2 DEF Fetch, Write
  <2> QED BY <1>1, <1>t, <2>1, <2>3 DEF Fetch, clients
<1>2. ASSUME NEW f \in Fetchers, MarkFresh(f) PROVE Stored'
  <2>1. doing[f] \in Layers
    BY <1>2, <1>p DEF MarkFresh, Places
  <2>2. marked' \in Writes
    BY <1>2, <1>t, <2>1 DEF MarkFresh, Writes
  <2>3. layerVersion' \in [Layers -> Nat]
    BY <1>2, <1>t, <2>1 DEF MarkFresh
  <2>4. version' \in Nat
    BY <1>2, <1>t DEF MarkFresh
  <2>5. /\ published' = LastWrites
        /\ UNCHANGED <<data, writes, active, activeVersion, cache, life>>
    BY <1>2 DEF MarkFresh
  <2> QED BY <1>t, <1>v, <2>2, <2>3, <2>4, <2>5
<1>3. ASSUME NEW t \in Threads, BumpDataVersion(t) PROVE Stored'
  BY <1>3, <1>t, <1>v DEF BumpDataVersion, clients
<1>4. ASSUME NEW f \in Fetchers, SaveCache(f) PROVE Stored'
  <2>1. cache' \in Writes
    BY <1>4, <1>t DEF SaveCache, Writes
  <2> QED BY <1>4, <1>t, <2>1 DEF SaveCache, store, clients
<1>5. ASSUME NEW f \in Fetchers, Refresh(f) PROVE Stored'
  <2>1. writes + 1 \in 0..MaxWrites
    BY <1>5, <1>t DEF Refresh
  <2> QED BY <1>5, <1>t, <1>v, <2>1 DEF Refresh, clients
<1>6. ASSUME NEW b \in Browsers, NEW k \in Calls, NotModified(b, k) \/ Poll(b, k)
      PROVE  Stored'
  BY <1>6, <1>t DEF Poll, NotModified, store, clients
<1>15. ASSUME NEW b \in Browsers, PageStep(b) PROVE Stored'
  <2>1. UNCHANGED backend
    BY <1>15, PageLeavesBackend
  <2> QED BY <2>1, <1>t DEF backend, store
<1>7. ASSUME NEW l \in Layers, UpdateLayers(l) PROVE Stored'
  <2>1. active' \subseteq Layers
    BY <1>7, <1>t DEF UpdateLayers
  <2>2. activeVersion' \in 0..MaxToggles
    BY <1>7, <1>t DEF UpdateLayers
  <2> QED BY <1>7, <1>t, <2>1, <2>2 DEF UpdateLayers, clients
<1>8. CASE SensorPosts \/ Answer
  BY <1>8, <1>t DEF SensorPosts, Answer, store, clients
<1>9. CASE StoreReading
  <2>1. writes + 1 \in 0..MaxWrites
    BY <1>9, <1>t DEF StoreReading
  <2>2. [n |-> writes + 1, of |-> writes + 1] \in [n : 0..MaxWrites, of : 0..MaxWrites]
    BY <2>1
  <2>3. data' \in [Layers -> [n : 0..MaxWrites, of : 0..MaxWrites]]
    BY <1>9, <1>t, <2>2 DEF StoreReading, Write
  <2> QED BY <1>9, <1>t, <2>1, <2>3 DEF StoreReading, clients
<1>10. ASSUME NEW a \in Agents, AgentStep(a) PROVE Stored'
  BY <1>10, <1>t DEF AgentStep, AgentAsks, GetLayerSlice, store
<1>11. CASE Restart
  <2>0. /\ writes < MaxWrites /\ life < MaxRestarts
        /\ writes' = writes + 1 /\ life' = life + 1
        /\ layerVersion' = Zero /\ marked' = Zero
        /\ active' = Layers /\ activeVersion' = 0
        /\ cache' = cache
    BY <1>11, Zenon DEF Restart
  <2>1. writes + 1 \in 0..MaxWrites /\ life + 1 \in 0..MaxRestarts
    BY <2>0, <1>t
  <2>2. /\ data' \in [Layers -> [n : 0..MaxWrites, of : 0..MaxWrites]]
        /\ version' \in Nat
        /\ published' \in Writes
    <3>1. PICK fresh \in BOOLEAN :
            LET from(l) == IF fresh THEN cache[l] ELSE 0
            IN  /\ data' = [l \in Layers |->
                              [n |-> IF from(l) = 0 THEN 0 ELSE writes + 1,
                               of |-> from(l)]]
                /\ version' = IF \E l \in Layers : from(l) # 0 THEN 1 ELSE 0
                /\ published' = [l \in Layers |->
                                   IF from(l) = 0 THEN 0 ELSE writes + 1]
      BY <1>11, Zenon DEF Restart
    <3>2. \A l \in Layers : (IF fresh THEN cache[l] ELSE 0) \in 0..MaxWrites
      BY <1>t DEF Writes
    <3>3. data' \in [Layers -> [n : 0..MaxWrites, of : 0..MaxWrites]]
      <4> DEFINE held(l) == [n |-> IF (IF fresh THEN cache[l] ELSE 0) = 0
                                   THEN 0 ELSE writes + 1,
                             of |-> IF fresh THEN cache[l] ELSE 0]
      <4>1. ASSUME NEW l \in Layers
            PROVE  held(l) \in [n : 0..MaxWrites, of : 0..MaxWrites]
        BY <3>2, <2>1
      <4>2. data' = [l \in Layers |-> held(l)]
        BY <3>1
      <4> HIDE DEF held
      <4> QED BY <4>1, <4>2
    <3> QED BY <3>1, <3>3, <2>1 DEF Writes
  <2> QED BY <1>t, <1>v, <2>0, <2>1, <2>2
<1>12. CASE UNCHANGED vars
  BY <1>12, <1>t DEF vars, store
<1>13. Loop \in Threads
  BY DEF Threads
<1>14. Fetchers \subseteq Threads
  BY DEF Threads
<1> QED
  BY <1>1, <1>2, <1>3, <1>4, <1>5, <1>6, <1>7, <1>8, <1>9, <1>10, <1>11, <1>12,
     <1>13, <1>14, <1>15 DEF Next, FetcherStep, HandlerStep

\* What the pages have asked for and what they hold, with the history of it.
LEMMA PolledStep == TypeInv /\ [Next]_vars => Polled' /\ Called'
<1> SUFFICES ASSUME TypeInv, [Next]_vars PROVE Polled' /\ Called'
  OBVIOUS
<1>t. Polled /\ Called
  BY TypeParts DEF TypeInv
<1>v. NoCall \in Answers /\ Zero \in Writes
  BY Values DEF TypeInv
<1>c. \A b \in Browsers, k \in Calls : calls[b][k] \in Answers
  BY <1>t DEF Called
<1>b. \A b \in Browsers : browser[b].etag \in Tags \cup {NoTag}
  BY <1>t DEF Polled
<1>1. CASE Answer
  <2>1. /\ reply.who \in Browsers /\ reply.call \in Calls /\ reply.tag \in Tags
        /\ life \in 0..MaxRestarts
    BY <1>1 DEF TypeInv, TypeOK, Places, Answer
  <2> DEFINE shown == [l \in Layers |-> IF l \in active THEN data[l].n ELSE 0]
  <2>2. shown \in Writes
    BY StoreAssumption DEF TypeInv, TypeOK, Writes
  <2>3. /\ Call(reply.who, reply.call,
                [step |-> "sent", tag |-> reply.tag, life |-> life, seen |-> shown])
        /\ browser' = browser
    BY <1>1, Zenon DEF Answer
  <2> HIDE DEF shown
  <2>4. [step |-> "sent", tag |-> reply.tag, life |-> life, seen |-> shown] \in Answers
    BY <2>1, <2>2 DEF Answers, CallSteps
  <2>5. Called'
    BY <2>1, <2>3, <2>4, <1>t, CallStep
  <2> QED BY <2>3, <2>5, <1>t DEF Polled
<1>2. ASSUME NEW b \in Browsers, ForgetTag(b) PROVE Polled' /\ Called'
  <2>1. browser' = [browser EXCEPT ![b].etag = NoTag] /\ calls' = calls
    BY <1>2, Zenon DEF ForgetTag
  <2> QED BY <2>1, <1>t DEF Polled, Called
<1>3. ASSUME NEW b \in Browsers, NEW k \in Calls, NotModified(b, k) \/ Fails(b, k)
      PROVE  Polled' /\ Called'
  <2>1. Call(b, k, NoCall) /\ browser' = browser
    BY <1>3, Zenon DEF NotModified, Fails
  <2>2. Called'
    BY <2>1, <1>v, <1>t, CallStep
  <2> QED BY <2>1, <2>2, <1>t DEF Polled
<1>4. ASSUME NEW b \in Browsers, Ask(b) PROVE Polled' /\ Called'
  <2> DEFINE c == [NoCall EXCEPT !.step = "asked", !.tag = browser[b].etag]
  <2>1. Call(b, "poll", c) /\ browser' = browser
    BY <1>4, Zenon DEF Ask
  <2>2. c \in Answers
    BY <1>b, <1>v DEF NoCall, Answers, CallSteps
  <2>3. "poll" \in Calls
    BY DEF Calls
  <2> HIDE DEF c
  <2>4. Called'
    BY <2>1, <2>2, <2>3, <1>t, CallStep
  <2> QED BY <2>1, <2>4, <1>t DEF Polled
<1>5. ASSUME NEW b \in Browsers, NEW k \in Forced, ForceRefresh(b, k)
      PROVE  Polled' /\ Called'
  <2> DEFINE c == [NoCall EXCEPT !.step = "asked"]
  <2>1. Call(b, k, c) /\ browser' = [browser EXCEPT ![b].etag = NoTag]
    BY <1>5, Zenon DEF ForceRefresh
  <2>2. c \in Answers /\ k \in Calls
    BY <1>v DEF NoCall, Answers, CallSteps, Calls
  <2> HIDE DEF c
  <2>3. Called'
    BY <2>1, <2>2, <1>t, CallStep
  <2> QED BY <2>1, <2>3, <1>t DEF Polled
<1>6. ASSUME NEW b \in Browsers, NEW k \in Calls, TakeHeaders(b, k) PROVE Polled' /\ Called'
  <2> DEFINE c == [calls[b][k] EXCEPT !.step = "opened"]
  <2>1. /\ Call(b, k, c)
        /\ browser' = [browser EXCEPT ![b].etag = calls[b][k].tag,
                                      ![b].life = calls[b][k].life]
    BY <1>6, Zenon DEF TakeHeaders
  <2>2. c \in Answers
    BY <1>c DEF Answers, CallSteps
  <2> HIDE DEF c
  <2>3. Called'
    BY <2>1, <2>2, <1>t, CallStep
  <2>4. calls[b][k].tag \in Tags \cup {NoTag} /\ calls[b][k].life \in 0..MaxRestarts
    BY <1>c DEF Answers
  <2> QED BY <2>1, <2>3, <2>4, <1>t DEF Polled
<1>7. ASSUME NEW b \in Browsers, NEW k \in Calls, TakeBody(b, k) PROVE Polled' /\ Called'
  <2>1. /\ Call(b, k, NoCall)
        /\ browser' = [browser EXCEPT ![b].seen = calls[b][k].seen,
                                      ![b].got = calls[b][k].tag,
                                      ![b].gotLife = calls[b][k].life]
    BY <1>7, Zenon DEF TakeBody
  <2>2. Called'
    BY <2>1, <1>v, <1>t, CallStep
  <2>3. /\ calls[b][k].tag \in Tags \cup {NoTag} /\ calls[b][k].life \in 0..MaxRestarts
        /\ calls[b][k].seen \in Writes
    BY <1>c DEF Answers
  <2>4. ASSUME NEW x \in Browsers
        PROVE  browser'[x] \in [etag : Tags \cup {NoTag}, life : 0..MaxRestarts,
                                seen : Writes, got : Tags \cup {NoTag},
                                gotLife : 0..MaxRestarts]
    <3>1. CASE x = b
      <4>1. browser'[b] = [browser[b] EXCEPT !.seen = calls[b][k].seen,
                                            !.got = calls[b][k].tag,
                                            !.gotLife = calls[b][k].life]
        BY <2>1, <1>t DEF Polled
      <4> QED BY <3>1, <4>1, <2>3, <1>t DEF Polled
    <3>2. CASE x # b
      BY <3>2, <2>1, <1>t DEF Polled
    <3> QED BY <3>1, <3>2
  <2>5. browser' = [x \in Browsers |-> browser'[x]]
    BY <2>1, <1>t DEF Polled
  <2> QED BY <2>2, <2>4, <2>5 DEF Polled
<1>8. CASE Restart
  <2>1. /\ browser' = browser
        /\ calls' = [b \in Browsers |-> [k \in Calls |->
                       IF calls[b][k].step = "asked" THEN NoCall ELSE calls[b][k]]]
    BY <1>8, Zenon DEF Restart
  <2>2. ASSUME NEW b \in Browsers, NEW k \in Calls
        PROVE  (IF calls[b][k].step = "asked" THEN NoCall ELSE calls[b][k]) \in Answers
    BY <1>v, <1>c
  <2> QED BY <2>1, <2>2, <1>t DEF Polled, Called
<1>9. CASE UNCHANGED pages
  BY <1>9, <1>t DEF Polled, Called, pages
<1> USE DEF clients
<1>10. ASSUME NEW f \in Fetchers, NEW l \in Layers, Fetch(f, l) PROVE UNCHANGED pages
  BY <1>10, Zenon DEF Fetch
<1>11. ASSUME NEW f \in Fetchers, Refresh(f) \/ MarkFresh(f) \/ SaveCache(f)
       PROVE  UNCHANGED pages
  BY <1>11, Zenon DEF Refresh, MarkFresh, SaveCache
<1>12. ASSUME NEW t, BumpDataVersion(t) PROVE UNCHANGED pages
  BY <1>12, Zenon DEF BumpDataVersion
<1>13. ASSUME NEW l \in Layers, UpdateLayers(l) PROVE UNCHANGED pages
  BY <1>13, Zenon DEF UpdateLayers
<1>14. ASSUME SensorPosts \/ StoreReading PROVE UNCHANGED pages
  BY <1>14, Zenon DEF SensorPosts, StoreReading
<1>15. ASSUME NEW a \in Agents, AgentStep(a) PROVE UNCHANGED pages
  BY <1>15, Zenon DEF AgentStep, AgentAsks, GetLayerSlice
<1>16. ASSUME NEW b \in Browsers, NEW k, Poll(b, k) PROVE UNCHANGED pages
  BY <1>16, Zenon DEF Poll
<1>17. UNCHANGED vars => UNCHANGED pages
  BY Zenon DEF vars
<1> QED
  BY <1>1, <1>2, <1>3, <1>4, <1>5, <1>6, <1>7, <1>8, <1>9, <1>10, <1>11, <1>12, <1>13,
     <1>14, <1>15, <1>16, <1>17, Zenon
  DEF Next, FetcherStep, HandlerStep, PageStep

\* What the agents have.
LEMMA AskedStep == TypeInv /\ [Next]_vars => Asked'
<1> SUFFICES ASSUME TypeInv, [Next]_vars PROVE Asked'
  OBVIOUS
<1>t. Asked /\ layerVersion \in [Layers -> Nat] /\ life \in 0..MaxRestarts
  BY TypeParts DEF TypeInv, TypeOK
<1>z. Zero \in [Layers -> Nat]
  BY Values DEF TypeInv
<1>1. ASSUME NEW a \in Agents, AgentAsks(a) PROVE Asked'
  BY <1>1, <1>t DEF Asked, AgentAsks
<1>2. ASSUME NEW a \in Agents, GetLayerSlice(a) PROVE Asked'
  <2> DEFINE has == [l \in Layers |-> IF l \in Stale(a) THEN data[l].n ELSE agent[a].seen[l]]
             came == [l \in Layers |-> IF l \in Stale(a) THEN life ELSE agent[a].from[l]]
  <2>1. /\ agent[a].snapshot \in [Layers -> Nat]
        /\ agent[a].seen \in Writes
        /\ agent[a].from \in [Layers -> 0..MaxRestarts]
    BY <1>t DEF Asked
  <2>2. has \in Writes
    BY <2>1 DEF TypeInv, TypeOK, Writes
  <2>3. came \in [Layers -> 0..MaxRestarts]
    BY <2>1, <1>t
  <2>4. agent' = [agent EXCEPT ![a] =
          [asked |-> TRUE, versions |-> agent[a].snapshot, waiting |-> FALSE,
           snapshot |-> Zero, seen |-> has, from |-> came]]
    BY <1>2 DEF GetLayerSlice
  <2> HIDE DEF has, came
  <2> QED BY <1>t, <1>z, <2>1, <2>2, <2>3, <2>4 DEF Asked
<1>3. CASE Restart
  <2>1. agent' = [a \in Agents |-> [agent[a] EXCEPT !.waiting = FALSE, !.snapshot = Zero]]
    BY <1>3, Zenon DEF Restart
  <2>2. ASSUME NEW a \in Agents
        PROVE  [agent[a] EXCEPT !.waiting = FALSE, !.snapshot = Zero]
                 \in [asked : BOOLEAN, versions : [Layers -> Nat], seen : Writes,
                      waiting : BOOLEAN, snapshot : [Layers -> Nat],
                      from : [Layers -> 0..MaxRestarts]]
    BY <1>t, <1>z DEF Asked
  <2> QED BY <2>1, <2>2, Zenon DEF Asked
<1>4. CASE UNCHANGED agent
  BY <1>4, <1>t DEF Asked
<1>5. ASSUME NEW b \in Browsers, PageStep(b) PROVE UNCHANGED agent
  BY <1>5, PageLeavesBackend DEF backend
<1> USE DEF clients
<1>6. ASSUME NEW f \in Fetchers, NEW l \in Layers, Fetch(f, l) PROVE UNCHANGED agent
  BY <1>6, Zenon DEF Fetch
<1>7. ASSUME NEW f \in Fetchers, Refresh(f) \/ MarkFresh(f) \/ SaveCache(f)
      PROVE  UNCHANGED agent
  BY <1>7, Zenon DEF Refresh, MarkFresh, SaveCache
<1>8. ASSUME NEW t, BumpDataVersion(t) PROVE UNCHANGED agent
  BY <1>8, Zenon DEF BumpDataVersion
<1>9. ASSUME NEW l \in Layers, UpdateLayers(l) PROVE UNCHANGED agent
  BY <1>9, Zenon DEF UpdateLayers
<1>10. ASSUME SensorPosts \/ StoreReading \/ Answer PROVE UNCHANGED agent
  BY <1>10, Zenon DEF SensorPosts, StoreReading, Answer
<1>11. ASSUME NEW b \in Browsers, NEW k, NotModified(b, k) \/ Poll(b, k)
       PROVE  UNCHANGED agent
  BY <1>11, Zenon DEF NotModified, Poll
<1>12. UNCHANGED vars => UNCHANGED agent
  BY Zenon DEF vars
<1> QED
  BY <1>1, <1>2, <1>3, <1>4, <1>5, <1>6, <1>7, <1>8, <1>9, <1>10, <1>11, <1>12, Zenon
  DEF Next, FetcherStep, HandlerStep, AgentStep

\* Together, every step keeps the types.
LEMMA TypeStep == TypeInv /\ [Next]_vars => TypeInv'
<1> SUFFICES ASSUME TypeInv, [Next]_vars PROVE TypeInv'
  OBVIOUS
<1>1. Threaded' /\ Places' /\ Stored' /\ Polled' /\ Called' /\ Asked'
  BY ThreadedStep, StoredStep, PolledStep, AskedStep
<1> QED BY <1>1 DEF TypeInv, TypeOK, Threaded, Stored, Polled, Called, Answers, Asked

\* The type invariant of the data store.
THEOREM TypeCorrect == Spec => []TypeOK
<1>1. TypeInv => TypeOK
  BY DEF TypeInv
<1> QED BY TypeInit, TypeStep, <1>1, PTL DEF Spec

-----------------------------------------------------------------------------
(***************************************************************************)
(* Pages.  A layer is never published ahead of what it holds, so an answer *)
(* read after its tag was taken has all that the tag stands for.  That     *)
(* stays so while the answer is on its way and after its body is merged:   *)
(* from then on either the version or the toggle counter moves past the    *)
(* tag.                                                                    *)
(***************************************************************************)
PublishedIsHeld ==
  \A l \in Layers : published[l] <= data[l].n /\ data[l].n <= writes
AnswerCurrent ==
  at[Loop] = "answer" => reply.tag[1] <= version /\ reply.tag[2] = activeVersion

\* A body with this tag, of this process, is not ahead of the store, and has what is
\* published if its tag is still the store's.
Covers(tag, l, body) ==
  /\ l <= life
  /\ l = life /\ tag # NoTag =>
       /\ tag[1] <= version /\ tag[2] <= activeVersion
       /\ tag = Tag => \A k \in active : body[k] >= published[k]
InFlight(b, k) == calls[b][k].step \in {"sent", "opened"}
BodiesCover ==
  \A b \in Browsers, k \in Calls :
    InFlight(b, k) => Covers(calls[b][k].tag, calls[b][k].life, calls[b][k].seen)
ShownCovers ==
  \A b \in Browsers : Covers(browser[b].got, browser[b].gotLife, browser[b].seen)
PageInv == PublishedIsHeld /\ AnswerCurrent /\ BodiesCover /\ ShownCovers

\* Nothing is held and nothing published.
LEMMA PublishedInit == Init => PublishedIsHeld
<1> SUFFICES ASSUME Init PROVE PublishedIsHeld
  OBVIOUS
<1>1. ASSUME NEW k \in Layers
      PROVE  published[k] <= data[k].n /\ data[k].n <= writes
  <2>1. data[k].n = 0
    BY DEF Init
  <2>2. published[k] = 0 /\ writes = 0
    BY DEF Init, Zero
  <2> QED BY <2>1, <2>2
<1> QED BY <1>1, Zenon DEF PublishedIsHeld

\* A write is newer than what was published, and a bump publishes what is held.
LEMMA PublishedStep == TypeInv /\ PublishedIsHeld /\ [Next]_vars => PublishedIsHeld'
<1> SUFFICES ASSUME TypeInv, PublishedIsHeld, [Next]_vars PROVE PublishedIsHeld'
  OBVIOUS
<1>t. /\ data \in [Layers -> [n : 0..MaxWrites, of : 0..MaxWrites]]
      /\ writes \in Nat
      /\ published \in [Layers -> Nat]
  BY DEF TypeInv, TypeOK, Writes
<1>n. \A l \in Layers : data[l].n \in Nat
  BY <1>t
<1>1. ASSUME NEW l \in Layers, Write(l, [n |-> writes + 1, of |-> writes + 1]),
             writes' = writes + 1, UNCHANGED published
      PROVE  PublishedIsHeld'
  <2>1. ASSUME NEW k \in Layers
        PROVE  data'[k].n = IF k = l THEN writes + 1 ELSE data[k].n
    BY <1>1, <1>t DEF Write
  <2> QED BY <1>1, <1>t, <1>n, <2>1 DEF PublishedIsHeld
<1>2. CASE published' = LastWrites /\ UNCHANGED <<data, writes>>
  BY <1>2, <1>t, <1>n DEF PublishedIsHeld, LastWrites
<1>3. CASE data' = Seeded(writes + 1) /\ writes' = writes + 1 /\ UNCHANGED published
  <2>1. ASSUME NEW k \in Layers
        PROVE  data'[k].n = IF cache[k] # 0 THEN writes + 1 ELSE data[k].n
    BY <1>3, <1>t DEF Seeded
  <2> QED BY <1>3, <1>t, <1>n, <2>1 DEF PublishedIsHeld
<1>4. CASE Restart
  <2>1. PICK fresh \in BOOLEAN :
          LET from(l) == IF fresh THEN cache[l] ELSE 0
          IN  /\ data' = [l \in Layers |->
                            [n |-> IF from(l) = 0 THEN 0 ELSE writes + 1,
                             of |-> from(l)]]
              /\ published' = [l \in Layers |->
                                 IF from(l) = 0 THEN 0 ELSE writes + 1]
    BY <1>4, Zenon DEF Restart
  <2>2. writes' = writes + 1
    BY <1>4, Zenon DEF Restart
  <2> QED BY <2>1, <2>2, <1>t DEF PublishedIsHeld
<1>5. CASE UNCHANGED <<data, writes, published>>
  BY <1>5 DEF PublishedIsHeld
<1> USE DEF store, clients
<1>6. ASSUME NEW f \in Fetchers, NEW l \in Layers, Fetch(f, l) PROVE PublishedIsHeld'
  BY <1>6, <1>1 DEF Fetch
<1>7. ASSUME NEW t, BumpDataVersion(t) PROVE PublishedIsHeld'
  BY <1>7, <1>2 DEF BumpDataVersion
<1>8. ASSUME NEW f \in Fetchers, FetcherStep(f) PROVE PublishedIsHeld'
  BY <1>8, <1>2, <1>5, <1>7 DEF FetcherStep, MarkFresh, SaveCache
<1>9. ASSUME NEW f \in Fetchers, Refresh(f) PROVE PublishedIsHeld'
  BY <1>9, <1>3 DEF Refresh
<1>10. CASE StoreReading
  BY <1>10, <1>1, StoreAssumption DEF StoreReading
<1>11. ASSUME NEW b \in Browsers, PageStep(b) PROVE PublishedIsHeld'
  BY <1>11, <1>5, PageLeavesBackend DEF backend
<1>12. ASSUME NEW b \in Browsers, NEW k, NotModified(b, k) \/ Poll(b, k)
       PROVE  PublishedIsHeld'
  BY <1>12, <1>5, Zenon DEF NotModified, Poll
<1>13. ASSUME SensorPosts \/ Answer \/ UNCHANGED vars PROVE PublishedIsHeld'
  BY <1>13, <1>5, Zenon DEF SensorPosts, Answer, vars
<1>14. ASSUME NEW a \in Agents, AgentStep(a) PROVE PublishedIsHeld'
  BY <1>14, <1>5, Zenon DEF AgentStep, AgentAsks, GetLayerSlice
<1>15. ASSUME NEW l \in Layers, UpdateLayers(l) PROVE PublishedIsHeld'
  BY <1>15, <1>5, Zenon DEF UpdateLayers
<1> QED
  BY <1>4, <1>6, <1>7, <1>8, <1>9, <1>10, <1>11, <1>12, <1>13, <1>14, <1>15, Zenon
  DEF Next, HandlerStep

\* No page has asked for anything.
LEMMA PageInit == Init => PageInv
<1> SUFFICES ASSUME Init PROVE PageInv
  OBVIOUS
<1>1. PublishedIsHeld
  BY PublishedInit
<1>2. AnswerCurrent
  BY DEF Init, AnswerCurrent, Threads
<1>3. \A b \in Browsers : browser[b].gotLife = 0 /\ browser[b].got = NoTag
  BY DEF Init
<1>4. \A b \in Browsers, k \in Calls : calls[b][k] = NoCall
  BY DEF Init
<1>5. BodiesCover
  BY <1>4 DEF BodiesCover, InFlight, NoCall
<1>6. life = 0
  BY DEF Init
<1>7. ShownCovers
  BY <1>3, <1>6 DEF ShownCovers, Covers
<1> QED BY <1>1, <1>2, <1>5, <1>7 DEF PageInv

\* A fetcher that goes on does not move the event loop.
LEMMA LoopStays ==
  ASSUME TypeInv, NEW f \in Fetchers, NEW p, Goto(f, p)
  PROVE  at'[Loop] = at[Loop]
BY StoreAssumption DEF Goto, Threads, TypeInv, TypeOK

\* What a body covers it keeps covering, whatever the backend does.
LEMMA CoversStep ==
  ASSUME TypeInv, [Next]_vars, NEW tag \in Tags \cup {NoTag}, NEW l \in Nat, NEW body,
         Covers(tag, l, body)
  PROVE  Covers(tag, l, body)'
<1>t. /\ version \in Nat /\ activeVersion \in Nat /\ life \in Nat
      /\ tag # NoTag => tag[1] \in Nat /\ tag[2] \in Nat
  BY StoreAssumption DEF TypeInv, TypeOK, Tags
<1>1. ASSUME UNCHANGED <<version, activeVersion, active, published, life>>
      PROVE  Covers(tag, l, body)'
  BY <1>1 DEF Covers, Tag
<1>2. ASSUME version' = version + 1, UNCHANGED <<activeVersion, life>>
      PROVE  Covers(tag, l, body)'
  <2>1. l = life /\ tag # NoTag => tag # Tag'
    BY <1>2, <1>t DEF Covers, Tag
  <2> QED BY <2>1, <1>2, <1>t DEF Covers
<1>3. ASSUME activeVersion' = activeVersion + 1, UNCHANGED <<version, life>>
      PROVE  Covers(tag, l, body)'
  <2>1. l = life /\ tag # NoTag => tag # Tag'
    BY <1>3, <1>t DEF Covers, Tag
  <2> QED BY <2>1, <1>3, <1>t DEF Covers
<1>4. CASE Restart
  <2>1. life' = life + 1
    BY <1>4, Zenon DEF Restart
  <2> QED BY <2>1, <1>t DEF Covers
<1> USE DEF store, clients
<1>5. ASSUME NEW f \in Fetchers, NEW k \in Layers, Fetch(f, k)
      PROVE  Covers(tag, l, body)'
  <2>1. UNCHANGED <<version, activeVersion, active, published, life>>
    BY <1>5, Zenon DEF Fetch
  <2> QED BY <2>1, <1>1
<1>6. ASSUME NEW f \in Fetchers, Refresh(f) \/ SaveCache(f) PROVE Covers(tag, l, body)'
  <2>1. UNCHANGED <<version, activeVersion, active, published, life>>
    BY <1>6, Zenon DEF Refresh, SaveCache
  <2> QED BY <2>1, <1>1
<1>7. ASSUME NEW f \in Fetchers, MarkFresh(f) PROVE Covers(tag, l, body)'
  <2>1. version' = version + 1 /\ UNCHANGED <<activeVersion, life>>
    BY <1>7, Zenon DEF MarkFresh
  <2> QED BY <2>1, <1>2
<1>8. ASSUME NEW t, BumpDataVersion(t) PROVE Covers(tag, l, body)'
  <2>1. version' = version + 1 /\ UNCHANGED <<activeVersion, life>>
    BY <1>8, Zenon DEF BumpDataVersion
  <2> QED BY <2>1, <1>2
<1>9. ASSUME NEW k \in Layers, UpdateLayers(k) PROVE Covers(tag, l, body)'
  <2>1. activeVersion' = activeVersion + 1 /\ UNCHANGED <<version, life>>
    BY <1>9, Zenon DEF UpdateLayers
  <2> QED BY <2>1, <1>3
<1>10. ASSUME SensorPosts \/ StoreReading \/ Answer \/ UNCHANGED vars
       PROVE  Covers(tag, l, body)'
  <2>1. UNCHANGED <<version, activeVersion, active, published, life>>
    BY <1>10, Zenon DEF SensorPosts, StoreReading, Answer, vars
  <2> QED BY <2>1, <1>1
<1>11. ASSUME NEW b \in Browsers, NEW k, NotModified(b, k) \/ Poll(b, k)
       PROVE  Covers(tag, l, body)'
  <2>1. UNCHANGED <<version, activeVersion, active, published, life>>
    BY <1>11, Zenon DEF NotModified, Poll
  <2> QED BY <2>1, <1>1
<1>12. ASSUME NEW b \in Browsers, PageStep(b) PROVE Covers(tag, l, body)'
  <2>1. UNCHANGED <<version, activeVersion, active, published, life>>
    BY <1>12, PageLeavesBackend DEF backend
  <2> QED BY <2>1, <1>1
<1>13. ASSUME NEW a \in Agents, AgentStep(a) PROVE Covers(tag, l, body)'
  <2>1. UNCHANGED <<version, activeVersion, active, published, life>>
    BY <1>13, Zenon DEF AgentStep, AgentAsks, GetLayerSlice
  <2> QED BY <2>1, <1>1
<1> QED
  BY <1>4, <1>5, <1>6, <1>7, <1>8, <1>9, <1>10, <1>11, <1>12, <1>13, Zenon
  DEF Next, FetcherStep, HandlerStep

\* An answer on its way was so before, or has just been made.
LEMMA AnswersFrom ==
  ASSUME TypeInv, [Next]_vars, NEW b \in Browsers, NEW k \in Calls, InFlight(b, k)'
  PROVE  \/ /\ InFlight(b, k)
            /\ calls'[b][k].tag = calls[b][k].tag
            /\ calls'[b][k].life = calls[b][k].life
            /\ calls'[b][k].seen = calls[b][k].seen
         \/ /\ Answer
            /\ calls'[b][k].tag = reply.tag
            /\ calls'[b][k].life = life
            /\ calls'[b][k].seen = [l \in Layers |-> IF l \in active THEN data[l].n ELSE 0]
<1> DEFINE Same == /\ InFlight(b, k)
                   /\ calls'[b][k].tag = calls[b][k].tag
                   /\ calls'[b][k].life = calls[b][k].life
                   /\ calls'[b][k].seen = calls[b][k].seen
           shown == [l \in Layers |-> IF l \in active THEN data[l].n ELSE 0]
           New == /\ Answer
                  /\ calls'[b][k].tag = reply.tag
                  /\ calls'[b][k].life = life
                  /\ calls'[b][k].seen = shown
<1> SUFFICES Same \/ New
  OBVIOUS
<1>t. /\ Called /\ NoCall \in Answers
      /\ \A x \in Browsers, y \in Calls : calls[x][y] \in Answers
  BY TypeParts, Values DEF TypeInv, Called
<1>n. /\ NoCall.step = "none"
      /\ [NoCall EXCEPT !.step = "asked"].step = "asked"
      /\ \A t : [NoCall EXCEPT !.step = "asked", !.tag = t].step = "asked"
  BY DEF NoCall
<1>1. CASE UNCHANGED calls
  BY <1>1 DEF InFlight
<1>2. ASSUME NEW x \in Browsers, NEW y \in Calls, NEW c \in Answers, Call(x, y, c),
             c.step \notin {"sent", "opened"}
      PROVE  Same
  <2>1. calls'[b][k] = IF b = x /\ k = y THEN c ELSE calls[b][k]
    BY <1>2, <1>t, CallStep
  <2> QED BY <2>1, <1>2 DEF InFlight
<1>3. ASSUME NEW x \in Browsers, NEW y \in Calls,
             NotModified(x, y) \/ Fails(x, y) \/ TakeBody(x, y)
      PROVE  Same
  <2>1. Call(x, y, NoCall)
    BY <1>3, Zenon DEF NotModified, Fails, TakeBody
  <2> QED BY <2>1, <1>2, <1>t, <1>n
<1>4. ASSUME NEW x \in Browsers, Ask(x) PROVE Same
  <2> DEFINE c == [NoCall EXCEPT !.step = "asked", !.tag = browser[x].etag]
  <2>1. Call(x, "poll", c)
    BY <1>4, Zenon DEF Ask
  <2>2. c \in Answers
    <3>1. browser[x].etag \in Tags \cup {NoTag}
      BY TypeParts DEF TypeInv, Polled
    <3> QED BY <3>1, Values DEF TypeInv, NoCall, Answers, CallSteps
  <2>3. c.step = "asked" /\ "poll" \in Calls
    BY <1>n DEF Calls
  <2> HIDE DEF c
  <2> QED BY <2>1, <2>2, <2>3, <1>2
<1>5. ASSUME NEW x \in Browsers, NEW y \in Forced, ForceRefresh(x, y) PROVE Same
  <2> DEFINE c == [NoCall EXCEPT !.step = "asked"]
  <2>1. Call(x, y, c)
    BY <1>5, Zenon DEF ForceRefresh
  <2>2. c \in Answers /\ c.step = "asked" /\ y \in Calls
    BY <1>t, <1>n DEF Answers, CallSteps, Calls
  <2> HIDE DEF c
  <2> QED BY <2>1, <2>2, <1>2
<1>6. ASSUME NEW x \in Browsers, NEW y \in Calls, TakeHeaders(x, y) PROVE Same
  <2> DEFINE c == [calls[x][y] EXCEPT !.step = "opened"]
  <2>1. Call(x, y, c) /\ calls[x][y].step = "sent"
    BY <1>6, Zenon DEF TakeHeaders
  <2>2. c \in Answers
    BY <1>t DEF Answers, CallSteps
  <2>3. /\ c.tag = calls[x][y].tag /\ c.life = calls[x][y].life
        /\ c.seen = calls[x][y].seen
    BY <1>t DEF Answers
  <2> HIDE DEF c
  <2>4. calls'[b][k] = IF b = x /\ k = y THEN c ELSE calls[b][k]
    BY <2>1, <2>2, <1>t, CallStep
  <2> QED BY <2>1, <2>3, <2>4 DEF InFlight
<1>7. CASE Answer
  <2> DEFINE c == [step |-> "sent", tag |-> reply.tag, life |-> life, seen |-> shown]
  <2>1. /\ reply.who \in Browsers /\ reply.call \in Calls /\ reply.tag \in Tags
        /\ life \in 0..MaxRestarts
    BY <1>7 DEF TypeInv, TypeOK, Places, Answer
  <2>2. shown \in Writes
    BY StoreAssumption DEF TypeInv, TypeOK, Writes
  <2>3. Call(reply.who, reply.call, c)
    BY <1>7, Zenon DEF Answer
  <2> HIDE DEF shown
  <2>4. c \in Answers
    BY <2>1, <2>2 DEF Answers, CallSteps
  <2>5. c.tag = reply.tag /\ c.life = life /\ c.seen = shown
    OBVIOUS
  <2> HIDE DEF c
  <2>6. calls'[b][k] = IF b = reply.who /\ k = reply.call THEN c ELSE calls[b][k]
    BY <2>1, <2>3, <2>4, <1>t, CallStep
  <2>7. CASE b = reply.who /\ k = reply.call
    BY <2>5, <2>6, <2>7, <1>7
  <2>8. CASE ~(b = reply.who /\ k = reply.call)
    BY <2>6, <2>8 DEF InFlight
  <2> QED BY <2>7, <2>8
<1>8. CASE Restart
  <2>1. calls' = [x \in Browsers |-> [y \in Calls |->
                   IF calls[x][y].step = "asked" THEN NoCall ELSE calls[x][y]]]
    BY <1>8, Zenon DEF Restart
  <2>2. calls'[b][k] = IF calls[b][k].step = "asked" THEN NoCall ELSE calls[b][k]
    BY <2>1
  <2> QED BY <2>2, <1>n DEF InFlight
<1> HIDE DEF Same, New
<1>9. ASSUME NEW x \in Browsers, PageStep(x) PROVE Same
  <2>1. ASSUME ForgetTag(x) PROVE Same
    <3>1. UNCHANGED calls
      BY <2>1, Zenon DEF ForgetTag
    <3> QED BY <3>1, <1>1 DEF Same, InFlight
  <2> QED BY <1>9, <1>3, <1>4, <1>5, <1>6, <2>1, Zenon DEF PageStep
<1> USE DEF clients, pages
<1>10. ASSUME NEW f \in Fetchers, NEW l \in Layers, Fetch(f, l) PROVE UNCHANGED calls
  BY <1>10, Zenon DEF Fetch
<1>11. ASSUME NEW f \in Fetchers, Refresh(f) \/ FetcherStep(f) PROVE UNCHANGED calls
  BY <1>11, Zenon DEF Refresh, FetcherStep, MarkFresh, BumpDataVersion, SaveCache
<1>12. ASSUME NEW l \in Layers, UpdateLayers(l) PROVE UNCHANGED calls
  BY <1>12, Zenon DEF UpdateLayers
<1>13. ASSUME SensorPosts \/ StoreReading \/ BumpDataVersion(Loop) \/ UNCHANGED vars
       PROVE  UNCHANGED calls
  BY <1>13, Zenon DEF SensorPosts, StoreReading, BumpDataVersion, vars
<1>14. ASSUME NEW a \in Agents, AgentStep(a) PROVE UNCHANGED calls
  BY <1>14, Zenon DEF AgentStep, AgentAsks, GetLayerSlice
<1>15. ASSUME NEW x \in Browsers, NEW y \in Calls, Poll(x, y) PROVE UNCHANGED calls
  BY <1>15, Zenon DEF Poll
<1> QED
  BY <1>1, <1>3, <1>7, <1>8, <1>9, <1>10, <1>11, <1>12, <1>13, <1>14, <1>15, Zenon
  DEF Next, HandlerStep

\* What a page shows it showed before, or was in an answer on its way.
LEMMA ShownFrom ==
  ASSUME TypeInv, [Next]_vars, NEW b \in Browsers
  PROVE  \/ /\ browser'[b].got = browser[b].got
            /\ browser'[b].gotLife = browser[b].gotLife
            /\ browser'[b].seen = browser[b].seen
         \/ \E k \in Calls :
              /\ InFlight(b, k)
              /\ browser'[b].got = calls[b][k].tag
              /\ browser'[b].gotLife = calls[b][k].life
              /\ browser'[b].seen = calls[b][k].seen
<1> DEFINE Same == /\ browser'[b].got = browser[b].got
                   /\ browser'[b].gotLife = browser[b].gotLife
                   /\ browser'[b].seen = browser[b].seen
           New == \E k \in Calls :
                    /\ InFlight(b, k)
                    /\ browser'[b].got = calls[b][k].tag
                    /\ browser'[b].gotLife = calls[b][k].life
                    /\ browser'[b].seen = calls[b][k].seen
<1> SUFFICES Same \/ New
  OBVIOUS
<1>t. browser \in [Browsers -> [etag : Tags \cup {NoTag}, life : 0..MaxRestarts,
                                seen : Writes, got : Tags \cup {NoTag},
                                gotLife : 0..MaxRestarts]]
  BY DEF TypeInv, TypeOK
<1>1. ASSUME UNCHANGED browser PROVE Same
  BY <1>1
<1>2. ASSUME NEW x \in Browsers, NEW tag, browser' = [browser EXCEPT ![x].etag = tag]
      PROVE  Same
  BY <1>2, <1>t
<1>3. ASSUME NEW x \in Browsers, NEW k \in Calls, TakeHeaders(x, k) PROVE Same
  <2>1. browser' = [browser EXCEPT ![x].etag = calls[x][k].tag,
                                  ![x].life = calls[x][k].life]
    BY <1>3, Zenon DEF TakeHeaders
  <2> QED BY <2>1, <1>t
<1>4. ASSUME NEW x \in Browsers, NEW k \in Calls, TakeBody(x, k) PROVE Same \/ New
  <2>1. /\ browser' = [browser EXCEPT ![x].seen = calls[x][k].seen,
                                     ![x].got = calls[x][k].tag,
                                     ![x].gotLife = calls[x][k].life]
        /\ calls[x][k].step = "opened"
    BY <1>4, Zenon DEF TakeBody
  <2>2. CASE x = b
    <3>1. browser'[b] = [browser[b] EXCEPT !.seen = calls[b][k].seen,
                                          !.got = calls[b][k].tag,
                                          !.gotLife = calls[b][k].life]
      BY <2>1, <2>2, <1>t
    <3>2. /\ browser'[b].got = calls[b][k].tag
          /\ browser'[b].gotLife = calls[b][k].life
          /\ browser'[b].seen = calls[b][k].seen
      BY <3>1, <1>t
    <3>3. InFlight(b, k)
      BY <2>1, <2>2 DEF InFlight
    <3> QED BY <3>2, <3>3
  <2>3. CASE x # b
    <3>1. browser'[b] = browser[b]
      BY <2>1, <2>3, <1>t
    <3> QED BY <3>1
  <2> QED BY <2>2, <2>3
<1> HIDE DEF Same, New
<1>5. ASSUME NEW x \in Browsers, NEW k, ForgetTag(x) \/ ForceRefresh(x, k) PROVE Same
  <2>1. browser' = [browser EXCEPT ![x].etag = NoTag]
    BY <1>5, Zenon DEF ForgetTag, ForceRefresh
  <2> QED BY <2>1, <1>2
<1>6. ASSUME NEW x \in Browsers, NEW k, Ask(x) \/ Fails(x, k) PROVE UNCHANGED browser
  BY <1>6, Zenon DEF Ask, Fails
<1>7. ASSUME NEW x \in Browsers, PageStep(x) PROVE Same \/ New
  BY <1>7, <1>1, <1>3, <1>4, <1>5, <1>6, Zenon DEF PageStep
<1> USE DEF clients, pages
<1>10. ASSUME NEW f \in Fetchers, NEW l \in Layers, Fetch(f, l) PROVE UNCHANGED browser
  BY <1>10, Zenon DEF Fetch
<1>11. ASSUME NEW f \in Fetchers, Refresh(f) \/ FetcherStep(f) PROVE UNCHANGED browser
  BY <1>11, Zenon DEF Refresh, FetcherStep, MarkFresh, BumpDataVersion, SaveCache
<1>12. ASSUME NEW l \in Layers, UpdateLayers(l) PROVE UNCHANGED browser
  BY <1>12, Zenon DEF UpdateLayers
<1>13. ASSUME SensorPosts \/ HandlerStep \/ Restart \/ UNCHANGED vars
       PROVE  UNCHANGED browser
  BY <1>13, Zenon
  DEF SensorPosts, HandlerStep, Answer, StoreReading, BumpDataVersion, Restart, vars
<1>14. ASSUME NEW a \in Agents, AgentStep(a) PROVE UNCHANGED browser
  BY <1>14, Zenon DEF AgentStep, AgentAsks, GetLayerSlice
<1>15. ASSUME NEW x \in Browsers, NEW y \in Calls, NotModified(x, y) \/ Poll(x, y)
       PROVE  UNCHANGED browser
  BY <1>15, Zenon DEF NotModified, Poll
<1> QED
  BY <1>1, <1>7, <1>10, <1>11, <1>12, <1>13, <1>14, <1>15, Zenon DEF Next

\* While an answer is prepared its tag stays what it was, but for a version bump.
LEMMA AnswerCurrentStep ==
  ASSUME TypeInv, AnswerCurrent, [Next]_vars
  PROVE  AnswerCurrent'
<1>t. /\ version \in Nat /\ activeVersion \in Nat
      /\ at \in [Threads -> Locations]
      /\ at[Loop] = "answer" => reply.tag[1] \in Nat /\ reply.tag[2] \in Nat
      /\ Loop \in Threads
  BY StoreAssumption DEF TypeInv, TypeOK, Places, Tags, Threads
<1>1. ASSUME UNCHANGED <<version, activeVersion, reply>>,
             at'[Loop] = "answer" => at[Loop] = "answer"
      PROVE  AnswerCurrent'
  BY <1>1 DEF AnswerCurrent
<1>2. ASSUME version' = version + 1, UNCHANGED <<activeVersion, reply>>,
             at'[Loop] = "answer" => at[Loop] = "answer"
      PROVE  AnswerCurrent'
  BY <1>2, <1>t DEF AnswerCurrent
<1>3. ASSUME at'[Loop] # "answer" PROVE AnswerCurrent'
  BY <1>3 DEF AnswerCurrent
<1>4. ASSUME NEW b \in Browsers, NEW k \in Calls, Poll(b, k) PROVE AnswerCurrent'
  <2>1. reply'.tag = Tag /\ UNCHANGED <<version, activeVersion>>
    BY <1>4 DEF Poll, store
  <2> QED BY <2>1, <1>t DEF AnswerCurrent, Tag
<1> USE DEF store, threads, clients
<1>5. ASSUME NEW b \in Browsers, NEW k \in Calls, NotModified(b, k) PROVE AnswerCurrent'
  <2>1. UNCHANGED <<version, activeVersion, reply, at>>
    BY <1>5, Zenon DEF NotModified
  <2> QED BY <2>1, <1>1
<1>6. ASSUME NEW b \in Browsers, PageStep(b) PROVE AnswerCurrent'
  <2>1. UNCHANGED <<version, activeVersion, reply, at>>
    BY <1>6, PageLeavesBackend DEF backend
  <2> QED BY <2>1, <1>1
<1>7. CASE Answer
  <2>1. at'[Loop] = "idle"
    BY <1>7, <1>t DEF Answer, Goto
  <2> QED BY <2>1, <1>3
<1>8. ASSUME NEW l \in Layers, UpdateLayers(l) PROVE AnswerCurrent'
  <2>1. at'[Loop] = "idle"
    BY <1>8 DEF UpdateLayers
  <2> QED BY <2>1, <1>3
<1>9. CASE Restart
  <2>1. Idle
    BY <1>9, Zenon DEF Restart
  <2>2. at'[Loop] = "idle"
    BY <2>1, <1>t DEF Idle
  <2> QED BY <2>2, <1>3
<1>10. ASSUME NEW f \in Fetchers, NEW l \in Layers, Fetch(f, l) PROVE AnswerCurrent'
  <2>1. /\ Goto(f, IF l \in Marked THEN "mark" ELSE "bump")
        /\ UNCHANGED <<version, activeVersion, reply>>
    BY <1>10, Zenon DEF Fetch
  <2> QED BY <2>1, <1>1, LoopStays
<1>11. ASSUME NEW f \in Fetchers, MarkFresh(f) PROVE AnswerCurrent'
  <2>1. /\ Goto(f, "bump") /\ version' = version + 1
        /\ UNCHANGED <<activeVersion, reply>>
    BY <1>11, Zenon DEF MarkFresh
  <2> QED BY <2>1, <1>2, LoopStays
<1>12. ASSUME NEW f \in Fetchers, BumpDataVersion(f) PROVE AnswerCurrent'
  <2>1. /\ Goto(f, IF f = Loop THEN "idle" ELSE "save") /\ version' = version + 1
        /\ UNCHANGED <<activeVersion, reply>>
    BY <1>12, Zenon DEF BumpDataVersion
  <2> QED BY <2>1, <1>2, LoopStays
<1>13. CASE BumpDataVersion(Loop)
  <2>1. at'[Loop] = "idle"
    BY <1>13, <1>t DEF BumpDataVersion, Goto
  <2> QED BY <2>1, <1>3
<1>14. ASSUME NEW f \in Fetchers, SaveCache(f) PROVE AnswerCurrent'
  <2>1. Goto(f, "idle") /\ UNCHANGED <<version, activeVersion, reply>>
    BY <1>14, Zenon DEF SaveCache
  <2> QED BY <2>1, <1>1, LoopStays
<1>15. ASSUME NEW f \in Fetchers, Refresh(f) PROVE AnswerCurrent'
  <2>1. Goto(f, "bump") /\ UNCHANGED <<version, activeVersion, reply>>
    BY <1>15, Zenon DEF Refresh
  <2> QED BY <2>1, <1>1, LoopStays
<1>16. CASE SensorPosts \/ StoreReading
  <2>1. at'[Loop] # "answer"
    BY <1>16, <1>t DEF SensorPosts, StoreReading, Goto
  <2> QED BY <2>1, <1>3
<1>17. ASSUME NEW a \in Agents, AgentStep(a) PROVE AnswerCurrent'
  <2>1. UNCHANGED <<version, activeVersion, reply, at>>
    BY <1>17, Zenon DEF AgentStep, AgentAsks, GetLayerSlice
  <2> QED BY <2>1, <1>1
<1>18. CASE UNCHANGED vars
  BY <1>18, <1>1 DEF vars
<1> QED
  BY <1>4, <1>5, <1>6, <1>7, <1>8, <1>9, <1>10, <1>11, <1>12, <1>13, <1>14, <1>15,
     <1>16, <1>17, <1>18, Zenon
  DEF Next, FetcherStep, HandlerStep

\* What pages show, and what is on its way to them, covers what its tag stands for.
LEMMA PageInvStep == TypeInv /\ PageInv /\ [Next]_vars => PageInv'
<1> SUFFICES ASSUME TypeInv, PageInv, [Next]_vars PROVE PageInv'
  OBVIOUS
<1>p. PublishedIsHeld /\ PublishedIsHeld' /\ AnswerCurrent'
  BY PublishedStep, AnswerCurrentStep DEF PageInv
<1>i. AnswerCurrent /\ BodiesCover /\ ShownCovers
  BY DEF PageInv
<1>c. \A b \in Browsers, k \in Calls : calls[b][k] \in Answers
  BY TypeParts DEF TypeInv, Called
<1>d. \A b \in Browsers, k \in Calls :
        /\ calls[b][k].tag \in Tags \cup {NoTag}
        /\ calls[b][k].life \in Nat
        /\ calls[b][k].seen \in Writes
  BY <1>c, StoreAssumption DEF Answers
<1>e. \A b \in Browsers :
        /\ browser[b].got \in Tags \cup {NoTag}
        /\ browser[b].gotLife \in Nat
        /\ browser[b].seen \in Writes
  BY StoreAssumption DEF TypeInv, TypeOK
<1>1. ASSUME NEW b \in Browsers, NEW k \in Calls, InFlight(b, k)'
      PROVE  Covers(calls[b][k].tag, calls[b][k].life, calls[b][k].seen)'
  <2>1. CASE /\ InFlight(b, k)
             /\ calls'[b][k].tag = calls[b][k].tag
             /\ calls'[b][k].life = calls[b][k].life
             /\ calls'[b][k].seen = calls[b][k].seen
    <3>1. PICK tag \in Tags \cup {NoTag}, l \in Nat, body \in Writes :
            /\ tag = calls[b][k].tag /\ l = calls[b][k].life /\ body = calls[b][k].seen
      BY <1>d
    <3>2. Covers(tag, l, body)
      BY <2>1, <3>1, <1>i DEF BodiesCover
    <3>3. Covers(tag, l, body)'
      BY <3>2, CoversStep
    <3> QED BY <2>1, <3>1, <3>3 DEF Covers
  <2>2. CASE /\ Answer
             /\ calls'[b][k].tag = reply.tag
             /\ calls'[b][k].life = life
             /\ calls'[b][k].seen = [l \in Layers |-> IF l \in active THEN data[l].n ELSE 0]
    <3>1. UNCHANGED <<version, activeVersion, active, published, life, data>>
      BY <2>2, Zenon DEF Answer, store
    <3>2. \A l \in active : calls'[b][k].seen[l] >= published[l]
      <4>1. \A l \in Layers : published[l] <= data[l].n
        BY <1>p DEF PublishedIsHeld
      <4>2. \A l \in Layers : published[l] \in Nat /\ data[l].n \in Nat
        BY DEF TypeInv, TypeOK, Writes
      <4>3. active \subseteq Layers
        BY DEF TypeInv, TypeOK
      <4> QED BY <4>1, <4>2, <4>3, <2>2
    <3>3. reply.tag[1] <= version /\ reply.tag[2] = activeVersion
      BY <2>2, <1>i DEF Answer, AnswerCurrent
    <3>4. life \in Nat /\ activeVersion \in Nat
      BY StoreAssumption DEF TypeInv, TypeOK
    <3> QED BY <2>2, <3>1, <3>2, <3>3, <3>4 DEF Covers
  <2> QED BY <1>1, <2>1, <2>2, AnswersFrom
<1>2. ASSUME NEW b \in Browsers
      PROVE  Covers(browser[b].got, browser[b].gotLife, browser[b].seen)'
  <2>1. PICK tag \in Tags \cup {NoTag}, l \in Nat, body \in Writes :
          /\ Covers(tag, l, body)
          /\ browser'[b].got = tag /\ browser'[b].gotLife = l /\ browser'[b].seen = body
    <3>1. CASE /\ browser'[b].got = browser[b].got
               /\ browser'[b].gotLife = browser[b].gotLife
               /\ browser'[b].seen = browser[b].seen
      BY <3>1, <1>e, <1>i DEF ShownCovers
    <3>2. ASSUME NEW k \in Calls,
                 InFlight(b, k),
                 browser'[b].got = calls[b][k].tag,
                 browser'[b].gotLife = calls[b][k].life,
                 browser'[b].seen = calls[b][k].seen
          PROVE  \E tag \in Tags \cup {NoTag}, l \in Nat, body \in Writes :
                   /\ Covers(tag, l, body)
                   /\ browser'[b].got = tag /\ browser'[b].gotLife = l
                   /\ browser'[b].seen = body
      BY <3>2, <1>d, <1>i DEF BodiesCover
    <3> QED BY <3>1, <3>2, ShownFrom
  <2>2. Covers(tag, l, body)'
    BY <2>1, CoversStep
  <2> QED BY <2>1, <2>2 DEF Covers
<1> QED BY <1>p, <1>1, <1>2 DEF PageInv, BodiesCover, ShownCovers

\* An answer of 304 is right: a page whose tag is the one the store would give,
\* from the same process, and that has the body of that tag, shows in every layer it
\* has on what a bump covered.
THEOREM NotModifiedCorrect == Spec => []NotModifiedIsCurrent
<1>1. Init => TypeInv /\ PageInv
  BY TypeInit, PageInit
<1>2. TypeInv /\ PageInv /\ [Next]_vars => (TypeInv /\ PageInv)'
  <2> SUFFICES ASSUME TypeInv, PageInv, [Next]_vars PROVE TypeInv' /\ PageInv'
    OBVIOUS
  <2>1. TypeInv'
    BY TypeStep
  <2>2. PageInv'
    BY PageInvStep
  <2> QED BY <2>1, <2>2
<1>3. TypeInv /\ PageInv => NotModifiedIsCurrent
  <2> SUFFICES ASSUME TypeInv, PageInv, NEW b \in Browsers,
                      browser[b].etag = Tag, browser[b].life = life, Whole(b)
               PROVE  \A l \in active : browser[b].seen[l] >= published[l]
    BY DEF NotModifiedIsCurrent
  <2>1. browser[b].got = Tag /\ browser[b].gotLife = life
    BY DEF Whole
  <2>2. Tag # NoTag
    BY Values, StoreAssumption DEF TypeInv
  <2> QED BY <2>1, <2>2 DEF PageInv, ShownCovers, Covers
<1> QED BY <1>1, <1>2, <1>3, PTL DEF Spec

-----------------------------------------------------------------------------
(***************************************************************************)
(* Agents, for the layers they have from this process.  A layer is marked  *)
(* no later than it is held, and a version that an agent has or is about   *)
(* to get from this process is not ahead of the store's.                   *)
(***************************************************************************)
MarkedIsHeld == \A l \in Layers : marked[l] <= data[l].n
SnapshotsPast ==
  \A a \in Agents : agent[a].waiting =>
    \A l \in Layers : agent[a].snapshot[l] <= layerVersion[l]
VersionsPast ==
  \A a \in Agents, l \in Layers :
    agent[a].asked /\ agent[a].from[l] = life =>
      agent[a].versions[l] <= layerVersion[l]
LayersPast == \A a \in Agents, l \in Layers : agent[a].from[l] <= life
AgentInv ==
  /\ PublishedIsHeld /\ MarkedIsHeld
  /\ SnapshotsPast /\ VersionsPast /\ LayersPast /\ UnchangedIsCurrent

\* Nobody has asked and nothing is marked.
LEMMA AgentInit == Init => AgentInv
<1> SUFFICES ASSUME Init PROVE AgentInv
  OBVIOUS
<1>1. PublishedIsHeld
  BY PublishedInit
<1>2. MarkedIsHeld
  <2> SUFFICES ASSUME NEW l \in Layers PROVE marked[l] <= data[l].n
    BY DEF MarkedIsHeld
  <2>1. marked[l] = 0 /\ data[l].n = 0
    BY DEF Init, Zero
  <2> QED BY <2>1
<1>3. \A a \in Agents : agent[a].asked = FALSE /\ agent[a].waiting = FALSE
  BY DEF Init
<1>4. SnapshotsPast /\ VersionsPast /\ UnchangedIsCurrent
  BY <1>3 DEF SnapshotsPast, VersionsPast, UnchangedIsCurrent
<1>5. LayersPast
  <2> SUFFICES ASSUME NEW a \in Agents, NEW l \in Layers
               PROVE  agent[a].from[l] <= life
    BY DEF LayersPast
  <2>1. agent[a].from[l] = 0 /\ life = 0
    BY DEF Init, Zero
  <2> QED BY <2>1
<1> QED BY <1>1, <1>2, <1>4, <1>5 DEF AgentInv

\* A layer is marked with what it holds, and then only gets newer.
LEMMA MarkedStep ==
  ASSUME TypeInv, PublishedIsHeld, MarkedIsHeld, [Next]_vars
  PROVE  MarkedIsHeld'
<1>t. /\ data \in [Layers -> [n : 0..MaxWrites, of : 0..MaxWrites]]
      /\ writes \in Nat
      /\ marked \in [Layers -> Nat]
      /\ \A l \in Layers : data[l].n \in Nat
      /\ \A l \in Layers : data[l].n <= writes
  BY DEF TypeInv, TypeOK, Writes, PublishedIsHeld
<1>1. ASSUME NEW l \in Layers, Write(l, [n |-> writes + 1, of |-> writes + 1]),
             UNCHANGED marked
      PROVE  MarkedIsHeld'
  <2>1. ASSUME NEW k \in Layers
        PROVE  data'[k].n = IF k = l THEN writes + 1 ELSE data[k].n
    BY <1>1, <1>t DEF Write
  <2> QED BY <1>1, <1>t, <2>1 DEF MarkedIsHeld
<1>2. ASSUME NEW f \in Fetchers, MarkFresh(f) PROVE MarkedIsHeld'
  <2>1. /\ marked' = [marked EXCEPT ![doing[f]] = data[doing[f]].n]
        /\ data' = data
    BY <1>2 DEF MarkFresh
  <2>2. \A k \in Layers : marked'[k] = marked[k] \/ marked'[k] = data[k].n
    BY <2>1, <1>t
  <2> QED BY <2>1, <2>2, <1>t DEF MarkedIsHeld
<1>3. ASSUME NEW f \in Fetchers, Refresh(f) PROVE MarkedIsHeld'
  <2>1. data' = Seeded(writes + 1) /\ marked' = marked
    BY <1>3 DEF Refresh
  <2>2. ASSUME NEW k \in Layers
        PROVE  data'[k].n = IF cache[k] # 0 THEN writes + 1 ELSE data[k].n
    BY <2>1, <1>t DEF Seeded
  <2> QED BY <2>1, <2>2, <1>t DEF MarkedIsHeld
<1>4. CASE Restart
  <2>1. \A k \in Layers : marked'[k] = 0
    <3>1. marked' = Zero
      BY <1>4, Zenon DEF Restart
    <3> QED BY <3>1 DEF Zero
  <2>2. \A k \in Layers : data'[k].n \in Nat
    BY StoredStep DEF Stored
  <2> QED BY <2>1, <2>2 DEF MarkedIsHeld
<1>5. CASE UNCHANGED <<data, marked>>
  BY <1>5 DEF MarkedIsHeld
<1>6. ASSUME NEW f \in Fetchers, NEW l \in Layers, Fetch(f, l) PROVE MarkedIsHeld'
  BY <1>6, <1>1 DEF Fetch
<1>7. CASE StoreReading
  BY <1>7, <1>1, StoreAssumption DEF StoreReading
<1> USE DEF store, clients
<1>8. ASSUME NEW f \in Fetchers, SaveCache(f) PROVE MarkedIsHeld'
  BY <1>8, <1>5, Zenon DEF SaveCache
<1>9. ASSUME NEW t, BumpDataVersion(t) PROVE MarkedIsHeld'
  BY <1>9, <1>5, Zenon DEF BumpDataVersion
<1>10. ASSUME NEW b \in Browsers, PageStep(b) PROVE MarkedIsHeld'
  BY <1>10, <1>5, PageLeavesBackend DEF backend
<1>11. ASSUME NEW b \in Browsers, NEW k, NotModified(b, k) \/ Poll(b, k)
       PROVE  MarkedIsHeld'
  BY <1>11, <1>5, Zenon DEF NotModified, Poll
<1>12. ASSUME SensorPosts \/ Answer \/ UNCHANGED vars PROVE MarkedIsHeld'
  BY <1>12, <1>5, Zenon DEF SensorPosts, Answer, vars
<1>13. ASSUME NEW a \in Agents, AgentStep(a) PROVE MarkedIsHeld'
  BY <1>13, <1>5, Zenon DEF AgentStep, AgentAsks, GetLayerSlice
<1>14. ASSUME NEW l \in Layers, UpdateLayers(l) PROVE MarkedIsHeld'
  BY <1>14, <1>5, Zenon DEF UpdateLayers
<1> QED
  BY <1>2, <1>3, <1>4, <1>6, <1>7, <1>8, <1>9, <1>10, <1>11, <1>12, <1>13, <1>14, Zenon
  DEF Next, FetcherStep, HandlerStep

\* What an agent is told, and what it then has, is right for the versions it gets.
LEMMA AgentStepInv ==
  ASSUME TypeInv, AgentInv, [Next]_vars
  PROVE  AgentInv'
<1>p. PublishedIsHeld' /\ MarkedIsHeld'
  BY PublishedStep, MarkedStep DEF AgentInv
<1>i. MarkedIsHeld /\ SnapshotsPast /\ VersionsPast /\ LayersPast /\ UnchangedIsCurrent
  BY DEF AgentInv
<1>t. /\ layerVersion \in [Layers -> Nat] /\ life \in Nat
      /\ \A l \in Layers : data[l].n \in Nat /\ marked[l] \in Nat
      /\ \A a \in Agents, l \in Layers :
           /\ agent[a].versions[l] \in Nat
           /\ agent[a].snapshot[l] \in Nat
           /\ agent[a].seen[l] \in Nat
           /\ agent[a].from[l] \in Nat
  <2>1. Asked
    BY TypeParts DEF TypeInv
  <2>2. \A a \in Agents, l \in Layers :
          /\ agent[a].versions[l] \in Nat
          /\ agent[a].snapshot[l] \in Nat
          /\ agent[a].seen[l] \in Nat
          /\ agent[a].from[l] \in Nat
    BY <2>1, StoreAssumption DEF Asked, Writes
  <2> QED BY <2>2, StoreAssumption DEF TypeInv, TypeOK, Writes
<1>a. DOMAIN agent = Agents /\ Asked
  BY TypeParts DEF TypeInv, TypeOK, Asked
<1>1. ASSUME UNCHANGED <<agent, layerVersion, marked, life>> PROVE AgentInv'
  BY <1>1, <1>p, <1>i
  DEF AgentInv, SnapshotsPast, VersionsPast, LayersPast, UnchangedIsCurrent
<1>2. ASSUME NEW f \in Fetchers, MarkFresh(f) PROVE AgentInv'
  <2>1. /\ doing[f] \in Layers
        /\ layerVersion' = [layerVersion EXCEPT ![doing[f]] = @ + 1]
        /\ marked' = [marked EXCEPT ![doing[f]] = data[doing[f]].n]
        /\ agent' = agent /\ life' = life
    BY <1>2 DEF MarkFresh, clients, TypeInv, Places
  <2>2. ASSUME NEW l \in Layers
        PROVE  \/ layerVersion'[l] = layerVersion[l] + 1
               \/ layerVersion'[l] = layerVersion[l] /\ marked'[l] = marked[l]
    <3>1. CASE l = doing[f]
      BY <3>1, <2>1, <1>t
    <3>2. CASE l # doing[f]
      BY <3>2, <2>1, <1>t DEF TypeInv, TypeOK, Writes
    <3> QED BY <3>1, <3>2
  <2>3. SnapshotsPast' /\ VersionsPast' /\ LayersPast'
    BY <2>1, <2>2, <1>i, <1>t DEF SnapshotsPast, VersionsPast, LayersPast
  <2>4. UnchangedIsCurrent'
    BY <2>1, <2>2, <1>i, <1>t DEF UnchangedIsCurrent, VersionsPast
  <2> QED BY <1>p, <2>3, <2>4 DEF AgentInv
<1>3. ASSUME NEW a \in Agents, AgentAsks(a) PROVE AgentInv'
  <2>1. ASSUME NEW c \in Agents
        PROVE  /\ agent'[c].asked = agent[c].asked
               /\ agent'[c].versions = agent[c].versions
               /\ agent'[c].seen = agent[c].seen
               /\ agent'[c].from = agent[c].from
               /\ \/ agent'[c].snapshot = layerVersion
                  \/ /\ agent'[c].waiting = agent[c].waiting
                     /\ agent'[c].snapshot = agent[c].snapshot
    <3>1. agent' = [agent EXCEPT ![a] =
                     [agent[a] EXCEPT !.waiting = TRUE, !.snapshot = layerVersion]]
      BY <1>3 DEF AgentAsks
    <3>2. CASE c = a
      BY <3>1, <3>2, <1>a DEF Asked
    <3>3. CASE c # a
      BY <3>1, <3>3, <1>a
    <3> QED BY <3>2, <3>3
  <2>2. UNCHANGED <<layerVersion, marked, life>>
    BY <1>3, Zenon DEF AgentAsks, store
  <2>3. SnapshotsPast'
    BY <2>1, <2>2, <1>i, <1>t DEF SnapshotsPast
  <2>4. VersionsPast' /\ LayersPast' /\ UnchangedIsCurrent'
    BY <2>1, <2>2, <1>i DEF VersionsPast, LayersPast, UnchangedIsCurrent
  <2> QED BY <1>p, <2>3, <2>4 DEF AgentInv
<1>4. ASSUME NEW a \in Agents, GetLayerSlice(a) PROVE AgentInv'
  <2> DEFINE has == [l \in Layers |-> IF l \in Stale(a) THEN data[l].n ELSE agent[a].seen[l]]
             came == [l \in Layers |-> IF l \in Stale(a) THEN life ELSE agent[a].from[l]]
  <2>0. agent[a].waiting
    BY <1>4, Zenon DEF GetLayerSlice
  <2>1. /\ agent' = [agent EXCEPT ![a] =
             [asked |-> TRUE, versions |-> agent[a].snapshot, waiting |-> FALSE,
              snapshot |-> Zero, seen |-> has, from |-> came]]
        /\ UNCHANGED <<layerVersion, marked, life>>
    BY <1>4 DEF GetLayerSlice, store
  <2>2. ASSUME NEW l \in Layers, came[l] = life,
               agent[a].snapshot[l] >= layerVersion[l]
        PROVE  has[l] >= marked[l]
    <3>1. agent[a].snapshot[l] = layerVersion[l]
      <4>1. agent[a].snapshot[l] <= layerVersion[l]
        BY <2>0, <1>i DEF SnapshotsPast
      <4> QED BY <4>1, <2>2, <1>t
    <3>2. CASE l \in Stale(a)
      BY <3>2, <1>i, <1>t DEF MarkedIsHeld
    <3>3. CASE l \notin Stale(a)
      <4>1. agent[a].asked /\ ~(agent[a].versions[l] < agent[a].snapshot[l])
        BY <3>3 DEF Stale
      <4>2. agent[a].from[l] = life
        BY <2>2, <3>3
      <4> QED BY <4>1, <4>2, <3>1, <3>3, <1>i, <1>t DEF UnchangedIsCurrent
    <3> QED BY <3>2, <3>3
  <2>7. \A l \in Layers : came[l] <= life
    BY <1>i, <1>t DEF LayersPast
  <2> HIDE DEF has, came
  <2>3. ASSUME NEW c \in Agents
        PROVE  \/ agent'[c] = agent[c]
               \/ /\ c = a
                  /\ agent'[c] = [asked |-> TRUE, versions |-> agent[a].snapshot,
                                  waiting |-> FALSE, snapshot |-> Zero, seen |-> has,
                                  from |-> came]
    BY <2>1, <1>a
  <2>4. SnapshotsPast'
    BY <2>1, <2>3, <1>i DEF SnapshotsPast
  <2>8. \A l \in Layers : agent[a].snapshot[l] <= layerVersion[l]
    BY <2>0, <1>i DEF SnapshotsPast
  <2>5. VersionsPast'
    BY <2>1, <2>3, <2>8, <1>i DEF VersionsPast
  <2>9. LayersPast'
    BY <2>1, <2>3, <2>7, <1>i DEF LayersPast
  <2>6. UnchangedIsCurrent'
    BY <2>1, <2>2, <2>3, <1>i DEF UnchangedIsCurrent
  <2> QED BY <1>p, <2>4, <2>5, <2>6, <2>9 DEF AgentInv
<1>5. CASE Restart
  <2>1. life' = life + 1
    BY <1>5, Zenon DEF Restart
  <2>2. ASSUME NEW a \in Agents
        PROVE  agent'[a].waiting = FALSE /\ agent'[a].from = agent[a].from
    <3>1. agent' = [x \in Agents |->
                      [agent[x] EXCEPT !.waiting = FALSE, !.snapshot = Zero]]
      BY <1>5, Zenon DEF Restart
    <3> QED BY <3>1, <1>a DEF Asked
  <2>3. ASSUME NEW a \in Agents, NEW l \in Layers
        PROVE  agent'[a].from[l] <= life /\ agent'[a].from[l] \in Nat
    BY <2>2, <1>i, <1>t DEF LayersPast
  <2>4. ASSUME NEW a \in Agents, NEW l \in Layers
        PROVE  agent'[a].from[l] # life' /\ agent'[a].from[l] <= life'
    BY <2>1, <2>3, <1>t
  <2>5. LayersPast'
    BY <2>4 DEF LayersPast
  <2> QED
    BY <2>2, <2>4, <2>5, <1>p
    DEF AgentInv, SnapshotsPast, VersionsPast, UnchangedIsCurrent
<1> USE DEF store, clients
<1>6. ASSUME NEW f \in Fetchers, NEW l \in Layers, Fetch(f, l) PROVE AgentInv'
  BY <1>6, <1>1, Zenon DEF Fetch
<1>7. ASSUME NEW f \in Fetchers, Refresh(f) \/ SaveCache(f) PROVE AgentInv'
  BY <1>7, <1>1, Zenon DEF Refresh, SaveCache
<1>8. ASSUME NEW t, BumpDataVersion(t) PROVE AgentInv'
  BY <1>8, <1>1, Zenon DEF BumpDataVersion
<1>9. ASSUME NEW b \in Browsers, PageStep(b) PROVE AgentInv'
  BY <1>9, <1>1, PageLeavesBackend DEF backend
<1>10. ASSUME NEW b \in Browsers, NEW k, NotModified(b, k) \/ Poll(b, k) PROVE AgentInv'
  BY <1>10, <1>1, Zenon DEF NotModified, Poll
<1>11. ASSUME SensorPosts \/ StoreReading \/ Answer \/ UNCHANGED vars PROVE AgentInv'
  BY <1>11, <1>1, Zenon DEF SensorPosts, StoreReading, Answer, vars
<1>12. ASSUME NEW l \in Layers, UpdateLayers(l) PROVE AgentInv'
  BY <1>12, <1>1, Zenon DEF UpdateLayers
<1> QED
  BY <1>2, <1>3, <1>4, <1>5, <1>6, <1>7, <1>8, <1>9, <1>10, <1>11, <1>12, Zenon
  DEF Next, FetcherStep, HandlerStep, AgentStep

\* However often the backend restarts, an agent that would be told that a layer is
\* unchanged, and that has the layer from the process that tells it so, has what the
\* layer was last marked fresh with.
THEOREM UnchangedCorrect == Spec => []UnchangedIsCurrent
<1>1. Init => TypeInv /\ AgentInv
  BY TypeInit, AgentInit
<1>2. TypeInv /\ AgentInv /\ [Next]_vars => (TypeInv /\ AgentInv)'
  <2> SUFFICES ASSUME TypeInv, AgentInv, [Next]_vars PROVE TypeInv' /\ AgentInv'
    OBVIOUS
  <2>1. TypeInv'
    BY TypeStep
  <2>2. AgentInv'
    BY AgentStepInv
  <2> QED BY <2>1, <2>2
<1>3. AgentInv => UnchangedIsCurrent
  BY DEF AgentInv
<1> QED BY <1>1, <1>2, <1>3, PTL DEF Spec

-----------------------------------------------------------------------------
(***************************************************************************)
(* A sensor's reading.  Its handler is the only one that keeps the lock    *)
(* beyond a step, and it keeps it where it waits for it.                   *)
(***************************************************************************)
WaitsForItself == lock = Loop => at[Loop] = "bump"

LEMMA WaitsInit == Init => WaitsForItself
BY StoreAssumption DEF Init, WaitsForItself

\* Without the lock only a page on its own side, a sensor or a user that finds the loop
\* idle, and a restart do anything.
LEMMA LockNeeded ==
  ASSUME [Next]_vars, ~LockFree, at[Loop] # "idle"
  PROVE  UNCHANGED vars \/ Restart \/ \E b \in Browsers : PageStep(b)
<1>1. ASSUME NEW f \in Fetchers, NEW l \in Layers, Fetch(f, l) PROVE FALSE
  BY <1>1, Zenon DEF Fetch
<1>2. ASSUME NEW f \in Fetchers, Refresh(f) PROVE FALSE
  BY <1>2, Zenon DEF Refresh
<1>3. ASSUME NEW f \in Fetchers, FetcherStep(f) PROVE FALSE
  BY <1>3, Zenon DEF FetcherStep, MarkFresh, BumpDataVersion, SaveCache
<1>4. ASSUME NEW b \in Browsers, NEW k, NotModified(b, k) \/ Poll(b, k) PROVE FALSE
  BY <1>4, Zenon DEF NotModified, Poll
<1>5. ASSUME NEW l \in Layers, UpdateLayers(l) PROVE FALSE
  BY <1>5, Zenon DEF UpdateLayers
<1>6. ASSUME SensorPosts \/ HandlerStep PROVE FALSE
  BY <1>6, Zenon DEF SensorPosts, HandlerStep, Answer, StoreReading, BumpDataVersion
<1>7. ASSUME NEW a \in Agents, AgentStep(a) PROVE FALSE
  BY <1>7, Zenon DEF AgentStep, AgentAsks, GetLayerSlice
<1> QED BY <1>1, <1>2, <1>3, <1>4, <1>5, <1>6, <1>7, Zenon DEF Next

LEMMA WaitsStep == TypeInv /\ WaitsForItself /\ [Next]_vars => WaitsForItself'
<1> SUFFICES ASSUME TypeInv, WaitsForItself, [Next]_vars, lock' = Loop
             PROVE  at'[Loop] = "bump"
  BY DEF WaitsForItself
<1>t. /\ at \in [Threads -> Locations] /\ Loop \in Threads
      /\ Free # Loop /\ \A f \in Fetchers : f # Loop
  BY StoreAssumption DEF TypeInv, TypeOK, Threads
<1>1. CASE lock = Loop
  <2>1. ~LockFree /\ at[Loop] = "bump"
    BY <1>t, <1>1 DEF WaitsForItself, LockFree
  <2>2. ~Restart
    BY <1>t, Zenon DEF Restart
  <2>3. UNCHANGED vars \/ \E b \in Browsers : PageStep(b)
    BY <2>1, <2>2, LockNeeded
  <2>4. at' = at
    BY <2>3, PageLeavesBackend, Zenon DEF vars, threads, backend
  <2> QED BY <2>1, <2>4
<1>2. CASE lock # Loop
  <2>1. ASSUME lock' = lock PROVE FALSE
    BY <1>2, <2>1
  <2>2. ASSUME lock' = Free PROVE FALSE
    BY <1>t, <2>2
  <2>3. ASSUME NEW f \in Fetchers, NEW l \in Layers, Fetch(f, l) PROVE FALSE
    BY <2>1, <2>3, Zenon DEF Fetch
  <2>4. ASSUME NEW f \in Fetchers, Refresh(f) PROVE FALSE
    BY <2>1, <2>4, Zenon DEF Refresh
  <2>5. ASSUME NEW f \in Fetchers, FetcherStep(f) PROVE FALSE
    BY <2>1, <2>2, <2>5, Zenon DEF FetcherStep, MarkFresh, BumpDataVersion, SaveCache
  <2>6. ASSUME NEW b \in Browsers, NEW k, NotModified(b, k) \/ Poll(b, k) PROVE FALSE
    BY <2>1, <2>6, Zenon DEF NotModified, Poll
  <2>13. ASSUME NEW b \in Browsers, PageStep(b) PROVE FALSE
    BY <2>1, <2>13, PageLeavesBackend, Zenon DEF backend
  <2>7. ASSUME NEW l \in Layers, UpdateLayers(l) PROVE FALSE
    BY <2>1, <2>7, Zenon DEF UpdateLayers
  <2>8. ASSUME SensorPosts \/ Answer \/ BumpDataVersion(Loop) PROVE FALSE
    BY <2>1, <2>2, <2>8, Zenon DEF SensorPosts, Answer, BumpDataVersion
  <2>9. ASSUME NEW a \in Agents, AgentStep(a) PROVE FALSE
    BY <2>1, <2>9, Zenon DEF AgentStep, AgentAsks, GetLayerSlice
  <2>10. ASSUME Restart \/ UNCHANGED vars PROVE FALSE
    BY <2>1, <2>2, <2>10, Zenon DEF Restart, vars
  <2>11. StoreReading
    BY <2>3, <2>4, <2>5, <2>6, <2>7, <2>8, <2>9, <2>10, <2>13, Zenon DEF Next, HandlerStep
  <2>12. Goto(Loop, "bump")
    BY <2>11, Zenon DEF StoreReading
  <2> QED BY <1>t, <2>12 DEF Goto
<1> QED BY <1>1, <1>2

\* Once a reading has been put in the store, nothing of the backend moves until it is
\* restarted: no fetcher, no request, no agent.  hidrico_telemetry calls
\* bump_data_version with the lock in hand that the call waits for, and everything
\* else waits for it too.  (Only a page may still ask, lose a request, take an answer
\* that was on its way or drop its ETag.)
THEOREM ReadingStopsTheStore ==
  Spec => [][lock = Loop /\ life' = life
               => UNCHANGED <<lock, store, cache, threads, agent>>]_vars
<1>1. TypeInv /\ WaitsForItself /\ [Next]_vars =>
        [lock = Loop /\ life' = life
           => UNCHANGED <<lock, store, cache, threads, agent>>]_vars
  <2> SUFFICES ASSUME TypeInv, WaitsForItself, [Next]_vars, lock = Loop, life' = life
               PROVE  UNCHANGED <<lock, store, cache, threads, agent>>
    OBVIOUS
  <2>1. at[Loop] = "bump" /\ ~LockFree
    BY StoreAssumption DEF WaitsForItself, LockFree
  <2>2. ~Restart
    <3>1. life \in Nat
      BY StoreAssumption DEF TypeInv, TypeOK
    <3>2. Restart => life' = life + 1
      BY Zenon DEF Restart
    <3> QED BY <3>1, <3>2
  <2>3. UNCHANGED vars \/ \E b \in Browsers : PageStep(b)
    BY <2>1, <2>2, LockNeeded
  <2> QED BY <2>3, PageLeavesBackend, Zenon DEF vars, clients, backend
<1> QED BY TypeInit, TypeStep, WaitsInit, WaitsStep, <1>1, PTL DEF Spec
=============================================================================
