------------------------------ MODULE LiveData ------------------------------
(***************************************************************************)
(* The in-memory data store of the dashboard and those who read it:        *)
(* services/fetchers/_store.py, the update cycles and startup caches of    *)
(* services/data_fetcher.py, the live-data, layer and telemetry handlers   *)
(* of routers/data.py and routers/hidrico.py, and get_layer_slice of       *)
(* services/telemetry.py; and of the pages, hooks/useDataPolling.ts.       *)
(*                                                                         *)
(* Fetchers, each on a thread of its own, replace layers of the store;     *)
(* request handlers run on the event loop, one at a time and without       *)
(* giving way; agents' commands read the store on their own.  All take     *)
(* _data_lock for each access and release it before the next, so an access *)
(* is one step, except that a telemetry handler holds the lock while it    *)
(* calls bump_data_version.  A page takes an answer in two steps: it keeps *)
(* the ETag when the headers are in, and waits for the body.               *)
(*                                                                         *)
(* What a layer holds is the number `n' of the write that put it there and *)
(* the number `of' of the fetch it came from, 0 for an empty layer.        *)
(***************************************************************************)
EXTENDS Naturals

CONSTANTS
  Layers,       \* top-level keys of latest_data
  Marked,       \* layers whose fetcher calls _mark_fresh
  Cached,       \* layers of the startup caches
  Hydric,       \* the layer the telemetry handler writes
  Fetchers,     \* threads of scheduled jobs and refreshes
  Loop,         \* the thread of the event loop
  Browsers,     \* pages that poll with If-None-Match
  Forced,       \* requests of forceRefreshLiveData, beside the one of the poll
  Agents,       \* agents that poll with since_layer_versions
  Free,         \* the holder of a lock that is not held
  NoTag,        \* no ETag
  Telemetry,    \* sensors post readings
  MaxWrites,    \* bound on writes to the store
  MaxToggles,   \* bound on changes of the active layers
  MaxRestarts   \* bound on restarts of the backend

Threads == Fetchers \cup {Loop}
Calls == {"poll"} \cup Forced
Tags == Nat \X Nat

ASSUME StoreAssumption ==
  /\ Marked \subseteq Layers /\ Cached \subseteq Layers
  /\ Hydric \in Layers
  /\ Loop \notin Fetchers /\ Free # Loop
  /\ NoTag \notin Tags
  /\ Telemetry \in BOOLEAN
  /\ MaxWrites \in Nat /\ MaxToggles \in Nat /\ MaxRestarts \in Nat

VARIABLES
  lock,           \* who holds _data_lock
  data,           \* latest_data
  writes,         \* how many writes there were
  version,        \* _data_version
  layerVersion,   \* _layer_versions
  active,         \* active_layers
  activeVersion,  \* _active_layers_version
  cache,          \* the startup cache files: a fetch for each layer
  at,             \* where each thread is
  doing,          \* the layer each fetcher has just written
  reply,          \* the request the event loop is answering
  browser,        \* each page: the ETag it holds and the writes it shows; as
                  \* history, the processes and the tag of the body they are of
  calls,          \* the requests of each page, with the answer on its way
  agent,          \* each agent: layer versions, writes it has, request; as
                  \* history, the process each layer came from
  life,           \* how many restarts there were
  published,      \* history: the writes that some version bump covered
  marked          \* history: the write each layer was last marked fresh with

store == <<data, writes, version, layerVersion, active, activeVersion>>
threads == <<at, doing, reply>>
pages == <<browser, calls>>
clients == <<pages, agent>>
vars == <<lock, store, cache, threads, clients, life, published, marked>>

-----------------------------------------------------------------------------
Zero == [l \in Layers |-> 0]
NoReply == [who |-> NoTag, call |-> NoTag, tag |-> NoTag]
NoCall == [step |-> "none", tag |-> NoTag, life |-> 0, seen |-> Zero]
Call(b, k, c) == calls' = [calls EXCEPT ![b][k] = c]
Tag == <<version, activeVersion>>              \* _current_etag
LastWrites == [l \in Layers |-> data[l].n]
LockFree == lock = Free
Goto(t, l) == at' = [at EXCEPT ![t] = l]
Write(l, content) == data' = [data EXCEPT ![l] = content]
Idle == /\ at' = [t \in Threads |-> "idle"]
        /\ doing' = [f \in Fetchers |-> NoTag]
        /\ reply' = NoReply

Init ==
  /\ lock = Free
  /\ data = [l \in Layers |-> [n |-> 0, of |-> 0]]
  /\ writes = 0
  /\ version = 0
  /\ layerVersion = Zero
  /\ active = Layers
  /\ activeVersion = 0
  /\ cache = Zero
  /\ at = [t \in Threads |-> "idle"]
  /\ doing = [f \in Fetchers |-> NoTag]
  /\ reply = NoReply
  /\ browser = [b \in Browsers |-> [etag |-> NoTag, life |-> 0, seen |-> Zero,
                                    got |-> NoTag, gotLife |-> 0]]
  /\ calls = [b \in Browsers |-> [k \in Calls |-> NoCall]]
  /\ agent = [a \in Agents |-> [asked |-> FALSE, versions |-> Zero, seen |-> Zero,
                                waiting |-> FALSE, snapshot |-> Zero, from |-> Zero]]
  /\ life = 0
  /\ published = Zero
  /\ marked = Zero

-----------------------------------------------------------------------------
(***************************************************************************)
(* Fetchers: the tasks of a cycle, then its bump and its cache file.       *)
(***************************************************************************)

\* mutant: the cycle ends without a bump unless its layer is marked
Fetch_MarkedOnly(f, l) ==
  /\ at[f] = "idle" /\ LockFree /\ writes < MaxWrites
  /\ writes' = writes + 1
  /\ Write(l, [n |-> writes + 1, of |-> writes + 1])
  /\ doing' = [doing EXCEPT ![f] = l]
  /\ Goto(f, IF l \in Marked THEN "mark" ELSE "save")
  /\ UNCHANGED <<lock, version, layerVersion, active, activeVersion, cache, reply,
                 clients, life, published, marked>>

\* A fetched layer replaces the old one; some are then marked fresh.
Fetch(f, l) ==
  /\ at[f] = "idle" /\ LockFree /\ writes < MaxWrites
  /\ writes' = writes + 1
  /\ Write(l, [n |-> writes + 1, of |-> writes + 1])
  /\ doing' = [doing EXCEPT ![f] = l]
  /\ Goto(f, IF l \in Marked THEN "mark" ELSE "bump")
  /\ UNCHANGED <<lock, version, layerVersion, active, activeVersion, cache, reply,
                 clients, life, published, marked>>

\* mutant: the layer's version is bumped, the global one only by the cycle
MarkFresh_LayerOnly(f) ==
  /\ at[f] = "mark" /\ LockFree
  /\ layerVersion' = [layerVersion EXCEPT ![doing[f]] = @ + 1]
  /\ published' = LastWrites
  /\ marked' = [marked EXCEPT ![doing[f]] = data[doing[f]].n]
  /\ Goto(f, "bump")
  /\ UNCHANGED <<lock, data, writes, version, active, activeVersion, cache, doing,
                 reply, clients, life>>

\* mutant: only the global version is bumped
MarkFresh_GlobalOnly(f) ==
  /\ at[f] = "mark" /\ LockFree
  /\ version' = version + 1
  /\ published' = LastWrites
  /\ marked' = [marked EXCEPT ![doing[f]] = data[doing[f]].n]
  /\ Goto(f, "bump")
  /\ UNCHANGED <<lock, data, writes, layerVersion, active, activeVersion, cache,
                 doing, reply, clients, life>>

\* _mark_fresh
MarkFresh(f) ==
  /\ at[f] = "mark" /\ LockFree
  /\ layerVersion' = [layerVersion EXCEPT ![doing[f]] = @ + 1]
  /\ version' = version + 1
  /\ published' = LastWrites
  /\ marked' = [marked EXCEPT ![doing[f]] = data[doing[f]].n]
  /\ Goto(f, "bump")
  /\ UNCHANGED <<lock, data, writes, active, activeVersion, cache, doing, reply,
                 clients, life>>

\* bump_data_version, at the end of a cycle or in the telemetry handler, which
\* then releases the lock and answers.
BumpDataVersion(t) ==
  /\ at[t] = "bump" /\ LockFree
  /\ version' = version + 1
  /\ published' = LastWrites
  /\ lock' = Free
  /\ Goto(t, IF t = Loop THEN "idle" ELSE "save")
  /\ UNCHANGED <<data, writes, layerVersion, active, activeVersion, cache, doing,
                 reply, clients, life, marked>>

\* mutant: a save that fails keeps the lock
SaveCache_KeepsLock(f) ==
  /\ at[f] = "save" /\ LockFree
  /\ lock' = f
  /\ Goto(f, "idle")
  /\ UNCHANGED <<store, cache, doing, reply, clients, life, published, marked>>

\* _save_fast_startup_cache, _save_intel_startup_cache
SaveCache(f) ==
  /\ at[f] = "save" /\ LockFree
  /\ cache' = [l \in Layers |-> IF l \in Cached THEN data[l].of ELSE 0]
  /\ Goto(f, "idle")
  /\ UNCHANGED <<lock, store, doing, reply, clients, life, published, marked>>

\* The layers of the cache files, written over what the store holds.
Seeded(n) ==
  [l \in Layers |-> IF cache[l] # 0 THEN [n |-> n, of |-> cache[l]] ELSE data[l]]

\* update_all_data (at start and on /api/refresh) begins with seed_startup_caches;
\* a cache file that is too old is skipped.
Refresh(f) ==
  /\ at[f] = "idle" /\ LockFree /\ writes < MaxWrites
  /\ cache # Zero
  /\ writes' = writes + 1
  /\ data' = Seeded(writes + 1)
  /\ Goto(f, "bump")
  /\ UNCHANGED <<lock, version, layerVersion, active, activeVersion, cache, doing,
                 reply, clients, life, published, marked>>

-----------------------------------------------------------------------------
(***************************************************************************)
(* The event loop.                                                         *)
(***************************************************************************)

\* live_data_fast, live_data_slow: the ETag is compared with the one sent, and 304
\* leaves the page as it is.
NotModified(b, k) ==
  /\ at[Loop] = "idle" /\ LockFree
  /\ calls[b][k].step = "asked" /\ calls[b][k].tag = Tag
  /\ Call(b, k, NoCall)
  /\ UNCHANGED <<lock, store, cache, threads, browser, agent, life, published, marked>>

Poll(b, k) ==
  /\ at[Loop] = "idle" /\ LockFree
  /\ calls[b][k].step = "asked" /\ calls[b][k].tag # Tag
  /\ reply' = [who |-> b, call |-> k, tag |-> Tag]
  /\ Goto(Loop, "answer")
  /\ UNCHANGED <<lock, store, cache, doing, clients, life, published, marked>>

\* Then the layers are read, and filtered by the active ones.
Answer ==
  /\ at[Loop] = "answer" /\ LockFree
  /\ Call(reply.who, reply.call,
          [step |-> "sent", tag |-> reply.tag, life |-> life,
           seen |-> [l \in Layers |-> IF l \in active THEN data[l].n ELSE 0]])
  /\ reply' = NoReply
  /\ Goto(Loop, "idle")
  /\ UNCHANGED <<lock, store, cache, doing, browser, agent, life, published, marked>>

\* update_layers; bump_active_layers_version
UpdateLayers(l) ==
  /\ at[Loop] = "idle" /\ activeVersion < MaxToggles
  /\ active' = IF l \in active THEN active \ {l} ELSE active \cup {l}
  /\ activeVersion' = activeVersion + 1
  /\ UNCHANGED <<lock, data, writes, version, layerVersion, cache, threads, clients,
                 life, published, marked>>

\* hidrico_telemetry, turimiquire_telemetry: the reading is put in the store under
\* the lock, and bump_data_version is called before the lock is released.
SensorPosts ==
  /\ Telemetry
  /\ at[Loop] = "idle" /\ writes < MaxWrites
  /\ Goto(Loop, "post")
  /\ UNCHANGED <<lock, store, cache, doing, reply, clients, life, published, marked>>

StoreReading ==
  /\ at[Loop] = "post" /\ LockFree /\ writes < MaxWrites
  /\ lock' = Loop
  /\ writes' = writes + 1
  /\ Write(Hydric, [n |-> writes + 1, of |-> writes + 1])
  /\ Goto(Loop, "bump")
  /\ UNCHANGED <<version, layerVersion, active, activeVersion, cache, doing, reply,
                 clients, life, published, marked>>

-----------------------------------------------------------------------------
(***************************************************************************)
(* Pages.  One request of the poll at a time, and any number of forced     *)
(* ones beside it; each may end without its headers or its body.           *)
(***************************************************************************)
backend == <<lock, store, cache, threads, agent, life, published, marked>>

\* fetchFastData, fetchSlowData: the request carries the tag of the moment.
Ask(b) ==
  /\ calls[b]["poll"].step = "none"
  /\ Call(b, "poll", [NoCall EXCEPT !.step = "asked", !.tag = browser[b].etag])
  /\ UNCHANGED <<backend, browser>>

\* forceRefreshLiveData: the tag is dropped, and the request carries none.
ForceRefresh(b, k) ==
  /\ calls[b][k].step = "none"
  /\ Call(b, k, [NoCall EXCEPT !.step = "asked"])
  /\ browser' = [browser EXCEPT ![b].etag = NoTag]
  /\ UNCHANGED backend

\* The headers are in: the ETag is kept, and the body awaited (res.json()).
TakeHeaders(b, k) ==
  /\ calls[b][k].step = "sent"
  /\ Call(b, k, [calls[b][k] EXCEPT !.step = "opened"])
  /\ browser' = [browser EXCEPT ![b].etag = calls[b][k].tag,
                                ![b].life = calls[b][k].life]
  /\ UNCHANGED backend

\* The body is in: mergeData replaces the layers.
TakeBody(b, k) ==
  /\ calls[b][k].step = "opened"
  /\ Call(b, k, NoCall)
  /\ browser' = [browser EXCEPT ![b].seen = calls[b][k].seen,
                                ![b].got = calls[b][k].tag,
                                ![b].gotLife = calls[b][k].life]
  /\ UNCHANGED backend

\* The request or its body is lost: the catch block leaves the ETag as it is.
Fails(b, k) ==
  /\ calls[b][k].step \in {"sent", "opened"}
  /\ Call(b, k, NoCall)
  /\ UNCHANGED <<backend, browser>>

\* The page drops its ETag when a layer is toggled or polling is resumed.
ForgetTag(b) ==
  /\ browser[b].etag # NoTag
  /\ browser' = [browser EXCEPT ![b].etag = NoTag]
  /\ UNCHANGED <<backend, calls>>

PageStep(b) ==
  \/ Ask(b) \/ ForgetTag(b)
  \/ \E k \in Forced : ForceRefresh(b, k)
  \/ \E k \in Calls : TakeHeaders(b, k) \/ TakeBody(b, k) \/ Fails(b, k)

-----------------------------------------------------------------------------
(***************************************************************************)
(* Agents: get_layer_slice for every layer, with the versions of the last  *)
(* answer.                                                                 *)
(***************************************************************************)
AgentAsks(a) ==
  /\ ~agent[a].waiting /\ LockFree
  /\ agent' = [agent EXCEPT ![a].waiting = TRUE, ![a].snapshot = layerVersion]
  /\ UNCHANGED <<lock, store, cache, threads, pages, life, published, marked>>

Stale(a) ==
  {l \in Layers : agent[a].asked => agent[a].versions[l] < agent[a].snapshot[l]}

\* mutant: the answer carries the versions of the moment it is made
GetLayerSlice_VersionsNow(a) ==
  /\ agent[a].waiting /\ LockFree
  /\ agent' = [agent EXCEPT ![a] =
       [asked |-> TRUE, versions |-> layerVersion, waiting |-> FALSE,
        snapshot |-> Zero,
        seen |-> [l \in Layers |-> IF l \in Stale(a) THEN data[l].n ELSE @.seen[l]],
        from |-> [l \in Layers |-> IF l \in Stale(a) THEN life ELSE @.from[l]]]]
  /\ UNCHANGED <<lock, store, cache, threads, pages, life, published, marked>>

GetLayerSlice(a) ==
  /\ agent[a].waiting /\ LockFree
  /\ agent' = [agent EXCEPT ![a] =
       [asked |-> TRUE, versions |-> @.snapshot, waiting |-> FALSE,
        snapshot |-> Zero,
        seen |-> [l \in Layers |-> IF l \in Stale(a) THEN data[l].n ELSE @.seen[l]],
        from |-> [l \in Layers |-> IF l \in Stale(a) THEN life ELSE @.from[l]]]]
  /\ UNCHANGED <<lock, store, cache, threads, pages, life, published, marked>>

-----------------------------------------------------------------------------
(***************************************************************************)
(* The backend restarts: everything but the cache files is forgotten, and  *)
(* these are loaded, unless too old, before the first request.  Requests   *)
(* not yet answered are broken off.                                        *)
(***************************************************************************)
Restart ==
  /\ life < MaxRestarts /\ writes < MaxWrites
  /\ life' = life + 1
  /\ lock' = Free
  /\ writes' = writes + 1
  /\ \E fresh \in BOOLEAN :
       LET from(l) == IF fresh THEN cache[l] ELSE 0
       IN  /\ data' = [l \in Layers |-> [n |-> IF from(l) = 0 THEN 0 ELSE writes + 1,
                                         of |-> from(l)]]
           /\ version' = IF \E l \in Layers : from(l) # 0 THEN 1 ELSE 0
           /\ published' = [l \in Layers |-> IF from(l) = 0 THEN 0 ELSE writes + 1]
  /\ layerVersion' = Zero
  /\ marked' = Zero
  /\ active' = Layers
  /\ activeVersion' = 0
  /\ Idle
  /\ agent' = [a \in Agents |-> [agent[a] EXCEPT !.waiting = FALSE, !.snapshot = Zero]]
  /\ calls' = [b \in Browsers |-> [k \in Calls |->
                 IF calls[b][k].step = "asked" THEN NoCall ELSE calls[b][k]]]
  /\ UNCHANGED <<cache, browser>>

FetcherStep(f) == MarkFresh(f) \/ BumpDataVersion(f) \/ SaveCache(f)
HandlerStep == Answer \/ StoreReading \/ BumpDataVersion(Loop)
AgentStep(a) == AgentAsks(a) \/ GetLayerSlice(a)

Next ==
  \/ \E f \in Fetchers :
       \/ \E l \in Layers : Fetch(f, l)
       \/ Refresh(f)
       \/ FetcherStep(f)
  \/ \E b \in Browsers :
       \/ \E k \in Calls : NotModified(b, k) \/ Poll(b, k)
       \/ PageStep(b)
  \/ \E l \in Layers : UpdateLayers(l)
  \/ SensorPosts
  \/ HandlerStep
  \/ \E a \in Agents : AgentStep(a)
  \/ Restart

(***************************************************************************)
(* Threads run on; pages poll by a timer that is always set again, the     *)
(* event loop serves requests in order, and the network does not lose the  *)
(* answers of a kind for ever; an agent asks on every heartbeat.           *)
(***************************************************************************)
Fairness ==
  /\ \A f \in Fetchers : WF_vars(FetcherStep(f))
  /\ WF_vars(HandlerStep)
  /\ \A b \in Browsers :
       /\ WF_vars(Ask(b))
       /\ \A k \in Calls :
            /\ SF_vars(NotModified(b, k) \/ Poll(b, k))
            /\ SF_vars(TakeHeaders(b, k)) /\ SF_vars(TakeBody(b, k))
  /\ \A a \in Agents : WF_vars(AgentStep(a))

Spec == Init /\ [][Next]_vars
FairSpec == Spec /\ Fairness
-----------------------------------------------------------------------------
(***************************************************************************)
(* Properties.                                                             *)
(***************************************************************************)
Locations == {"idle", "mark", "bump", "save", "answer", "post"}
CallSteps == {"none", "asked", "sent", "opened"}
Writes == [Layers -> 0..MaxWrites]

\* Every variable has its type.
TypeOK ==
  /\ lock \in {Free, Loop}
  /\ data \in [Layers -> [n : 0..MaxWrites, of : 0..MaxWrites]]
  /\ writes \in 0..MaxWrites
  /\ version \in Nat
  /\ layerVersion \in [Layers -> Nat]
  /\ active \subseteq Layers
  /\ activeVersion \in 0..MaxToggles
  /\ cache \in Writes
  /\ at \in [Threads -> Locations]
  /\ doing \in [Fetchers -> Layers \cup {NoTag}]
  /\ reply \in [who : Browsers \cup {NoTag}, call : Calls \cup {NoTag},
                tag : Tags \cup {NoTag}]
  /\ browser \in [Browsers -> [etag : Tags \cup {NoTag}, life : 0..MaxRestarts,
                               seen : Writes, got : Tags \cup {NoTag},
                               gotLife : 0..MaxRestarts]]
  /\ calls \in [Browsers -> [Calls -> [step : CallSteps, tag : Tags \cup {NoTag},
                                       life : 0..MaxRestarts, seen : Writes]]]
  /\ agent \in [Agents -> [asked : BOOLEAN, versions : [Layers -> Nat],
                           seen : Writes, waiting : BOOLEAN,
                           snapshot : [Layers -> Nat],
                           from : [Layers -> 0..MaxRestarts]]]
  /\ life \in 0..MaxRestarts
  /\ published \in Writes
  /\ marked \in Writes

\* What the page shows is the body that its ETag came with.
Whole(b) ==
  browser[b].got = browser[b].etag /\ browser[b].gotLife = browser[b].life

\* The page would be answered 304 for a body that it lost, or wrote over with that
\* of another request, and no answer is on its way.
Torn(b) ==
  /\ browser[b].etag = Tag /\ ~Whole(b)
  /\ \A k \in Calls : calls[b][k].step \notin {"sent", "opened"}

\* A page that would be answered 304, and that has the body its ETag came with,
\* shows every write that a version bump has covered, in every layer it has on,
\* whatever was written, seeded, bumped or toggled between its handler's reads and
\* however many answers crossed on the way; it holds for tags of this process.
NotModifiedIsCurrent ==
  \A b \in Browsers :
    browser[b].etag = Tag /\ browser[b].life = life /\ Whole(b) =>
      \A l \in active : browser[b].seen[l] >= published[l]

\* The same for a tag whatever process gave it: what the comment on the counter
\* says, "Monotonic version counter ... for cheap ETag generation".
TagsIdentifyContent ==
  \A b \in Browsers :
    browser[b].etag = Tag /\ Whole(b) =>
      \A l \in active : browser[b].seen[l] >= published[l]

\* The same whether or not the body came: a page that dropped its tag to get all
\* data, "so the next poll gets fresh data (not 304)", and would now be answered
\* 304, has had them.
FreshDataBeforeNotModified ==
  \A b \in Browsers :
    browser[b].etag = Tag /\ (\A k \in Calls : calls[b][k].step = "none") =>
      \A l \in active : browser[b].seen[l] >= published[l]

\* An agent whose version of a layer is the store's, and who would be told that
\* nothing changed, has the write the layer was last marked fresh with
\* (get_layer_slice: "Layers the agent is already current on are omitted"), if it
\* got the layer from this process.
UnchangedIsCurrent ==
  \A a \in Agents : \A l \in Layers :
    /\ agent[a].asked /\ agent[a].from[l] = life
    /\ agent[a].versions[l] >= layerVersion[l]
    => agent[a].seen[l] >= marked[l]

\* The same whatever process the layer came from.
VersionsIdentifyContent ==
  \A a \in Agents : \A l \in Layers :
    agent[a].asked /\ agent[a].versions[l] >= layerVersion[l] =>
      agent[a].seen[l] >= marked[l]

\* Whatever is written to a layer is shown by a page that has it on, or is
\* overwritten by something that is shown; except at a page that is answered 304
\* from then on, for a body it lost.
PagesSeeEveryWrite ==
  \A b \in Browsers, l \in Layers, n \in 1..MaxWrites :
    data[l].n >= n ~> (browser[b].seen[l] >= n \/ l \notin active \/ []Torn(b))

\* An agent gets every write to a layer that is marked fresh.
AgentsSeeMarkedWrites ==
  \A a \in Agents, l \in Marked, n \in 1..MaxWrites :
    marked[l] >= n ~> agent[a].seen[l] >= n

\* What get_layer_slice says of its per-layer mode, "Only layers whose
\* server-side version is newer than the agent's version are serialized":
\* an agent gets every write to every layer.
AgentsSeeEveryWrite ==
  \A a \in Agents, l \in Layers, n \in 1..MaxWrites :
    data[l].n >= n ~> agent[a].seen[l] >= n

\* What the telemetry handler is documented to do: a reading is received and the
\* sensor gets its answer.
ReadingsAnswered == at[Loop] = "post" ~> at[Loop] = "idle"

\* What the startup cache is said to be for, "while live fetches warm up": no
\* layer of a running process goes back to an older fetch.
LayersMoveForward ==
  [][life' = life => \A l \in Layers : data'[l].of >= data[l].of]_vars
=============================================================================
