---------------------------- MODULE InfonetSync ----------------------------
(***************************************************************************)
(* How the nodes of an Infonet bring their chains together: the sync loop, *)
(* the sync kick and the push loop of main.py, the sync and peer-push      *)
(* handlers of routers/mesh_public.py and main.py, and the locator of      *)
(* services/mesh/mesh_hashchain.py.                                        *)
(*                                                                         *)
(* An event's id is a hash over its content and the id before it, so it    *)
(* stands for the whole chain up to it.  A chain is the sequence of the    *)
(* signed messages it holds; two nodes hold the same event at a position   *)
(* iff their chains agree up to it.                                        *)
(*                                                                         *)
(* Requests and answers cross: between its locator, the peer's answer and  *)
(* the ingest of it a node may append, be pushed to, or sync on its other  *)
(* thread.  What threads of one node do to each other inside an append or  *)
(* an ingest is the subject of InfonetStore: here each is one step.        *)
(***************************************************************************)
EXTENDS Naturals, Sequences, FiniteSets, SequencesExt

CONSTANTS
  Nodes,        \* participant nodes
  Peers,        \* the sync peers of each node
  PushPeers,    \* the push peers of each node
  Messages,     \* messages that nodes sign
  Author,       \* the node that signs a message
  Sequence,     \* the sequence number it signs it with
  Redacted,     \* messages that the public answer alters (vote, key_rotate)
  Threads,      \* of each node: "loop", and "kick" if it may be kicked
  Nobody,       \* no node
  Aging,        \* events may get older than the freshness bound of ingest
  SmallChain,   \* 20: a chain that a fork answer may reset
  Dense,        \* 9: events a locator names before it skips
  PageLimit,    \* 100: events of an answer
  MaxRounds,    \* 5: answers of one sync
  BatchSize,    \* 50: events of a push
  FaultKinds,   \* what may fail: "request", "news", "save", "restart"
  MaxFaults     \* bound on the faults

ASSUME SyncAssumption ==
  /\ Peers \in [Nodes -> SUBSET Nodes]
  /\ PushPeers \in [Nodes -> SUBSET Nodes]
  /\ Author \in [Messages -> Nodes]
  /\ Sequence \in [Messages -> Nat \ {0}]
  /\ Redacted \subseteq Messages
  /\ Threads \subseteq {"loop", "kick"}
  /\ Nobody \notin Nodes
  /\ FaultKinds \subseteq {"request", "news", "save", "restart"}
  /\ Aging \in BOOLEAN
  /\ SmallChain \in Nat /\ Dense \in Nat /\ MaxFaults \in Nat
  /\ PageLimit \in Nat \ {0} /\ MaxRounds \in Nat \ {0} /\ BatchSize \in Nat \ {0}

VARIABLES
  chain,     \* each node's chain
  signed,    \* messages their authors have appended
  old,       \* messages older than MESH_INGEST_EVENT_MAX_AGE_S
  sync,      \* each node's sync threads
  outcome,   \* last_outcome of each node's SyncWorkerState
  cooling,   \* the sync peers each node lets cool down
  pushed,    \* _peer_push_last_index of each node
  pushing,   \* the push each node's push loop waits for
  news,      \* events on their way to push peers, sent as they were appended
  faults     \* faults so far

pushes == <<pushed, pushing, news>>
vars == <<chain, signed, old, sync, outcome, cooling, pushes, faults>>

-----------------------------------------------------------------------------
Chains == Seq(Messages)
Least(S) == CHOOSE x \in S : \A y \in S : x <= y
Largest(S) == CHOOSE x \in S : \A y \in S : x >= y

NoPush == [to |-> Nobody, from |-> <<>>, start |-> 0]
AtRest == [at |-> "idle", left |-> {}, peer |-> Nobody, rounds |-> 0,
           seen |-> <<>>, start |-> 0, forked |-> FALSE, result |-> "none"]

\* get_locator: the positions it names, in a chain of k events.  31 of them reach
\* further back than any chain here.
LocatorPositions(k) ==
  {i \in 1..k : \/ k - i <= Dense
                \/ \E j \in 1..k : k - i = Dense + 2^j - 2}

\* get_events_after_locator: the newest of them that is on chain d too.
Matched(c, d) ==
  Largest({0} \cup {i \in LocatorPositions(Len(c)) : IsPrefix(SubSeq(c, 1, i), d)})

\* mutant: an event is taken whatever head it names
Ingested_AnyHead(c, from, start, altered) ==
  c \o SelectSeq(SubSeq(from, start + 1, Len(from)), LAMBDA m : m \notin old \cup altered)

\* mutant: an answer takes the place of what follows its start
Ingested_Replaces(c, from, start, altered) ==
  IF Len(c) >= start THEN from ELSE c

\* The author's sequence number is higher than that of its events before it.
Fresh(m, c) ==
  \A i \in DOMAIN c : Author[c[i]] = Author[m] => Sequence[c[i]] < Sequence[m]

\* ingest_events, of the events of chain `from' after position `start': one is taken
\* if it follows the head, is not too old, arrives as it was signed and is no replay.
Ingested(c, from, start, altered) ==
  LET fit(k) == \A i \in (Len(c) + 1)..k :
                  /\ from[i] \notin old \cup altered
                  /\ Fresh(from[i], SubSeq(from, 1, i - 1))
  IN  IF IsPrefix(c, from) /\ Len(c) >= start
      THEN SubSeq(from, 1, Largest({k \in Len(c)..Len(from) : fit(k)}))
      ELSE c

\* Nothing was rejected: an event that is known already counts as rejected too.
AllTaken(c, from, start, altered) ==
  Len(c) = start /\ Ingested(c, from, start, altered) = from

Init ==
  /\ chain = [n \in Nodes |-> <<>>]
  /\ signed = {}
  /\ old = {}
  /\ sync = [n \in Nodes |-> [t \in Threads |-> AtRest]]
  /\ outcome = [n \in Nodes |-> "idle"]
  /\ cooling = [n \in Nodes |-> {}]
  /\ pushed = [n \in Nodes |-> [p \in Nodes |-> 0]]
  /\ pushing = [n \in Nodes |-> NoPush]
  /\ news = {}
  /\ faults = 0

Fault(kind) ==
  /\ kind \in FaultKinds
  /\ faults < MaxFaults
  /\ faults' = faults + 1

-----------------------------------------------------------------------------
(***************************************************************************)
(* Events appear and get old.                                              *)
(***************************************************************************)

\* Infonet.append on the author's node; the append hook starts a thread that
\* sends the event to the push peers.
AppendEvent(m) ==
  LET n == Author[m]
      longer == Append(chain[n], m)
  IN  /\ m \notin signed
      /\ Fresh(m, chain[n])
      /\ chain' = [chain EXCEPT ![n] = longer]
      /\ signed' = signed \cup {m}
      /\ news' = news \cup {[to |-> p, from |-> longer] : p \in PushPeers[n]}
      /\ UNCHANGED <<old, sync, outcome, cooling, pushed, pushing, faults>>

\* A day passes.
Age(m) ==
  /\ Aging
  /\ m \in signed \ old
  /\ old' = old \cup {m}
  /\ UNCHANGED <<chain, signed, sync, outcome, cooling, pushes, faults>>

-----------------------------------------------------------------------------
(***************************************************************************)
(* One sync cycle: _run_public_sync_cycle and _sync_from_peer.             *)
(***************************************************************************)
SyncAt(n, t, l) == sync[n][t].at = l
SetSync(n, t, w) == sync' = [sync EXCEPT ![n][t] = w]

\* The loop starts a cycle when one is due and none is running; a kick does not look.
StartSync(n, t) ==
  LET left == Peers[n] \ cooling[n]
  IN  /\ SyncAt(n, t, "idle")
      /\ t = "loop" => outcome[n] # "running"
      /\ IF left = {}
         THEN /\ outcome' = [outcome EXCEPT ![n] = "solo"]
              /\ UNCHANGED sync
         ELSE \E p \in left :
                /\ SetSync(n, t, [AtRest EXCEPT !.at = "ask", !.left = left \ {p},
                                                !.peer = p])
                /\ outcome' = [outcome EXCEPT ![n] = "running"]
      /\ UNCHANGED <<chain, signed, old, cooling, pushes, faults>>

\* The request leaves with the locator.
SendLocator(n, t) ==
  /\ SyncAt(n, t, "ask")
  /\ SetSync(n, t, [sync[n][t] EXCEPT !.at = "asked", !.seen = chain[n]])
  /\ UNCHANGED <<chain, signed, old, outcome, cooling, pushes, faults>>

\* mutant: the answer leaves out the event after the matched one
AnswerSync_SkipsOne(n, t) ==
  LET w == sync[n][t]
      its == chain[w.peer]
      match == Matched(w.seen, its)
      last == Least({Len(its), match + PageLimit})
  IN  /\ SyncAt(n, t, "asked")
      /\ SetSync(n, t, [w EXCEPT !.at = "answered",
                                 !.seen = SubSeq(its, 1, last),
                                 !.start = Least({match + 1, last}),
                                 !.forked = match = 0 /\ w.seen # <<>>])
      /\ UNCHANGED <<chain, signed, old, outcome, cooling, pushes, faults>>

\* infonet_sync_post at the peer.
AnswerSync(n, t) ==
  LET w == sync[n][t]
      its == chain[w.peer]
      match == Matched(w.seen, its)
      last == Least({Len(its), match + PageLimit})
  IN  /\ SyncAt(n, t, "asked")
      /\ SetSync(n, t, [w EXCEPT !.at = "answered",
                                 !.seen = SubSeq(its, 1, last),
                                 !.start = match,
                                 !.forked = match = 0 /\ w.seen # <<>>])
      /\ UNCHANGED <<chain, signed, old, outcome, cooling, pushes, faults>>

SyncRequestFails(n, t) ==
  /\ sync[n][t].at \in {"asked", "answered"}
  /\ Fault("request")
  /\ SetSync(n, t, [sync[n][t] EXCEPT !.at = "settle", !.result = "error"])
  /\ UNCHANGED <<chain, signed, old, outcome, cooling, pushes>>

\* mutant: the chain is not reset
TakeForkAnswer_Keeps(n, t) ==
  /\ SyncAt(n, t, "answered") /\ sync[n][t].forked
  /\ SetSync(n, t, [sync[n][t] EXCEPT !.at = "settle", !.result = "fork"])
  /\ UNCHANGED <<chain, signed, old, outcome, cooling, pushes, faults>>

\* A fork answer resets a small chain and asks again; it ends the sync of a longer one.
TakeForkAnswer(n, t) ==
  /\ SyncAt(n, t, "answered") /\ sync[n][t].forked
  /\ IF Len(chain[n]) < SmallChain
     THEN /\ chain' = [chain EXCEPT ![n] = <<>>]
          /\ SetSync(n, t, [sync[n][t] EXCEPT !.at = "ask"])
     ELSE /\ SetSync(n, t, [sync[n][t] EXCEPT !.at = "settle", !.result = "fork"])
          /\ UNCHANGED chain
  /\ UNCHANGED <<signed, old, outcome, cooling, pushes, faults>>

\* mutant: one request more than MaxRounds
TakeAnswer_OneMoreRound(n, t) ==
  LET w == sync[n][t]
      full == Len(w.seen) - w.start = PageLimit /\ w.rounds < MaxRounds
      taken == AllTaken(chain[n], w.seen, w.start, Redacted)
  IN  /\ SyncAt(n, t, "answered") /\ ~w.forked
      /\ chain' = [chain EXCEPT ![n] = Ingested(@, w.seen, w.start, Redacted)]
      /\ SetSync(n, t, IF taken /\ full THEN [w EXCEPT !.at = "ask", !.rounds = @ + 1]
                       ELSE [w EXCEPT !.at = "settle",
                                      !.result = IF taken THEN "ok" ELSE "error"])
      /\ UNCHANGED <<signed, old, outcome, cooling, pushes, faults>>

\* mutant: what was rejected is not looked at
TakeAnswer_AnyRejected(n, t) ==
  LET w == sync[n][t]
      full == Len(w.seen) - w.start = PageLimit /\ w.rounds + 1 < MaxRounds
  IN  /\ SyncAt(n, t, "answered") /\ ~w.forked
      /\ chain' = [chain EXCEPT ![n] = Ingested(@, w.seen, w.start, Redacted)]
      /\ SetSync(n, t, IF full THEN [w EXCEPT !.at = "ask", !.rounds = @ + 1]
                       ELSE [w EXCEPT !.at = "settle", !.result = "ok"])
      /\ UNCHANGED <<signed, old, outcome, cooling, pushes, faults>>

\* The events of any other answer are ingested; a full page is followed by the next.
TakeAnswer(n, t) ==
  LET w == sync[n][t]
      full == Len(w.seen) - w.start = PageLimit /\ w.rounds + 1 < MaxRounds
      taken == AllTaken(chain[n], w.seen, w.start, Redacted)
  IN  /\ SyncAt(n, t, "answered") /\ ~w.forked
      /\ chain' = [chain EXCEPT ![n] = Ingested(@, w.seen, w.start, Redacted)]
      /\ SetSync(n, t,
           IF Len(w.seen) = w.start \/ (taken /\ ~full)
             THEN [w EXCEPT !.at = "settle", !.result = "ok"]
           ELSE IF taken
             THEN [w EXCEPT !.at = "ask", !.rounds = @ + 1]
             ELSE [w EXCEPT !.at = "settle", !.result = "error"])
      /\ UNCHANGED <<signed, old, outcome, cooling, pushes, faults>>

\* finish_sync with the peer's record saved: success ends the cycle, and so does a
\* fork; after another failure the next peer is tried.
FinishSync(n, t) ==
  LET w == sync[n][t]
  IN  /\ SyncAt(n, t, "settle")
      /\ cooling' = [cooling EXCEPT ![n] = IF w.result = "ok" THEN @ \ {w.peer}
                                           ELSE @ \cup {w.peer}]
      /\ IF w.result = "error" /\ w.left # {}
         THEN \E p \in w.left :
                /\ SetSync(n, t, [AtRest EXCEPT !.at = "ask", !.left = w.left \ {p},
                                                !.peer = p])
                /\ outcome' = [outcome EXCEPT ![n] = "running"]
         ELSE /\ SetSync(n, t, AtRest)
              /\ outcome' = [outcome EXCEPT ![n] = w.result]
      /\ UNCHANGED <<chain, signed, old, pushes, faults>>

\* PeerStore.save raises: the thread's handler logs it, and the state stays as it is.
PeerSaveFails(n, t) ==
  /\ SyncAt(n, t, "settle")
  /\ Fault("save")
  /\ SetSync(n, t, AtRest)
  /\ UNCHANGED <<chain, signed, old, outcome, cooling, pushes>>

\* cooldown_until passes.
CoolDownEnds(n, p) ==
  /\ p \in cooling[n]
  /\ cooling' = [cooling EXCEPT ![n] = @ \ {p}]
  /\ UNCHANGED <<chain, signed, old, sync, outcome, pushes, faults>>

-----------------------------------------------------------------------------
(***************************************************************************)
(* Pushes: _http_peer_push_loop, and the event sent as it is appended.     *)
(***************************************************************************)
PushBatch(n, p) ==
  /\ pushing[n] = NoPush /\ p \in PushPeers[n]
  /\ pushed[n][p] < Len(chain[n])
  /\ pushing' = [pushing EXCEPT ![n] =
       [to |-> p, start |-> pushed[n][p],
        from |-> SubSeq(chain[n], 1, Least({Len(chain[n]), pushed[n][p] + BatchSize}))]]
  /\ UNCHANGED <<chain, signed, old, sync, outcome, cooling, pushed, news, faults>>

\* infonet_peer_push answers 200 whatever it made of the events.
PeerPush(n) ==
  LET push == pushing[n]
  IN  /\ push # NoPush
      /\ chain' = [chain EXCEPT ![push.to] = Ingested(@, push.from, push.start, {})]
      /\ pushed' = [pushed EXCEPT ![n][push.to] = Len(push.from)]
      /\ pushing' = [pushing EXCEPT ![n] = NoPush]
      /\ UNCHANGED <<signed, old, sync, outcome, cooling, news, faults>>

PushFails(n) ==
  /\ pushing[n] # NoPush
  /\ Fault("request")
  /\ pushing' = [pushing EXCEPT ![n] = NoPush]
  /\ UNCHANGED <<chain, signed, old, sync, outcome, cooling, pushed, news>>

\* The event alone arrives, or is lost: it is sent once.
NewsArrives(e) ==
  /\ news' = news \ {e}
  /\ chain' = [chain EXCEPT ![e.to] = Ingested(@, e.from, Len(e.from) - 1, {})]
  /\ UNCHANGED <<signed, old, sync, outcome, cooling, pushed, pushing, faults>>

NewsLost(e) ==
  /\ Fault("news")
  /\ news' = news \ {e}
  /\ UNCHANGED <<chain, signed, old, sync, outcome, cooling, pushed, pushing>>

\* A node restarts with the chain it has saved; its threads and indexes are new.
Restart(n) ==
  /\ Fault("restart")
  /\ sync' = [sync EXCEPT ![n] = [t \in Threads |-> AtRest]]
  /\ outcome' = [outcome EXCEPT ![n] = "idle"]
  /\ pushed' = [pushed EXCEPT ![n] = [p \in Nodes |-> 0]]
  /\ pushing' = [pushing EXCEPT ![n] = NoPush]
  /\ UNCHANGED <<chain, signed, old, cooling, news>>

-----------------------------------------------------------------------------
SyncStep(n, t) ==
  SendLocator(n, t) \/ AnswerSync(n, t) \/ TakeForkAnswer(n, t)
    \/ TakeAnswer(n, t) \/ FinishSync(n, t)
PushStep(n) == (\E p \in Nodes : PushBatch(n, p)) \/ PeerPush(n)

Next ==
  \/ \E m \in Messages : AppendEvent(m) \/ Age(m)
  \/ \E n \in Nodes :
       \/ \E t \in Threads :
            \/ StartSync(n, t) \/ SyncStep(n, t)
            \/ SyncRequestFails(n, t) \/ PeerSaveFails(n, t)
       \/ \E p \in Nodes : CoolDownEnds(n, p)
       \/ PushStep(n) \/ PushFails(n)
       \/ Restart(n)
  \/ \E e \in news : NewsArrives(e) \/ NewsLost(e)

(***************************************************************************)
(* A request ends, by its timeout at the latest; the sync loop goes round  *)
(* for ever and cooldowns run out.  Nothing relies on pushes.              *)
(***************************************************************************)
Fairness ==
  /\ \A n \in Nodes :
       /\ \A t \in Threads : WF_vars(SyncStep(n, t))
       /\ WF_vars(StartSync(n, "loop"))
       /\ \A p \in Nodes : WF_vars(CoolDownEnds(n, p))

Spec == Init /\ [][Next]_vars
FairSpec == Spec /\ Fairness

-----------------------------------------------------------------------------
(***************************************************************************)
(* Properties                                                              *)
(***************************************************************************)

Syncs ==
  [at : {"idle", "ask", "asked", "answered", "settle"}, left : SUBSET Nodes,
   peer : Nodes \cup {Nobody}, rounds : 0..(MaxRounds - 1), seen : Chains,
   start : Nat, forked : BOOLEAN, result : {"none", "ok", "error", "fork"}]

Pushed == [to : Nodes \cup {Nobody}, from : Chains, start : Nat]

\* A sync asks for at most MaxRounds full pages, and a request or a push in flight
\* carries the events it names; a sync that is settled has a result.
TypeOK ==
  /\ chain \in [Nodes -> Chains]
  /\ signed \subseteq Messages /\ old \subseteq signed
  /\ sync \in [Nodes -> [Threads -> Syncs]]
  /\ outcome \in [Nodes -> {"idle", "solo", "running", "ok", "error", "fork"}]
  /\ cooling \in [Nodes -> SUBSET Nodes]
  /\ pushed \in [Nodes -> [Nodes -> Nat]]
  /\ pushing \in [Nodes -> Pushed]
  /\ news \subseteq [to : Nodes, from : Chains]
  /\ faults \in 0..MaxFaults
  /\ \A n \in Nodes :
       /\ pushing[n].start <= Len(pushing[n].from)
       /\ \A t \in Threads : /\ sync[n][t].at = "answered" =>
                                  sync[n][t].start <= Len(sync[n][t].seen)
                             /\ sync[n][t].at = "settle" => sync[n][t].result # "none"
                             /\ sync[n][t].at # "idle" => sync[n][t].peer \in Nodes

\* A node that signs everything, asks nobody and is pushed to by nobody.
Seed(s) ==
  /\ Peers[s] = {}
  /\ \A n \in Nodes : s \notin PushPeers[n]
  /\ \A m \in Messages : Author[m] = s

\* However syncs, kicks, pushes, resets and restarts cross, what a node of a seed's
\* network holds is the beginning of the seed's chain: it follows the seed and never
\* forks from it, whether it hears of an event from the seed or from other followers.
FollowersAgree ==
  \A s \in Nodes : Seed(s) => \A n \in Nodes : IsPrefix(chain[n], chain[s])

\* A sync that ends "ok" has put all of the seed's answer in the follower's chain,
\* though events of it may be too old or altered, and a kick's sync and pushes may have
\* moved the chain since the locator that was answered ("if rejected: return False",
\* _sync_from_peer).
SyncedIsTaken ==
  \A s, n \in Nodes : Seed(s) /\ Peers[n] = {s} =>
    \A t \in Threads : sync[n][t].at = "settle" /\ sync[n][t].result = "ok"
      => IsPrefix(sync[n][t].seen, chain[n])

\* A node that asks nobody, or whose chain is not small, keeps what it has accepted:
\* whatever is pushed to it or answered, its chain only grows (Infonet calls itself an
\* append-only ledger).
HistoryKept ==
  [][\A n \in Nodes : Peers[n] = {} \/ Len(chain[n]) >= SmallChain
       => IsPrefix(chain[n], chain'[n])]_chain

\* A node that asks a seed gets every event of the seed, though requests fail, kicks
\* run into the loop's syncs, and pushes run into both.
FollowersCatchUp ==
  \A s, n \in Nodes : \A k \in 1..Cardinality(Messages) :
    Seed(s) /\ Peers[n] = {s} => (Len(chain[s]) >= k ~> Len(chain[n]) >= k)

\* A small node whose first event is not that of the one peer it asks gives its chain
\* up for the peer's ("reset local state and re-sync from genesis instead of failing
\* forever", _sync_from_peer).
ForkedAt(n, p, k) ==
  k \in DOMAIN chain[n] \cap DOMAIN chain[p] /\ chain[n][k] # chain[p][k]

GenesisForksHeal ==
  \A n, p \in Nodes :
    Peers[n] = {p} /\ Peers[p] = {} => (ForkedAt(n, p, 1) ~> ~ForkedAt(n, p, 1))

\* The same of a small chain that left its peer's after an event they share.
SmallForksHeal ==
  \A n, p \in Nodes : \A k \in 1..(SmallChain - 1) :
    Peers[n] = {p} /\ Peers[p] = {} => (ForkedAt(n, p, k) ~> ~ForkedAt(n, p, k))

\* "if the local chain is tiny (< 20 events) and the remote has a longer chain, reset
\* local state" (_sync_from_peer): no event is given up for a shorter chain.
ResetForLongerOnly ==
  [][\A n \in Nodes : Len(chain'[n]) < Len(chain[n]) =>
       \E p \in Peers[n] : Len(chain[p]) > Len(chain[n])]_chain

\* A sync that began ends, and the next one becomes due.
SyncsEnd ==
  \A n \in Nodes : outcome[n] = "running" ~> outcome[n] # "running"
=============================================================================
