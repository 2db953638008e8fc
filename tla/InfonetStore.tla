---------------------------- MODULE InfonetStore ----------------------------
(***************************************************************************)
(* One node's Infonet ledger and its files: class Infonet of               *)
(* services/mesh/mesh_hashchain.py.                                        *)
(*                                                                         *)
(* The chain lives in memory; append() logs its event to a one-entry WAL   *)
(* file before adding it, and a timer writes the whole chain to its file   *)
(* some seconds later and then removes the WAL.  The object has no lock    *)
(* around its data.  append() runs on the event loop, ingest_events() on   *)
(* the event loop, the sync threads and the RNS threads, the timer on its  *)
(* own thread: a step below ends where a thread verifies a signature or    *)
(* reads or writes a file, and any other thread may run there.             *)
(*                                                                         *)
(* An event is its id (its hash; ids are fresh), the id before it, its     *)
(* author and the author's sequence number.  Payloads, keys, revocations   *)
(* and the counters of get_info are left out; events are judged valid by   *)
(* all that is left out.  An ingested batch is taken event by event.       *)
(***************************************************************************)
EXTENDS Naturals, Sequences, SequencesExt

CONSTANTS
  Authors,        \* nodes that sign events
  Writers,        \* threads that append, ingest or reset
  Timer,          \* the thread of _save_timer
  NoEvent,        \* not an event
  Resets,         \* a peer's fork answer may make a thread call reset_chain
  Outages,        \* the node may be down for MESH_INGEST_EVENT_MAX_AGE_S
  MaxSequence,    \* bound on sequence numbers
  MaxPrivate,     \* bound on those of private signed writes
  MaxEvents,      \* bound on events created
  MaxFaults       \* bound on crashes and failed writes

Genesis == 0
Threads == Writers \cup {Timer}
Events == [id : 1..MaxEvents, prev : 0..MaxEvents, by : Authors,
           sequence : 1..MaxSequence]

ASSUME StoreAssumption ==
  /\ Timer \notin Writers
  /\ NoEvent \notin Events
  /\ Resets \in BOOLEAN
  /\ Outages \in BOOLEAN
  /\ MaxSequence \in Nat /\ MaxPrivate \in 0..MaxSequence
  /\ MaxEvents \in Nat
  /\ MaxFaults \in Nat

VARIABLES
  events,     \* the chain
  sequences,  \* node_sequences: the last sequence of each author
  domains,    \* sequence_domains, for one domain of private signed writes
  dirty,      \* memory differs from the file
  file,       \* what the chain file holds
  wal,        \* the event in the WAL file
  at,         \* where each thread is
  event,      \* the event each writer is about to add
  written,    \* what each thread is about to write to the file
  minted,     \* how many events were created so far
  faults,     \* crashes and failed writes so far
  acked,      \* history: events append returned since the last reset
  discarded,  \* history: reset_chain has been called
  overlapped, \* history: the chain changed while a thread was adding to it
  aged        \* history: a start found the WAL's event too old to ingest

memory == <<events, sequences, domains>>
disk == <<file, wal>>
locals == <<at, event, written>>
history == <<discarded, overlapped, aged>>
vars == <<memory, dirty, disk, locals, minted, faults, acked, history>>

-----------------------------------------------------------------------------
Ids(s) == {s[i].id : i \in DOMAIN s}
HeadHash(s) == IF s = <<>> THEN Genesis ELSE Last(s).id
NoSequences == [a \in Authors |-> 0]
Chain(s, d) == [events |-> s, domains |-> d]
Empty == Chain(<<>>, NoSequences)

\* mutant: the next expected sequence
Rebuilt_Next(s) ==
  [a \in Authors |->
     1 + CHOOSE n \in 0..MaxSequence :
       /\ \A i \in DOMAIN s : s[i].by = a => s[i].sequence <= n
       /\ n = 0 \/ \E i \in DOMAIN s : s[i].by = a /\ s[i].sequence = n]

\* _rebuild_state: the highest sequence of each author in the chain
Rebuilt(s) ==
  [a \in Authors |->
     CHOOSE n \in 0..MaxSequence :
       /\ \A i \in DOMAIN s : s[i].by = a => s[i].sequence <= n
       /\ n = 0 \/ \E i \in DOMAIN s : s[i].by = a /\ s[i].sequence = n]

Locations ==
  {"off", "idle", "waiting",                      \* a thread at rest
   "signing", "minted", "logged", "checked",      \* append, ingest_events
   "serialise", "replace", "clean", "clear"}      \* _flush

AtRest(t) == IF t = Timer THEN "off" ELSE "idle"

Init ==
  /\ events = <<>>
  /\ sequences = NoSequences
  /\ domains = NoSequences
  /\ dirty = FALSE
  /\ file = Empty
  /\ wal = NoEvent
  /\ at = [t \in Threads |-> AtRest(t)]
  /\ event = [t \in Writers |-> NoEvent]
  /\ written = [t \in Threads |-> Empty]
  /\ minted = 0
  /\ faults = 0
  /\ acked = {}
  /\ discarded = FALSE /\ overlapped = FALSE /\ aged = FALSE

Fault == faults < MaxFaults /\ faults' = faults + 1
Goto(t, l) == at' = [at EXCEPT ![t] = l]

\* _save: a timer is started unless one is alive, waiting or writing.
Saved(t) ==
  /\ dirty' = TRUE
  /\ at' = [at EXCEPT ![t] = "idle",
                      ![Timer] = IF @ = "off" THEN "waiting" ELSE @]

-----------------------------------------------------------------------------
(***************************************************************************)
(* append and ingest_events                                                *)
(***************************************************************************)

\* mutant: the sequence is not compared with the author's last one
Fresh_Always(a, n) == TRUE

\* sequence > node_sequences.get(node_id, 0)
Fresh(a, n) == n > sequences[a]

\* append checks the sequence, then the signature.
AppendBegins(t, a, n) ==
  /\ at[t] = "idle"
  /\ minted < MaxEvents
  /\ Fresh(a, n)
  /\ event' = [event EXCEPT ![t] = [id |-> minted + 1, prev |-> Genesis,
                                    by |-> a, sequence |-> n]]
  /\ minted' = minted + 1
  /\ Goto(t, "signing")
  /\ UNCHANGED <<memory, dirty, disk, written, faults, acked, history>>

\* ChainEvent(prev_hash=self.head_hash, ...)
EventLinked(t) ==
  /\ at[t] = "signing"
  /\ event' = [event EXCEPT ![t].prev = HeadHash(events)]
  /\ Goto(t, "minted")
  /\ UNCHANGED <<memory, dirty, disk, written, minted, faults, acked,
                 history>>

\* _write_wal replaces the WAL file; a failure is logged and append goes on.
WriteWal(t) ==
  /\ at[t] = "minted"
  /\ \/ wal' = event[t] /\ UNCHANGED faults
     \/ Fault /\ UNCHANGED wal
  /\ Goto(t, "logged")
  /\ UNCHANGED <<memory, dirty, file, event, written, minted, acked, history>>

\* ingest_events checks link and sequence, then the signature; an event that
\* fails a check is rejected and changes nothing.  Peers create theirs.
IngestChecks(t, a, n) ==
  /\ at[t] = "idle"
  /\ minted < MaxEvents
  /\ Fresh(a, n)
  /\ event' = [event EXCEPT ![t] = [id |-> minted + 1, prev |-> HeadHash(events),
                                    by |-> a, sequence |-> n]]
  /\ minted' = minted + 1
  /\ Goto(t, "checked")
  /\ UNCHANGED <<memory, dirty, disk, written, faults, acked, history>>

\* Another thread is between its checks and its addition to the chain.
Adding == {"signing", "minted", "logged", "checked"}
Overlaps(t) == overlapped' = (overlapped \/ \E u \in Writers \ {t} : at[u] \in Adding)

\* The event joins the chain and a save is scheduled.
EventAdded(t) ==
  /\ at[t] \in {"logged", "checked"}
  /\ events' = Append(events, event[t])
  /\ sequences' = [sequences EXCEPT ![event[t].by] = event[t].sequence]
  /\ acked' = IF at[t] = "logged" THEN acked \cup {event[t].id} ELSE acked
  /\ event' = [event EXCEPT ![t] = NoEvent]
  /\ Saved(t) /\ Overlaps(t)
  /\ UNCHANGED <<domains, disk, written, minted, faults, discarded, aged>>

\* validate_and_set_sequence, in a domain of private signed writes.
SequenceUsed(t, a, n) ==
  /\ at[t] = "idle"
  /\ n > domains[a]
  /\ domains' = [domains EXCEPT ![a] = n]
  /\ Saved(t)
  /\ UNCHANGED <<events, sequences, disk, event, written, minted, faults, acked,
                 history>>

\* reset_chain: everything is forgotten, the replay domains included, and the
\* calling thread flushes.
ResetChain(t) ==
  /\ Resets
  /\ at[t] = "idle" /\ events # <<>>
  /\ events' = <<>>
  /\ sequences' = NoSequences
  /\ domains' = NoSequences
  /\ dirty' = TRUE
  /\ acked' = {}
  /\ discarded' = TRUE /\ Overlaps(t)
  /\ Goto(t, "serialise")
  /\ UNCHANGED <<disk, event, written, minted, faults, aged>>

-----------------------------------------------------------------------------
(***************************************************************************)
(* _flush, by the timer or by reset_chain                                  *)
(***************************************************************************)
TimerFires ==
  /\ at[Timer] = "waiting"
  /\ Goto(Timer, "serialise")
  /\ UNCHANGED <<memory, dirty, disk, event, written, minted, faults, acked,
                 history>>

Serialise(t) ==
  /\ at[t] = "serialise"
  /\ \/ dirty /\ Goto(t, "replace")
        /\ written' = [written EXCEPT ![t] = Chain(events, domains)]
     \/ ~dirty /\ Goto(t, AtRest(t)) /\ UNCHANGED written
  /\ UNCHANGED <<memory, dirty, disk, event, minted, faults, acked, history>>

ReplaceFile(t) ==
  /\ at[t] = "replace"
  /\ file' = written[t]
  /\ written' = [written EXCEPT ![t] = Empty]
  /\ Goto(t, "clean")
  /\ UNCHANGED <<memory, dirty, wal, event, minted, faults, acked, history>>

\* The chain or its domains changed while they were written out, or the disk
\* is full: the failure is logged, and nothing schedules another flush.
FlushFails(t) ==
  /\ at[t] = "replace"
  /\ Fault
  /\ written' = [written EXCEPT ![t] = Empty]
  /\ Goto(t, AtRest(t))
  /\ UNCHANGED <<memory, dirty, disk, event, minted, acked, history>>

MarkClean(t) ==
  /\ at[t] = "clean"
  /\ dirty' = FALSE
  /\ Goto(t, "clear")
  /\ UNCHANGED <<memory, disk, event, written, minted, faults, acked,
                 history>>

ClearWal(t) ==
  /\ at[t] = "clear"
  /\ wal' = NoEvent
  /\ Goto(t, AtRest(t))
  /\ UNCHANGED <<memory, dirty, file, event, written, minted, faults, acked,
                 history>>

-----------------------------------------------------------------------------
(***************************************************************************)
(* The process stops and starts again                                      *)
(***************************************************************************)
Loaded(chain) ==
  /\ events' = chain.events
  /\ sequences' = Rebuilt(chain.events)
  /\ domains' = chain.domains

\* mutant: any event that is not in the file is taken
Replayable_AnyHead(log, chain) ==
  log # NoEvent /\ log.id \notin Ids(chain.events)

\* mutant: an event whose number is not its author's next is taken for a stale one
Replayable_NextNumber(log, chain) ==
  /\ log # NoEvent
  /\ log.id \notin Ids(chain.events)
  /\ log.prev = HeadHash(chain.events)
  /\ log.sequence = Rebuilt(chain.events)[log.by] + 1

\* _replay_wal drops an event the file holds or whose head has moved on.
Replayable(log, chain) ==
  /\ log # NoEvent
  /\ log.id \notin Ids(chain.events)
  /\ log.prev = HeadHash(chain.events)

\* mutant: the sequences are rebuilt with the logged event already in the chain
Accepted_CountsItself(log, chain) ==
  log.sequence > Rebuilt(Append(chain.events, log))[log.by]

\* ingest_events compares the sequence with the last one of the loaded chain.
Accepted(log, chain) == log.sequence > Rebuilt(chain.events)[log.by]

\* _load.  A replayed event is saved, which starts the timer, and flushed at
\* once, unless the disk fails; one that ingest_events rejects, for its sequence
\* or its age, leaves an empty chain in memory.
Booted(chain, log) ==
  /\ \/ /\ ~Replayable(log, chain)
        /\ Loaded(chain)
        /\ file' = chain /\ wal' = NoEvent /\ dirty' = FALSE
        /\ at' = [t \in Threads |-> AtRest(t)]
        /\ UNCHANGED aged
     \/ /\ Replayable(log, chain) /\ Accepted(log, chain)
        /\ LET longer == Chain(Append(chain.events, log), chain.domains)
           IN  /\ Loaded(longer)
               /\ \/ file' = longer /\ wal' = NoEvent /\ dirty' = FALSE
                  \/ file' = chain /\ wal' = log /\ dirty' = TRUE
        /\ at' = [t \in Threads |-> IF t = Timer THEN "waiting" ELSE "idle"]
        /\ UNCHANGED aged
     \/ /\ Replayable(log, chain)
        /\ \/ ~Accepted(log, chain) /\ UNCHANGED aged
           \/ Accepted(log, chain) /\ Outages /\ aged' = TRUE
        /\ Loaded(Empty)
        /\ file' = chain /\ wal' = NoEvent /\ dirty' = FALSE
        /\ at' = [t \in Threads |-> AtRest(t)]
  /\ event' = [t \in Writers |-> NoEvent]
  /\ written' = [t \in Threads |-> Empty]
  /\ UNCHANGED <<minted, acked, discarded, overlapped>>

Crash ==
  /\ Fault
  /\ Booted(file, wal)

\* A clean exit: the server is idle and atexit runs _flush.
CleanExit ==
  /\ \A t \in Writers : at[t] = "idle"
  /\ at[Timer] \in {"off", "waiting"}
  /\ IF dirty THEN Booted(Chain(events, domains), NoEvent)
              ELSE Booted(file, wal)
  /\ UNCHANGED faults

WriterStep(t) ==
  \/ EventLinked(t) \/ WriteWal(t) \/ EventAdded(t)

FlushStep(t) == Serialise(t) \/ ReplaceFile(t) \/ MarkClean(t) \/ ClearWal(t)

Request(t) ==
  \/ \E a \in Authors, n \in 1..MaxSequence :
       AppendBegins(t, a, n) \/ IngestChecks(t, a, n)
  \/ \E a \in Authors, n \in 1..MaxPrivate : SequenceUsed(t, a, n)
  \/ ResetChain(t)

Next ==
  \/ \E t \in Writers : Request(t) \/ WriterStep(t)
  \/ TimerFires
  \/ \E t \in Threads : FlushStep(t) \/ FlushFails(t)
  \/ Crash
  \/ CleanExit

(***************************************************************************)
(* Threads run on, and the timer fires; nothing is assumed of callers.     *)
(***************************************************************************)
Fairness ==
  /\ WF_vars(TimerFires)
  /\ \A t \in Writers : WF_vars(WriterStep(t))
  /\ \A t \in Threads : WF_vars(FlushStep(t))

Spec == Init /\ [][Next]_vars
FairSpec == Spec /\ Fairness
-----------------------------------------------------------------------------
(***************************************************************************)
(* Properties.                                                             *)
(***************************************************************************)

\* Every variable has its type.
TypeOK ==
  /\ events \in Seq(Events)
  /\ sequences \in [Authors -> 0..MaxSequence]
  /\ domains \in [Authors -> 0..MaxSequence]
  /\ dirty \in BOOLEAN
  /\ file \in [events : Seq(Events), domains : [Authors -> 0..MaxSequence]]
  /\ wal \in Events \cup {NoEvent}
  /\ at \in [Threads -> Locations]
  /\ event \in [Writers -> Events \cup {NoEvent}]
  /\ written \in [Threads -> [events : Seq(Events),
                              domains : [Authors -> 0..MaxSequence]]]
  /\ minted \in 0..MaxEvents
  /\ faults \in 0..MaxFaults
  /\ acked \subseteq 1..MaxEvents
  /\ discarded \in BOOLEAN /\ overlapped \in BOOLEAN /\ aged \in BOOLEAN

Linked(s) ==
  \A i \in DOMAIN s : s[i].prev = IF i = 1 THEN Genesis ELSE s[i - 1].id

\* As long as no thread changes the chain while another is adding to it, the
\* chain links in memory and on disk, through saves, resets, crashes and replays:
\* what validate_chain checks (ingest_events "requires contiguous prev_hash").
AlwaysLinked == Linked(events) /\ Linked(file.events)
ChainLinks == ~overlapped => AlwaysLinked

\* And no author's sequence number occurs twice or goes back along the chain,
\* though the table of last sequences is rebuilt at every start.
SequencesIncrease ==
  ~overlapped =>
    \A i, j \in DOMAIN events :
      i < j /\ events[i].by = events[j].by => events[i].sequence < events[j].sequence

\* Until a reset gives the chain up, a race breaks it or an outage outlasts the
\* WAL, the store is an append-only log on one disk: the file only grows, and a
\* crash loses no more than what it does not hold.
Undisturbed == ~discarded /\ ~overlapped /\ ~aged
Ledger == INSTANCE AppendOnlyLog WITH
            Entries <- Events, open <- Undisturbed,
            log <- IF Undisturbed THEN events ELSE <<>>,
            safe <- IF Undisturbed THEN file.events ELSE <<>>
LedgerImplemented == Ledger!Spec

\* What _flush says, "A crash before _flush() succeeds leaves the WAL in place so
\* _replay_wal() can recover on next boot": till then, an event that would be the
\* next in the file survives a crash if it is the one in the WAL, whatever joined
\* the chain after it.
LoggedSurvives ==
  [][ Crash /\ Undisturbed' /\ wal # NoEvent
        /\ Len(file.events) < Len(events) /\ events[Len(file.events) + 1] = wal
      => wal.id \in Ids(events') ]_vars

\* What _replay_wal says: "The user never gets a silent data-loss window".
NothingAckedIsLost == acked \subseteq Ids(events)

\* What _save says, "schedule a coalesced disk write": an event that was added
\* is in the chain file at some time, unless a crash takes it.
EveryEventSaved ==
  \A n \in 1..MaxEvents :
    n \in Ids(events) ~> (n \in Ids(file.events) \/ n \notin Ids(events))

\* What _rebuild_state says of the private replay domains, "Keep private
\* signed-write replay domains across public-chain rebuilds".
DomainsKept == [][\A a \in Authors : domains'[a] >= domains[a]]_vars

\* What _load says of a WAL that cannot be replayed, "the chain advances we
\* lost": a start keeps at least what the chain file holds.
StartKeepsFile == IsPrefix(file.events, events)
=============================================================================
