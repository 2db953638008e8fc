# Verification of Sistema Hídrico Cumaná

TLA+ specifications of the backend of this repository, TLC runs that check them on
small instances, and TLAPS proofs of the facts that matter most for every size.

The program is a fork of Shadowbroker: a FastAPI backend (`backend/`), a Next.js
dashboard (`frontend/`), a Rust cryptographic core (`privacy-core/`) and a Tauri shell
(`desktop-shell/`).  It does two things that have little to do with each other: it
keeps a live picture of the Cumaná water system and of many public feeds, and it is a
node of a peer-to-peer mesh with a shared public ledger (the Infonet) and a private
message service.  All of its own hard logic is in the backend.  Line numbers below are
those of the files under `backend/`.

Contents: [components](#1-components) · [modules](#2-modules) ·
[runs](#3-runs-and-what-they-show) · [disagreements](#4-where-code-and-documentation-disagree) ·
[fairness](#5-fairness) · [proofs](#6-proofs) · [limits](#7-what-is-not-modelled) ·
[plan](#8-plan)

## 1. Components

How control runs.  One asyncio event loop serves all requests; handlers are `async`
but many never await, so they run whole.  Beside it there are threads: the APScheduler
jobs and their pools (fetchers), the release worker, the ledger's save timer, the sync
loop, the push loop, one thread for every sync kick and every freshly appended event,
the gate push and pull loops, and the RNS callbacks.  They share module-level objects.
Some of these have a lock around each operation (outbox, live data), some have none
(the ledger).  State that survives a restart lives in JSON files that are replaced
whole.

### Modelled

| Component | State | Operations | Talks to |
|---|---|---|---|
| **Private release pipeline** `services/mesh/mesh_private_outbox.py`, `..._release_worker.py`, `..._dispatcher.py`, `mesh_relay_policy.py`, `mesh_privacy_policy.py` | outbox items with a release state (file), approval windows and choices (memory), relay grants (file), the worker thread and its locals | enqueue, mark_queued / mark_releasing / mark_delivered, approve relay, keep waiting, run_once, attempt_private_release, load | request handlers, transports (RNS, Tor, relay), the DM relay, the gate store, the dashboard's prompts |
| **Infonet ledger persistence** `services/mesh/mesh_hashchain.py` | chain, last sequence of each author, replay domains, dirty flag (memory); chain file and one-entry WAL (disk); a save timer | append, ingest_events, validate_and_set_sequence, reset_chain, _save, _flush, _load, _replay_wal | handlers, sync and RNS threads, signed writes |
| **Infonet peer sync and push** `main.py`, `routers/mesh_public.py`, `services/mesh/mesh_infonet_sync_support.py`, `mesh_peer_store.py` | chain of each node, SyncWorkerState, peer cooldowns, push indexes, requests and answers in flight | sync cycle (locator, answer, ingest, fork reset, finish), push batches, push of a fresh event | other nodes, the ledger |
| **Live data, dashboard polling, water telemetry** `services/fetchers/_store.py`, `services/data_fetcher.py`, `routers/data.py`, `routers/hidrico.py`, `services/telemetry.py`, `frontend/src/hooks/useDataPolling.ts` | `latest_data`, global and per-layer versions, active layers, startup caches (file), ETag of each page, layer versions of each agent | fetch, _mark_fresh, bump_data_version, seed and save caches, fast/slow polls, layer toggles, sensor readings, get_layer_slice | fetch threads, pages, sensors, agents |
| **Private DM relay** `services/mesh/mesh_dm_relay.py`, the DM routes of `main.py` | mailboxes by key and epoch (memory), block list (memory and file), dirty flag and save timer | deposit, collect_claims, count, block, unblock, _cleanup_expired, _save, _flush, _load | senders and recipients through the routes, the release pipeline's deposits |
| **Infonet petitions** `services/infonet/governance/petition.py`, `challenge.py`, `governance_decay.py`, `routers/infonet.py`, `time_validity.py` | events on the chain; the status is computed | file, sign, vote, challenge, vote on the challenge, execute; compute_petition_state, compute_challenge_state | the ledger, oracle rep as weight, the chain's majority time |
| **Infonet markets** `services/infonet/markets/`, `reputation/oracle_rep.py`, `identity_rotation.py` | events on the chain; phase, exclusion, outcome and accounts are computed | predict, submit evidence, stake, rotate, snapshot, finalize; resolve_market, should_advance_phase, oracle rep | the ledger, producers that watch the chain, pages |

What makes them hard, and what "correct" means for each:

* **Release.** The worker reads the tier, the user's mode, consent and readiness at
  different moments of one pass, while handlers and transports change all of them; a
  crash or a failed save can fall between the send and the note of it; approvals have
  three effects (session, grant, wake) that expire separately.  Correct: nothing leaves
  below the floor, nothing leaves directly in anonymous mode, the relay is used only
  for contacts the user chose it for, a repeated send needs a fault, a deliverable DM
  is delivered and an undeliverable one makes the app ask.
* **Ledger.** No lock; the save is delayed and coalesced; the WAL holds one event; two
  tables are rebuilt from the chain at every start, one is stored beside it.  Correct:
  the chain links, sequences never repeat, what the file holds survives.
* **Sync.** A node may append, be pushed to, or sync on a second thread between its
  locator and the ingest of the answer; pages, limits and rounds cut every exchange; a
  fork answer may erase a chain.  Correct: followers of one author hold beginnings of
  its chain and eventually all of it; forks heal; nothing is erased without reason.
* **Live data.** The data, the version that names it and the answer that carries both
  are three separate critical sections; versions are forgotten at a restart and
  clients' copies of them are not.  Correct: "not modified" means that the client has
  what was published; every write gets to everyone who watches the layer.
* **DM relay.** Every mailbox key carries the epoch, so that a message may be stored
  twice and a claim must look in two epochs; polls are cut into batches and put the
  rest back; messages are only in memory, blocks reach the file by a delayed save
  without a lock.  Correct: nothing is handed out twice, nothing fresh is out of reach,
  a blocked sender is not read, what is quiet is saved.
* **Petitions.** Nothing is stored but events, which the ledger takes in any phase and as
  often as nodes like.  The status is computed from their times for a time that is itself
  a median of stamps, runs behind the clock and jumps; the weights it compares are of
  different times and decay between them.  Correct: only a signature or a change of
  reputation takes a status back, and a vote cast in time is counted and stays counted.
* **Markets.** Two producers may find the same transition due; predictors may change
  identity; a market resolves in six ways, each with its own accounts.  Correct: phases
  go forward, predictors never judge, nothing staked vanishes.

### Not modelled yet, or not at all

| Component | State and operations | Why not |
|---|---|---|
| Gate store, gate push and pull (`mesh_hashchain.py`, `main.py`) | per-gate messages, cursors, peer loops | in the plan |
| Private transport manager and prewarm | warmups with cooldown and retention | in the plan; `PrivateRelease` lets the tier change at any moment, which is more |
| OpenClaw channel, bridge, watchdogs | command and task queues, tiers | in the plan; agents' layer reads are in `LiveData` |
| The rest of the Infonet economy: gates and their shutdown, disputes, bootstrap, common rep, upgrade votes, two-tier finality | state computed from the chain | in the plan |
| Reticulum bridge, shard reassembly, fork quorum (`mesh_rns.py`) | batches, shards, inflight tables | off by default; in the plan in part |
| Mesh router, reputation ledger, oracle | computed ledgers with saved state | later |
| MLS groups and sessions, identities, contacts, ratchets, signed writes | keys and transcripts | cryptographic, or checks on single requests |
| Wormhole supervisor, Tor and hidden transports | child processes | process supervision; readiness is a free condition in `PrivateRelease` |
| Secure storage, local custody | encrypted files | file formats; a save is one step that may fail |
| Feeds, bridges, SAR, CCTV, geopolitics | third-party data | parsing and I/O; a fetch is "write, then mark" in `LiveData` |
| Pins, zones, search, settings, limits, auth, updater | small files, single requests | one lock and one file each, or stateless |
| Dashboard, desktop shell | views | the polling hook and the user's answers are actions of the models |

The hazards of each, at their lines, are in `PROJECT.json`.

## 2. Modules

```
SealedDelivery   <-- implemented by --  PrivateRelease  <- PrivateReleaseProofs
AppendOnlyLog    <-- implemented by --  InfonetStore    <- InfonetStoreProofs
                                        InfonetSync     <- InfonetSyncProofs
                                        LiveData        <- LiveDataProofs
                                        DMRelay         <- DMRelayProofs
                                        InfonetPetition <- InfonetPetitionProofs
                                        InfonetMarket   <- InfonetMarketProofs
MCx extends x with model values and the instances of its CONSTANTS, for TLC.
```

`InfonetStore` and `InfonetSync` split one object: the first is one node with its
threads and its disk, at the grain of file writes; the second is many nodes, where an
append or an ingest is one step.  What races inside one node can do to its chain is
shown by the first; the second says what the protocol does if each node keeps its chain
whole.  No module uses RECURSIVE, so that all can be proved about.

### PrivateRelease and SealedDelivery

A step of the worker is one critical section of the outbox or one read of shared state
of `run_once`, `_dispatch_dm` or `_dispatch_gate`; everything else may run between two
of them.  `w.at` is where the thread is, the other fields of `w` are its locals
(`tierOk` is `current_tier`, read once for the whole pass).

| Code | Action |
|---|---|
| `run_once`: tier and `pending_items` / loop / end | `StartPass`, `NextItem`, `EndPass` |
| floor check, anonymous check, approval check, attestation | `CheckFloor`, `CheckAnonymous`, `CheckApproval` + `HoldForApproval`, `CheckAttestation` |
| `mark_releasing` | `MarkReleasing` |
| `attempt_private_release`, `_dispatch_dm` | `ReadConsent`, `ReadHidden`, `ChooseRoute`, `SendDirect`, `Deposit` |
| `_dispatch_gate` | `StoreGate`, `PublishTor`, `PublishRns` |
| `mark_delivered` / `mark_queued` after the attempt | `SettleDelivered`, `SettleFailed` |
| an exception inside / outside the `try` | `AttemptRaises` / the `ThreadDies` branch of the action |
| `enqueue` | `Enqueue`, `EnqueueFails` |
| `_resume_private_delivery_background_work` | `Resume` |
| the release-action route and its two outbox calls | `BeginChoice`, then `ApproveRelay` or `KeepWaiting` |
| time, transports, process | `WindowElapses`, `PolicyExpires`, `Flip`, `Crash` |

`rel` stands for the memory and the file of the outbox at once, because every outbox
method saves before it releases the lock and undoes its change if the save fails.
`sends`, `relayed`, `asked` and `held` are history.  `held` records what has been true
without a break since the pass, the item or the attempt began; it lets an action
property speak of an interval without putting a clock in the model.

`SealedDelivery` is the promise: absent → pending → delivered, copies are handed over
only while pending, and "delivered" is reported only after one was.  It is stated for
DMs (`DeliveryImplemented`); gate messages break it, see the disagreements.

### InfonetStore and AppendOnlyLog

An event is its hash (fresh), the hash before it, its author and a sequence number.
A step ends where the code verifies a signature or does file I/O, since there the
interpreter may run another thread.  Writers are the threads that call `append`,
`ingest_events`, `validate_and_set_sequence` or `reset_chain`, any number of them;
`Timer` is the thread of `_save_timer`.

| Code | Action |
|---|---|
| `append`: checks / `ChainEvent(prev_hash=head)` / `_write_wal` / list append, `_save` | `AppendBegins`, `EventLinked`, `WriteWal`, `EventAdded` |
| `ingest_events`: checks and signature / list append, `_save` | `IngestChecks`, `EventAdded` |
| `validate_and_set_sequence` | `SequenceUsed` |
| `reset_chain` | `ResetChain`, then the flush in that thread |
| `_flush`: serialise / atomic write / `_dirty = False` / `_clear_wal` | `Serialise`, `ReplaceFile` (or `FlushFails`), `MarkClean`, `ClearWal` |
| `_load`, `_replay_wal`, `_rebuild_state` | `Booted`, in `Crash` and `CleanExit` |

`AppendOnlyLog` has a log and its safe part.  Entries are added at the end, the safe
part grows along the log, and a crash keeps it; the one oddity is the entry that
was in the WAL but not yet in memory and turns up after the crash.

Three things end that promise in this code, and each has a history variable that notes it
where it happens: `reset_chain` gives the chain up (`discarded`); a thread changes the chain
while another is between its checks and its own addition (`overlapped`, set by `EventAdded`
and `ResetChain`); a start finds the event in the WAL too old to ingest (`aged`).  The
properties of a race speak of a store that is not `overlapped`, those of the log of one
that is `Undisturbed` by all three, and from then on the abstract log is closed.  So
the threads, the resets and the outages are all in the model, and what is shown is that
nothing else breaks the store.

### InfonetSync

An event id is a hash over everything before it, so a chain is modelled as the sequence
of the messages in it and equality of ids at a position is equality of the prefixes.
`Ingested` is `ingest_events` on a run of events: known ones are passed over, the first
misfit (wrong head, too old, altered, replayed sequence) makes all later ones misfits
too.  `Redacted` are the event types that `_redact_public_event` changes in an answer.

| Code | Action |
|---|---|
| `Infonet.append` and the append hook | `AppendEvent` |
| `_run_public_sync_cycle` start, `should_run_sync`, `begin_sync` | `StartSync` |
| `_sync_from_peer`: request / `infonet_sync_post` / fork answer / events | `SendLocator`, `AnswerSync`, `TakeForkAnswer`, `TakeAnswer` |
| `get_locator`, `get_events_after_locator` | `LocatorPositions`, `Matched` |
| `finish_sync`, cooldown, peer store save | `FinishSync`, `CoolDownEnds`, `PeerSaveFails` |
| `_http_peer_push_loop`, `infonet_peer_push` | `PushBatch`, `PeerPush`, `PushFails` |
| `_propagate_public_event_to_peers` | `NewsArrives`, `NewsLost` |
| lost request, restart, a day passing | `SyncRequestFails`, `Restart`, `Age` |

### LiveData

A layer's content is the number of the write that put it there and the number of the
fetch it stems from (they differ for layers loaded from a startup cache).

| Code | Action |
|---|---|
| a fetcher's write, `_mark_fresh`, end of the cycle | `Fetch`, `MarkFresh`, `BumpDataVersion`, `SaveCache` |
| `update_all_data` → `seed_startup_caches` | `Refresh` |
| `live_data_fast` / `live_data_slow`: 304 / ETag first, layers later | `NotModified` / `Poll`, `Answer` |
| `useDataPolling.ts`: a poll / `forceRefreshLiveData` | `Ask` / `ForceRefresh` |
| `if (res.ok)`: the ETag is kept / `await res.json()`, `mergeData` | `TakeHeaders` / `TakeBody` |
| the `catch` block: headers or body lost, the ETag stays as it is | `Fails` |
| the ETag is dropped on a toggle and when polling resumes | `ForgetTag` |
| `update_layers` | `UpdateLayers` |
| `hidrico_telemetry`, `turimiquire_telemetry` | `SensorPosts`, `StoreReading`, `BumpDataVersion(Loop)` |
| `get_layer_slice`: version snapshot / layers | `AgentAsks`, `GetLayerSlice` |
| restart | `Restart` |

`calls` holds the requests and answers on their way: one of a page's poll and any number of
forced ones beside it, whose answers cross.  A page's `etag` and the data it shows are
thus set by different steps, and by different answers.  Two pieces of history say what
stands behind them: `got` and `gotLife`, the tag that the data shown came with, and
`from`, the process each layer of an agent came from.  `Whole(b)` is that the tag a page
sends is the one its data came with, `Torn(b)` that it is not, no answer is on its way, and
the page would be answered 304.

`BumpDataVersion(Loop)` is written as the code is: the handler holds `_data_lock`, which
is not reentrant, and the bump waits for it.  It is therefore never enabled, and runs
with `Telemetry = TRUE` end in that deadlock; they say `CHECK_DEADLOCK FALSE` because
the program really stops there.

### DMRelay

One recipient, any senders.  A copy in `mailboxes` is a message with the key it is under
(the epoch, and whether it is a request or shared mailbox) and the time it was stored.
`outbox` and `deposits` are the senders' side: a sender that does not learn of its
deposit's success repeats it.  `taken` is what polls have handed out, `raced` whether
the block list changed while it was being written.

| Code | Action or definition |
|---|---|
| `deposit`, with each refusal / a full mailbox before the duplicate check | `Deposit`, `DepositRefused`; `Refused`, `Known`, `Stored` |
| `collect_claims`, `_collect_from_keys`, the route's batch limit | `Poll`; `Claimed`, `Offered`, `Batches`, `Remaining` |
| `count_claims`, `claim_message_ids` | `Count` |
| `block`, `unblock` | `Block`, `Unblock`; `Purged` |
| `_save` / `_flush`: serialise, write, `_dirty = False` / a failed write | `Save`; `BeginFlush`, `EndFlush`, `FlushFails` |
| `_cleanup_expired`, called first by each of these | `Cleaned` |
| exit or crash, then `_load` | `Restart` |

### InfonetPetition

The state is the chain as far as it concerns one petition, with the times of its
events; `Status` is `compute_petition_state`, a definition and not a variable.  There are two
clocks: `clock` is `time.time()`, which stamps an event when it lands (`append`), and `now` is
`chain_majority_time`, for which the status is computed.  `now` moves only when an event
lands (`Lands`), by any amount up to the clock: it lags, stands still and jumps over
whole windows, and events that concern no petition move it too (`OtherEvent`).  No
action looks at the status: `POST /append` takes an event in any phase, and what a page
offers is only what it showed when it last polled.

The weight of a node is its oracle rep `rep`, of which `Decayed` leaves the less the longer
ago its last success was (`success`).  A signature is weighed at its own time, a vote at
its own or, if its node has signed, at that of the signature (the weight is memoised by
node), and the network at `now`; so what was cast can be more than the network.  `Earn` is
a market settled meanwhile, which changes a balance for all times and may start its age
anew.

| Code | Action or definition |
|---|---|
| `petition_file`, `petition_sign`, `petition_vote` events | `File`, `Sign`, `Vote` |
| `challenge_file`, `challenge_vote`, `petition_execute` events | `FileChallenge`, `VoteChallenge`, `Execute` |
| first-write-wins, windows, deadlines | `First`, `Signatures`, `Counted`, `VotingStart`, `VotingDeadline` |
| `compute_oracle_rep_active`, `network_governance_weight` | `Active`, `NetworkWeight` |
| threshold, quorum and majority, and the weights they compare | `SignedEnough`, `Carried`; `SignerWeight`, `VoterWeight` |
| `compute_challenge_state` | `ChallengeOutcome`, `Rulings` |
| `chain_majority_time` / the clock | `Lands` / `Tick` |

### InfonetMarket

The same for one staked market, with the same two clocks.  Producers read the chain, build
the event that advances it and append it later (`built` is what they hold in between).  Nodes
predict, submit and stake in any phase: `POST /append` takes it, and `resolve_market` counts
a stake whenever it landed.

The code sorts snapshots and finalizations by (timestamp, sequence), the model takes them
in the order of the chain.  That is the same as long as the nodes' clocks agree, which is
the model's assumption about clocks everywhere: stamps are taken when an event lands.

| Code | Action or definition |
|---|---|
| `prediction_place`, `evidence_submit`, `resolution_stake`, `identity_rotate` events | `Predict`, `SubmitEvidence`, `StakeOn`, `Rotate` |
| `should_advance_phase` with `build_snapshot` or `resolve_market`, then `POST /append` | `BuildSnapshot`, `BuildFinal`, then `Post` |
| `compute_market_status` | `Status` |
| `excluded_predictor_ids`, `rotation_descendants` | `Excluded`, `Descendants` |
| `resolve_market`: what decides / stakes / bonds | `Reason`, `Outcome` / `StakesBack`, `Winnings`, `StakesBurned` / `BondsBack`, `Bonus`, `BondsBurned` |
| `_index_markets`, liquidity, `compute_oracle_rep` | `Mintable`, `Liquid`, `Earners` |

Amounts are in hundredths and every stake is of the same size, so that a pool is a
number of stakes; shares within a pool are not told apart.

## 3. Runs and what they show

Run any of them with `tlc -config <cfg> <MC module>`; the configurations of module `X`
are for `MCX`.

| Configuration | Checks | Shows |
|---|---|---|
| `PrivateRelease_safe` | TypeOK, OneSendPerFault, RelayOnlyIfAsked, ChoiceIsSettled, AnonymousNeverDirect, DeliveryImplemented | A DM too large for the direct path, so that it tries every route, and two contacts for whom an earlier process may have left relay grants, while anonymous mode, hidden transport, the direct path, attestation and the block list change at any time and two faults strike |
| `PrivateRelease_live` | NothingBelowFloorAllPass, EventuallyDelivered, UserEventuallyAsked | A DM and a gate message with tier, Tor and RNS flapping and one fault: nothing leaves in a pass that was below the floor throughout, delivery once the direct path stays open, the question once no private route returns |
| `InfonetStore_log` | TypeOK, ChainLinks, SequencesIncrease, LedgerImplemented, LoggedSurvives | Two writers and the timer, with resets, replays, crashes and failed writes anywhere: until two of them overlap the chain links, until a reset too the store is an `AppendOnlyLog`, and a crash does not take the event in the WAL if it comes next after those in the file |
| `InfonetSync_pair` | TypeOK, FollowersAgree, SyncedIsTaken | A follower's loop and kick at once, with pushes, an altered event, aging events and every kind of fault: its chain begins the seed's, and a sync that ends well has taken its whole answer |
| `InfonetSync_live` | FollowersCatchUp | A follower gets every event of its seed, over several pages and rounds, whatever fails |
| `InfonetSync_fork` | HistoryKept, GenesisForksHeal | Two authors that push to each other, one of which asks the other: who asks nobody, or whose chain is not small, keeps its chain; a node forked at its first event ends with its peer's |
| `LiveData_pages` | TypeOK, NotModifiedIsCurrent | A page with a poll and a forced refresh, whose answers cross and lose their bodies, beside a fetcher, readings, a toggle and a restart: a 304 under a tag of this process is right for a page that has the body of that tag |
| `LiveData_live` | UnchangedIsCurrent, PagesSeeEveryWrite, AgentsSeeMarkedWrites | A job beside a page and an agent: a layer left out for an agent is one the agent has as it was last marked; every write reaches the page though answers are lost, unless it keeps the tag of a body it lost, and every marked write reaches the agent |
| `DMRelay_mail` | TypeOK, TakenOnce, ClaimsReachAll, BlockedIsUnread, QuietFileIsCurrent, PollLosesNothing | Two senders with a request each and a shared message, retried deposits, polls of one message at a time, blocks, expiry, a turning epoch, failing saves and a restart |
| `InfonetPetition_phases` | TypeOK, EveryVoteCounts, PhasesAdvance | Two nodes of unequal, decaying weight sign, vote, challenge and execute in any phase, twice and out of season, while the chain's time lags and jumps: a vote in time is counted and stays, and nothing but a signature or a change of reputation takes the status back |
| `InfonetMarket_races` | TypeOK, PredictorsDoNotJudge, EveryStakeIsAccounted, StatusAdvances, ExclusionOnlyGrows | Three identities predict, rotate, submit and stake, one of them out of phase, while two producers each build and later post what advances the market |

Each property of these has a mutant in `PROJECT.json`: a plausible slip in one mapped
definition (a lookup that ignores the contact, a tier check that always succeeds, a
page of events that starts one late, a bump that is forgotten) under which the run fails.

### Bounds

Every bound is a CONSTANT named `Max…` and used only in guards.

* `MaxFaults` counts crashes, failed writes, exceptions and lost requests.  Two are
  enough for a fault during the recovery from another; one is used where the property
  is about a single recovery.
* `PrivateRelease`: what the worker does to two messages interacts only through the
  tier of the pass, the order of the lanes and the grant of a contact.  The first two
  need a DM with a gate message (`_live`).  For the third one DM is enough: a grant
  that another message of the same contact, or of another one, has left behind is in
  the file when the process starts (`Init` lets it hold any).  Delivery state is per
  message.  Conditions that a run is not about are fixed by `InitiallyUp` and
  `Flapping`, because each doubles the states; over the two runs seven of the
  eight flap together with those they are read with, and a full mailbox (`room`) refuses a
  deposit in the step in which a block (`accepting`) does.
* `InfonetStore`: three events are the fewest for which one is in the file, one in the
  WAL and one in flight.  Two writers are the fewest that race; they are interchangeable
  (`SYMMETRY ThreadsAlike`: a thread is only ever compared with another one).  The run
  stops behind a race (`CONSTRAINT Orderly`), since all its properties but the type
  invariant say nothing from there on; `InfonetStore_race` goes on.
* `InfonetSync`: a page of one event, two rounds or one, a batch of two and a small
  chain of two or three instead of 100, 5, 50 and 20, so that with two or three events
  pages end early, late and exactly, the rounds run out with events left, and chains
  are on both sides of the fork threshold.  `Dense = 0` makes the locator skip positions
  after its first, which with 9 would take ten events; `Dense = 9` is used where the
  locator must be complete, as it is for every chain of fewer than ten events.  Two
  nodes suffice for what two may do to each other; longer chains of followers are left
  to the proof of `FollowersAgree`, which is for any network.
* `LiveData`: with the event loop's readings one fetcher suffices for a write of one thread
  between the write and the bump of another; two writes for a layer and its overwrite, and
  one forced request for an answer that overtakes the poll's.  `LiveData_agents`, with two
  fetchers, four writes and two restarts, checks UnchangedIsCurrent beyond `LiveData_live`;
  it passes.
* `DMRelay`: mailboxes interact only by the epoch in their keys, the limits and the
  recipient's claims, so two senders and the two kinds of mailbox give every pairing;
  a lifetime and an epoch of two ticks and three ticks of clock let an epoch turn
  with messages on both sides of it and one expire.
* `InfonetPetition`: windows of one tick in up to four ticks of clock, so that each window
  can open late, close, and be jumped over.  Weights of 2 and 1 that halve two ticks after
  a success make one signature enough or not, one vote a majority or not a quorum, and
  change both by decay.  `MCBounds` has three budgets, of which each behaviour has one: a
  challenge to its end; second signatures and votes; a market settled meanwhile.  One
  budget for all three does not finish in minutes; the proofs have no budget.
* `InfonetMarket`: out of phase the run has a single post, the first one (`MaxStray = 1`; two
  of them do not end in its time): a stake before its author predicts, or evidence before
  the snapshot.  The proofs have no such bound.  Three identities are the fewest for a predictor, what it rotates to
  twice, or two judges; two producers for two of each event on the chain.  Four
  posts with a snapshot and a finalization reach each of the six ways to resolve but
  the one that needs more stakes on one side than posts are left; the thresholds
  (two stakes to resolve, one predictor to be liquid) are scaled down to that.

The proofs remove all of these bounds for the theorems they cover.

## 4. Where code and documentation disagree

Each of these configurations checks what the repository says and ends in a
counterexample; where it names two properties, each has one.  `LiveData_telemetry` is among the runs of `PROJECT.json`; the others are
run by hand in the same way.  `backend/services/mesh/` is left
out of paths.

| Configuration | Property | The code | What is said |
|---|---|---|---|
| `InfonetStore_wal` | NothingAckedIsLost | the second append of a save interval replaces the first one's WAL entry, and after a crash the start drops the one that is left | "The user never gets a silent data-loss window." `mesh_hashchain.py:1606` |
| `LiveData_telemetry` | ReadingsAnswered | the handler calls `bump_data_version` with `_data_lock` held and waits for itself | "Receive a telemetry reading from any water system sensor." `routers/hidrico.py:186` |
| `InfonetSync_reset` | ResetForLongerOnly | an empty peer's answer counts as a fork and the node gives its chain up | "and the remote has a longer chain" `main.py:1462` |
| `PrivateRelease_gate_claim` | GatePublishedIfDelivered | `_gate_publish_via_rns` (`mesh_private_dispatcher.py:481`) reports success whenever `publish_gate_event` does not raise, also when RNS is off by then (`mesh_rns.py:1594`) | "User-facing network state without overclaiming gate delivery" `mesh_privacy_policy.py:197` |
| `PrivateRelease_stale_tier` | NothingBelowFloorSinceTaken | `run_once` reads the tier once and releases every message of the pass by it (`mesh_private_release_worker.py:103`) | "gate content release now requires private_strong (both Tor and RNS ready)" `mesh_privacy_policy.py:64` |
| `PrivateRelease_oversize` | OversizeFallsBack | while RNS is ready every pass forgets the session of a DM too large for it, so the approval window never elapses and the user is never asked (`mesh_private_release_worker.py:285`) | "RNS private DM payload too large; falling back to relay" `mesh_rns.py:1250` |
| `InfonetStore_lost_update` | EveryEventSaved | `_dirty` is cleared after the file is written, so an event added during the write is never saved, not even at exit (`mesh_hashchain.py:1725`) | "Mark dirty and schedule a coalesced disk write." `mesh_hashchain.py:1692` |
| `InfonetStore_race` | AlwaysLinked | `append` and `ingest_events` read the head and add their events later, on different threads and without a lock (`mesh_hashchain.py:1956`) | "Requires contiguous prev_hash." `mesh_hashchain.py:2002` |
| `InfonetStore_domains` | DomainsKept | `reset_chain` clears the replay domains (`mesh_hashchain.py:1678`) | "Keep private signed-write replay domains across public-chain rebuilds" `mesh_hashchain.py:1526` |
| `InfonetStore_outage` | StartKeepsFile | one WAL event refused for its age makes the start drop the chain it has just loaded (`mesh_hashchain.py:1490`) | "the chain advances we lost will re-flow from peers" `mesh_hashchain.py:1486` |
| `LiveData_restart` | TagsIdentifyContent, VersionsIdentifyContent | the counters start at 0 again (`services/fetchers/_store.py:156`) while pages keep their ETag and agents their versions, so that both are told of old data that they have it (`services/telemetry.py:2090`) | "Monotonic version counter — incremented on each data update cycle." `services/fetchers/_store.py:154`; "Layers the agent is already current on are omitted entirely" `services/telemetry.py:2067` |
| `LiveData_torn` | FreshDataBeforeNotModified | an answer's ETag is kept before its body is awaited, and stays when the body is lost (`frontend/src/hooks/useDataPolling.ts:164`, `:202`, `:40`): the next poll is answered 304 and the page goes without the data until some later bump | "Invalidate ETags so the next poll gets fresh data (not 304)" `frontend/src/hooks/useDataPolling.ts:22` |
| `LiveData_unmarked` | AgentsSeeEveryWrite | the correlations, like the sensor readings, are written without `_mark_fresh` (`services/data_fetcher.py:439`), so an agent gets them once | "Only layers whose server-side version is *newer* than the agent's version are serialized and returned." `services/telemetry.py:2066` |
| `LiveData_reseed` | LayersMoveForward | a refresh on a running server writes the startup caches over live layers (`services/data_fetcher.py:522`) | "Seed moving layers from a recent disk cache while live fetches warm up." `services/data_fetcher.py:175` |
| `InfonetSync_high_fork` | SmallForksHeal | a fork above the first event is no fork answer (`routers/mesh_public.py:1553`), so its sync fails for ever | "reset local state and re-sync from genesis instead of failing forever" `main.py:1462` |
| `InfonetSync_vote` | FollowersCatchUp | a sync answer strips the gate of a vote (`routers/mesh_public.py:252`), which ingest requires (`mesh_schema.py:230`): the vote and all that follows are rejected | "the full set accepted during ingest" `mesh_schema.py:342` |
| `InfonetSync_age` | FollowersCatchUp | the freshness bound of a day applies to catch-up (`mesh_hashchain.py:2076`): an empty node cannot follow an older chain | "Node will re-sync from peers." `mesh_hashchain.py:1501` |
| `InfonetSync_save` | SyncsEnd | an exception in `store.save()` (`main.py:1561`) leaves `last_outcome` at "running", for which no sync is ever due | "assert should_run_sync(finished, now=165) is True" of a failed sync, `tests/mesh/test_mesh_infonet_sync_support.py:76` |
| `DMRelay_flush` | CleanIsSaved | `_dirty` is cleared after the write and without a lock (`mesh_dm_relay.py:845`), so a block made during it is never saved | "Mark dirty and schedule a coalesced disk write." `mesh_dm_relay.py:683` |
| `InfonetPetition_diagram` | NoWayBack | voting starts with the latest signature on the chain (`petition.py:201`), which may be posted in any phase: a late one opens a closed vote again and drops votes already cast. The threshold and the quorum are of the network's weight now (`petition.py:172`): as others gain reputation a petition goes back from voting to collecting signatures, as weights decay one that failed comes to life | the one-way diagram of `petition.py:5`, and the field's name, `signature_threshold_at_filing` |
| `InfonetPetition_diagram` | PassedIsDecided | a challenge has a window of its own from its filing (`challenge.py:79`); the petition's window ends before it, so a petition passes, and is executed, with its challenge pending, and may be voided afterwards | "if challenge passes → status="voided_challenge" / else → status="passed"" `petition.py:21` |
| `InfonetMarket_judges` | EarnersDoNotJudge | two producers each post a snapshot; exclusion takes the first, oracle rep the last (`oracle_rep.py:99`), so a predictor who is only in the second judges the market and earns from it | "Sprint 4 enforces immutability by ignoring any subsequent ``market_snapshot`` events" `markets/snapshot.py:18` |
| `InfonetMarket_mint` | MintFollowsStatus | two producers each post a finalization; the status takes the first, oracle rep the last, so an invalid market mints | "already terminal" `markets/lifecycle.py:122` |

A disagreement without a model: a vote on a gate shutdown is only valid as "for" or
"against" (`infonet/schema.py:396`), while the shutdown status counts "passed" and "failed"
(`infonet/gates/shutdown/shutdown.py:98`), so no vote that can be appended decides one.

## 5. Fairness

Safety runs use `Spec` (no fairness).  Liveness runs use `FairSpec`.  Nothing is ever
assumed of users, transports, sensors, peers' honesty or writes.

* `PrivateRelease`: weak fairness of the worker's steps (the thread waits for nothing but
  a two second timer), of `Resume` and of `WindowElapses` (time).  `Resume` stands for the
  restart of a dead worker by `_resume_private_delivery_background_work`, which
  `main.py` calls at startup and from the wormhole status routes (`main.py:9607`,
  `main.py:11244`); the dashboard polls that status every five seconds
  (`frontend/src/components/MeshTerminal.tsx:784`).  Without a dashboard, a worker that died
  stays dead until the next enqueue.
* `InfonetStore`: weak fairness of threads that have begun something and of the timer;
  only used by `InfonetStore_lost_update`.
* `InfonetSync`: weak fairness of every step of a sync (a request ends by its timeout), of
  the loop's next cycle (the loop sleeps and looks again) and of the end of each
  cooldown (a timestamp).  Pushes have none: `FollowersCatchUp` must not need them.
  Failures are limited by `MaxFaults`, so "eventually" means once failures stop.
* `LiveData`: weak fairness of a fetcher that has begun, of the event loop and of agents'
  heartbeats, and of a page's next request (`Ask`, its interval timer); strong fairness of
  the answer to a request, because the loop is free again and again rather than always
  while it serves others, and serves requests in order; and strong fairness of headers and
  of bodies getting through, for any of them may be lost (`Fails`): the network does not
  lose the answers for ever.

* `DMRelay`, `InfonetPetition` and `InfonetMarket` state safety only.  Nothing in them has
  to happen: a recipient need not poll, a node need not post, and no thread of the
  program advances a petition or a market.

## 6. Proofs

All seven components have a `...Proofs` module; every obligation is checked by tlapm (SMT,
Zenon, and LS4 for the temporal step).  Each theorem is proved in the same way:
`Init => IInv`, `IInv /\ [Next]_vars => IInv'`, `IInv => property`.  They assume the
named ASSUME of the component and nothing else: any sets of messages, nodes, layers,
threads and producers, any number of restarts, any bounds.

| Theorem | Says | Inductive invariant, and why it is needed |
|---|---|---|
| `PrivateReleaseProofs!TypeCorrect` | types | `TypeOK` and `WorkerWellPlaced`: the DM part of the code is only reached with a DM, otherwise `session[w.item]` has no type |
| `AtMostOneSendPerFault` | a message is handed over at most `1 + faults` times | `SendInv`: a message in `todo` or in hand is still undelivered, a sent one is either delivered, about to be noted, or has cost a fault |
| `RelayNeedsTheUser` | relay only for contacts the user chose it for | `RelayInv`: an approval in a session, a grant in the policy and a consent in the worker's local each come from a choice for that contact; each outlives the one it came from |
| `ChoicesAreSettled` | a choice sends or keeps waiting, never both, and ends the question | `SessionsSettled`, the property itself for every message: it is inductive with the types |
| `FloorHolds`, `AnonymityHolds` | nothing leaves in a pass that was below the floor throughout; nothing leaves directly in an attempt that was anonymous throughout | `AttemptInv`: while `held` says a condition has held since the tier was read (since the attempt looked), what the worker read then is still so: a weak pass has a weak tier, `w.anon` is set |
| `PipelineDelivers` | the pipeline implements `SealedDelivery` | `SentBefore` and `WhereOk`: what is delivered, or about to be noted as delivered, was handed over; each step of the worker is then one of the abstract steps or a stutter |
| `InfonetStoreProofs!TypeCorrect` | types, any number of writers | `TypeOK` and `InFlight`: a writer between its steps holds an event |
| `LinksUntilARace`, `SequencesUntilARace` | until one thread changes the chain while another is adding to it, the chain links and sequences increase; any number of writers | `ChainInv`, "not overlapped ⇒ `ChainGood`": all three copies of the chain (memory, file, buffers of the flushes) are good, the table covers the chain, and the event a writer holds fits the end of the chain, or the next change of the chain is a race |
| `StoreIsALog` | until a race, a reset or a start with an aged WAL event the store implements `AppendOnlyLog`: nothing else breaks it | `LogInv`, "`Undisturbed` ⇒ `LogGood`": the file and what is about to be written begin the chain (`FileBehind`), the WAL's event is in the chain or about to join it (`WalHeld`), and nothing of its author before it has its number or a higher one (`WalAhead`). From the last, `ReplayAccepted`: a start refuses the event it replays for nothing but its age |
| `FileIsKept` | until one of the three, memory holds at least what the file does | the same |
| `WalSavesTheNext` | until one of the three, the event in the WAL survives a crash if it comes next after those in the file | `IdsInv`: ids rise along the chain up to what the writers hold, so the WAL's event is not taken for one in the file; that it links and is accepted is in `ChainInv` and `LogInv` |
| `LiveDataProofs!TypeCorrect` | types | `TypeOK` and `Places`: who holds the lock is where the code holds it |
| `NotModifiedCorrect` | a 304 under a tag of this process is right for a page that has the body of that tag | `PageInv`: what was published is held or overwritten, an answer in preparation is at least as new as its tag (`AnswerCurrent`), and so is every body on its way (`BodiesCover`) and the one a page shows (`ShownCovers`), each for the tag it came with, in whatever order answers arrive or get lost |
| `UnchangedCorrect` | a layer left out for an agent is current, for layers it got from this process, across restarts | `AgentInv`: what was marked is held, and an agent's snapshot and the versions it has from this process are never ahead of the store's |
| `ReadingStopsTheStore` | after a reading nothing of the backend moves until a restart | `WaitsForItself`: the lock is kept only by a handler that waits for it |
| `InfonetSyncProofs!TypeCorrect` | types, page and round limits, answers name events they carry | `TypeOK` itself |
| `FollowersCorrect` | every chain in a seed's network begins the seed's chain | `NetInv`: so does everything in flight (answers, batches, single events), and the seed never syncs |
| `HistoryCorrect` | who asks nobody, or whose chain is not small, never loses or changes an event | `AskersOnly`: only a node with peers is ever in a sync, and only a sync can find a fork |
| `SyncsTake` | a follower's sync that ends well has all of the seed's answer in the chain | `TakenInv`: a locator in flight and the events before an answer's start are in the chain, and no answer is a fork. The second is why the first lasts: a locator that begins the seed's chain is matched whole (`MatchedWhole`), so the chain is never reset under another thread |
| `DMRelayProofs!TypeCorrect` | types; a save timer is alive only while something is to be written | `TypeInv`: and no copy is stamped later than the clock |
| `NothingTakenTwice` | what a poll has handed out is not handed out again until deposited anew | `RelayInv`, in which it stands itself: a poll takes every copy of a message, and puts back only copies of what it did not take |
| `NothingOutOfReach` | what is fresh is under a key the next claims name | `TypeInv`: a copy's epoch is that of its stamp, which a lifetime of at most an epoch keeps within one of now |
| `BlockedStayUnread` | no request of a blocked sender is left to be read | `RelayInv`: a fresh request is in one of the two epochs that `block` purges, and none is stored while the block lasts |
| `QuietFileCorrect` | a relay at rest has its block list in its file | `PayloadIsCurrent`, in `RelayInv`: what the running flush writes is the list, unless `raced` |
| `PollsLoseNothing` | a poll removes what it hands out and nothing else that is fresh | none: it follows from the step |
| `InfonetPetitionProofs!TypeCorrect` | types; nothing on the chain is stamped later than the clock, and the chain's time is not ahead of it | `TypeOK` itself |
| `VotesCount` | whoever votes in time is in the tally, and stays in it with the same vote until someone signs; events in any phase | `TypeOK`: as a stamp is never behind those before it, the first event of a node in a window stays its first (`FirstStays`) |
| `PhasesCorrect` | unless someone signs or a reputation changes, the status goes on in the order of `Rank`, whatever lands, decays or jumps | `TypeOK`, and one lemma for each comparison: what has the signatures keeps them (`SignedStays`), what is carried after the deadline stays carried (`CarriedStays`), what is voided stays voided (`VoidedStays`), because what was cast is weighed at fixed times and the network at a later time weighs no more (`NetworkDecays`) |
| `InfonetMarketProofs!TypeCorrect` | types; no finalization before a snapshot; the chain's time is not ahead of the clock | `MarketInv`: a finalization that waits to be posted was built after a snapshot |
| `StatusCorrect` | phases go forward, the first outcome stays | `MarketInv`, and `FirstsStay`: no step touches the first snapshot or the first finalization |
| `ExclusionCorrect` | exclusion only grows | the same, and that the closure of more rotations is larger |
| `JudgesArePartial` | no stake that counts is of an identity reached from a predictor | `DescendantsClosed` |
| `AccountsBalance` | returned, won, burned and unclaimed add up to what was put in | sums split over disjoint sets (`SumSplit`), for each way to resolve |

No theorem assumes away what the code can do.  Where the code breaks a promise, the
property names what breaks it and the theorem says that nothing else does: a race, a
reset or an aged event for the ledger, a late signature or a change of reputation for a
petition, a lost body or a restart for a page.  The runs of section 4 show each of these
breaking it.  `FileIsKept` is about a property, StartKeepsFile, that is otherwise only
checked by a run with a counterexample (`InfonetStore_outage`).

The weight of some nodes is the number of units behind them and pools are multiples of
one stake, so the facts about sums rest on the library's theorems about finite sets.
`Decayed` is any function that never grows with age and does not take all of a weight,
which is what `governance_decay.py` computes.  `FollowersCorrect` does
not mention what an event is hashed over: it rests on `Ingested` only ever extending a
chain along the chain its events come from, proved as `IngestedChain`.  Extremes of sets
of numbers (page ends, matched positions, rebuilt tables) come from the
well-foundedness of the natural numbers (`LeastMember`, `LargestMember`).

Only model-checked:

* the liveness properties `EventuallyDelivered`, `UserEventuallyAsked`, `FollowersCatchUp`,
  `GenesisForksHeal`, `PagesSeeEveryWrite`, `AgentsSeeMarkedWrites`: fairness and ENABLED
  are beyond the prover.

Every other property of a passing run is a theorem.

## 7. What is not modelled

Of the modelled components:

* Release: profile-wide and gate-wide grants, `stop()`, item views, attempt counters,
  alias rotation after a delivered DM, and the DM-relay's own state.
* Ledger: `apply_fork`, incremental validation, revocations, queries, Merkle proofs.  A
  file or key that cannot be read at start (quarantine) is left out.
* Sync: the private-transport requirement, bootstrap manifests, HMAC of pushes, gate
  push and pull, RNS sync.  `InfonetSync` assumes what `InfonetStore` shows until a race,
  and a restarted node has the chain it had: what a crash loses is in `InfonetStore`.
* DM relay: prekey bundles, one-time prekeys, aliases, witness records, the nonce budget,
  mailbox tokens and their bindings; several recipients, which share nothing but limits.
* Petitions: rep paid to file, the effects of executing, disputes that take a success
  back, several challenges to one petition.  A vote that lands after the deadline by the
  clock while the lagging median still shows "voting" is not counted by the code, and no
  property demands that it is.
* Markets: disputes, bootstrap resolution and its proof of work, provisional
  finalizations, subjective markets, the share of each winner in a pool, predictions of
  unequal or no stake, the growth of rep over time.
* Live data: the capped first payload of a page, whose ETag is not kept; contents and thresholds, the SSE stream, weather cache, sensor history,
  full and partial agent summaries.

Signatures, hashes and encryption are perfect where they appear, and the clocks of all
nodes agree, so that the order of the chain is that of the stamps; peers send what
they have.  Events are valid or altered, not forged.

## 8. Plan

Order of writing, most important first.  Done: (1) `PrivateRelease` with `SealedDelivery`,
(2) `InfonetStore` with `AppendOnlyLog`, (3) `LiveData`, (4) `InfonetSync`, (5) `DMRelay`,
(6) `InfonetPetition` and `InfonetMarket`, and the proofs of section 6.

Next modules:

1. `GateStore`: append before memory, eviction, push and pull cursors between nodes.
2. Prekeys and nonces of the relay, in a module beside `DMRelay`: a one-time prekey is
   handed out once across restarts, nonces of a busy agent are not dropped by another's.
   `DMRelay` composed with `PrivateRelease` in place of its `Deposit` outcome.
3. `TransportWarmup`: join, cooldown, retention; one bootstrap at a time.
4. `ForkQuorum`: shards, timeouts and the quorum before `apply_fork`, with `InfonetStore`'s
   atomicity.
5. `AgentChannel`: commands, tasks, tiers, SSE listeners, layer slices of `LiveData`.
6. `WaterAlerts`: thresholds, alert list, history bounds; weather cache refills.
7. Disputes, gate shutdown with its appeal, upgrade votes and two-tier finality, beside
   `InfonetMarket` and `InfonetPetition`.

Next proofs: the invariants of these modules; the conditions under which what
`DMRelay_flush` and `InfonetStore_lost_update` refute holds, in the form the ledger's
theorems have.
