------------------------------ MODULE DMRelay ------------------------------
(***************************************************************************)
(* The relay of sealed direct messages, services/mesh/mesh_dm_relay.py, as *)
(* one recipient sees it: the mailboxes senders deposit into, the batches  *)
(* the recipient's polls take out, the list of senders it blocks, and the  *)
(* file the list is kept in.                                               *)
(*                                                                         *)
(* A call of the relay holds its lock from beginning to end and is one     *)
(* step.  _flush, run by a timer of its own thread, takes no lock: it reads*)
(* the tables, writes the file and clears _dirty, and calls fall between.  *)
(*                                                                         *)
(* Requests go to a mailbox of the current epoch, shared messages to the   *)
(* mailbox of a token.  The mailbox a request claim's token is bound to is *)
(* where direct carriers deliver; the relay never deposits there.          *)
(* Mailboxes are not written to the file (MESH_DM_PERSIST_SPOOL is off by  *)
(* default), so they do not outlive the process.                           *)
(***************************************************************************)
EXTENDS Naturals, FiniteSets

CONSTANTS
  Senders,      \* those who write to the recipient
  Requests,     \* messages of delivery class "request"
  Shareds,      \* messages of delivery class "shared"
  SenderOf,     \* who wrote each message
  TTL,          \* TTL_SECONDS
  EpochLength,  \* EPOCH_SECONDS
  RequestLimit, \* MESH_DM_REQUEST_MAILBOX_LIMIT
  SharedLimit,  \* MESH_DM_SHARED_MAILBOX_LIMIT
  BatchLimit,   \* DM_POLL_BATCH_LIMIT
  MaxTime,      \* bound on the clock
  MaxDeposits,  \* bound on deposits of one message
  MaxChanges,   \* bound on changes of the block list
  MaxRestarts   \* bound on restarts of the relay

Msgs == Requests \cup Shareds

ASSUME RelayAssumption ==
  /\ Requests \cap Shareds = {}
  /\ SenderOf \in [Msgs -> Senders]
  /\ TTL \in Nat \ {0} /\ EpochLength \in Nat /\ TTL <= EpochLength
  /\ RequestLimit \in Nat \ {0} /\ SharedLimit \in Nat \ {0}
  /\ BatchLimit \in Nat \ {0}
  /\ MaxTime \in Nat /\ MaxDeposits \in Nat /\ MaxChanges \in Nat
  /\ MaxRestarts \in Nat

VARIABLES
  now,        \* time.time()
  mailboxes,  \* _mailboxes: the stored copies, each with its timestamp
  blocks,     \* _blocks of the recipient
  dirty,      \* _dirty
  timer,      \* _save_timer: not alive, waiting, or inside _flush
  payload,    \* the block list _flush is writing
  file,       \* the block list in the relay file
  outbox,     \* senders' release items: still to deposit, or delivered
  deposits,   \* deposits made of each message
  changes,    \* changes made to the block list
  restarts,   \* restarts so far
  taken,      \* messages polls took out and no sender deposited since
  raced       \* the block list changed while _flush was writing

vars == <<now, mailboxes, blocks, dirty, timer, payload, file, outbox,
          deposits, changes, restarts, taken, raced>>

--------------------------------------------------------------------------
Copies == [id : Msgs, at : Nat]

EpochBucket(t) == t \div EpochLength
Fresh(c) == now - c.at < TTL

\* _cleanup_expired
Cleaned == {c \in mailboxes : Fresh(c)}

\* What is stored in the mailbox a deposit of m goes to: requests of the
\* epoch, or the shared messages of the token.
InBoxOf(m, c) ==
  \/ m \in Shareds /\ c.id \in Shareds
  \/ /\ m \in Requests /\ c.id \in Requests
     /\ EpochBucket(c.at) = EpochBucket(now)
LimitOf(m) == IF m \in Requests THEN RequestLimit ELSE SharedLimit

\* A claim of type "requests" names the mailboxes of this epoch and the one
\* before, one of type "shared" the mailbox of its token.
\* mutant: only this epoch's mailbox is named
RecentRequest_ThisEpoch(c) ==
  c.id \in Requests /\ EpochBucket(now) = EpochBucket(c.at)

RecentRequest(c) ==
  /\ c.id \in Requests
  /\ EpochBucket(now) - EpochBucket(c.at) \in {0, 1}
Claimed(c) == RecentRequest(c) \/ c.id \in Shareds

\* _save: dirty, and a timer unless one is alive
Save ==
  /\ dirty' = TRUE
  /\ timer' = IF timer = "idle" THEN "waiting" ELSE timer

Init ==
  /\ now = 0
  /\ mailboxes = {}
  /\ blocks = {} /\ file = {} /\ payload = {}
  /\ dirty = FALSE /\ timer = "idle"
  /\ outbox = [m \in Msgs |-> "queued"]
  /\ deposits = [m \in Msgs |-> 0]
  /\ changes = 0 /\ restarts = 0
  /\ taken = {} /\ raced = FALSE

--------------------------------------------------------------------------
\* What deposit answers, in the order it asks: blocked, full, known.
Refused(m) ==
  \/ SenderOf[m] \in blocks
  \/ Cardinality({c \in Cleaned : InBoxOf(m, c)}) >= LimitOf(m)
Known(m) == \E c \in Cleaned : InBoxOf(m, c) /\ c.id = m

\* The mailboxes after deposit: one copy more, unless this mailbox has one.
Stored(m) == IF Known(m) THEN Cleaned
             ELSE Cleaned \cup {[id |-> m, at |-> now]}

\* A sender's release worker deposits a queued message and is told so, or
\* stops before it records the answer and will deposit it again.
Deposit(m) ==
  /\ outbox[m] = "queued" /\ deposits[m] < MaxDeposits
  /\ ~Refused(m)
  /\ mailboxes' = Stored(m)
  /\ deposits' = [deposits EXCEPT ![m] = @ + 1]
  /\ \E o \in {"queued", "delivered"} : outbox' = [outbox EXCEPT ![m] = o]
  /\ IF Known(m) THEN UNCHANGED <<taken, dirty, timer>>
     ELSE taken' = taken \ {m} /\ Save
  /\ UNCHANGED <<now, blocks, payload, file, changes, restarts, raced>>

\* A refused deposit cleans the mailboxes only when it came past the blocks.
DepositRefused(m) ==
  /\ outbox[m] = "queued" /\ Refused(m)
  /\ mailboxes' = IF SenderOf[m] \in blocks THEN mailboxes
                  ELSE Cleaned
  /\ UNCHANGED <<now, blocks, dirty, timer, payload, file, outbox, deposits,
                 changes, restarts, taken, raced>>

\* collect_claims: the messages with the lowest stamps, as many as a batch
\* holds, leave together, with every copy under the claimed keys.  A message
\* stored under the keys of two epochs has the stamp of the later one.
Offered == {c.id : c \in {d \in Cleaned : Claimed(d)}}
Stamp(m) == LET stamps == {c.at : c \in {d \in Cleaned : Claimed(d) /\ d.id = m}}
            IN  CHOOSE t \in stamps : \A u \in stamps : u <= t

Batches ==
  {kept \in SUBSET Offered :
     /\ Cardinality(kept) <= BatchLimit
     /\ Cardinality(kept) = BatchLimit \/ kept = Offered
     /\ \A m \in kept, n \in Offered \ kept : Stamp(m) <= Stamp(n)}

\* What stays in the mailboxes when a batch has been taken out.
\* mutant: a message's copy under the other epoch's key is put back
Remaining_OtherCopy(kept) ==
  {c \in Cleaned : ~(Claimed(c) /\ c.id \in kept /\ c.at = Stamp(c.id))}

\* mutant: what the batch has no room for is not put back
Remaining_Nothing(kept) == {c \in Cleaned : ~Claimed(c)}

Remaining(kept) == {c \in Cleaned : ~(Claimed(c) /\ c.id \in kept)}

Poll ==
  \E kept \in Batches :
    /\ mailboxes' = Remaining(kept)
    /\ taken' = taken \cup kept
    /\ Save
    /\ UNCHANGED <<now, blocks, payload, file, outbox, deposits, changes,
                   restarts, raced>>

\* count_claims and claim_message_ids look without taking.
Count ==
  /\ mailboxes' = Cleaned
  /\ UNCHANGED <<now, blocks, dirty, timer, payload, file, outbox, deposits,
                 changes, restarts, taken, raced>>

--------------------------------------------------------------------------
\* block also drops what the sender has in the request mailboxes of this
\* epoch and the one before; the mailboxes of tokens are not looked at.
\* mutant: the mailbox of the epoch before is not purged
Purged_ThisEpoch(s, c) ==
  SenderOf[c.id] = s /\ RecentRequest(c) /\ EpochBucket(c.at) = EpochBucket(now)

Purged(s, c) == SenderOf[c.id] = s /\ RecentRequest(c)

Block(s) ==
  /\ changes < MaxChanges
  /\ blocks' = blocks \cup {s}
  /\ mailboxes' = {c \in mailboxes : ~Purged(s, c)}
  /\ Save
  /\ raced' = (raced \/ timer = "writing")
  /\ changes' = changes + 1
  /\ UNCHANGED <<now, payload, file, outbox, deposits, restarts, taken>>

Unblock(s) ==
  /\ changes < MaxChanges
  /\ blocks' = blocks \ {s}
  /\ Save
  /\ raced' = (raced \/ timer = "writing")
  /\ changes' = changes + 1
  /\ UNCHANGED <<now, mailboxes, payload, file, outbox, deposits, restarts,
                 taken>>

--------------------------------------------------------------------------
\* _flush: reads the tables, writes them, and calls the tables clean.
\* mutant: the tables are called clean before they are written
BeginFlush_CleanFirst ==
  /\ timer = "waiting" /\ dirty
  /\ timer' = "writing" /\ payload' = blocks /\ raced' = FALSE
  /\ dirty' = FALSE
  /\ UNCHANGED <<now, mailboxes, blocks, file, outbox, deposits, changes,
                 restarts, taken>>

BeginFlush ==
  /\ timer = "waiting" /\ dirty
  /\ timer' = "writing" /\ payload' = blocks /\ raced' = FALSE
  /\ UNCHANGED <<now, mailboxes, blocks, dirty, file, outbox, deposits,
                 changes, restarts, taken>>

EndFlush ==
  /\ timer = "writing"
  /\ file' = payload /\ dirty' = FALSE /\ timer' = "idle" /\ payload' = {}
  /\ UNCHANGED <<now, mailboxes, blocks, outbox, deposits, changes,
                 restarts, taken, raced>>

\* The write fails: recorded, and tried again when something else is saved.
\* mutant: the tables are called clean although the write failed
FlushFails_Clean ==
  /\ timer = "writing"
  /\ timer' = "idle" /\ payload' = {} /\ dirty' = FALSE
  /\ UNCHANGED <<now, mailboxes, blocks, file, outbox, deposits, changes,
                 restarts, taken, raced>>

FlushFails ==
  /\ timer = "writing"
  /\ timer' = "idle" /\ payload' = {}
  /\ UNCHANGED <<now, mailboxes, blocks, dirty, file, outbox, deposits,
                 changes, restarts, taken, raced>>

\* The process ends and starts again: _flush at exit if dirty, or a crash.
Restart(clean) ==
  /\ restarts < MaxRestarts
  /\ file' = IF clean /\ dirty THEN blocks ELSE file
  /\ blocks' = file'
  /\ mailboxes' = {}
  /\ dirty' = FALSE /\ timer' = "idle" /\ payload' = {} /\ raced' = FALSE
  /\ restarts' = restarts + 1
  /\ UNCHANGED <<now, outbox, deposits, changes, taken>>

Tick ==
  /\ now < MaxTime
  /\ now' = now + 1
  /\ UNCHANGED <<mailboxes, blocks, dirty, timer, payload, file, outbox,
                 deposits, changes, restarts, taken, raced>>

Next ==
  \/ \E m \in Msgs : Deposit(m) \/ DepositRefused(m)
  \/ Poll \/ Count
  \/ \E s \in Senders : Block(s) \/ Unblock(s)
  \/ BeginFlush \/ EndFlush \/ FlushFails
  \/ \E clean \in BOOLEAN : Restart(clean)
  \/ Tick

Spec == Init /\ [][Next]_vars

--------------------------------------------------------------------------
\* The types of the variables; a timer is alive only while there is
\* something to write.
TypeOK ==
  /\ now \in Nat
  /\ mailboxes \subseteq Copies
  /\ blocks \subseteq Senders /\ file \subseteq Senders
  /\ payload \subseteq Senders
  /\ dirty \in BOOLEAN /\ raced \in BOOLEAN
  /\ timer \in {"idle", "waiting", "writing"} /\ (timer # "idle" => dirty)
  /\ outbox \in [Msgs -> {"queued", "delivered"}]
  /\ deposits \in [Msgs -> Nat]
  /\ changes \in Nat /\ restarts \in Nat
  /\ taken \subseteq Msgs

\* What a poll has handed out is in no mailbox a later poll can be served
\* from, unless its sender deposited it anew: no matter that a retry across
\* the epoch boundary left it under two keys, or that the batch limit put
\* back the rest of a mailbox it was stored in.
TakenOnce == \A c \in mailboxes : Fresh(c) => c.id \notin taken

\* A message that has not expired is under a key the recipient's next claim
\* names, however the epochs have turned since it was deposited.
ClaimsReachAll == \A c \in mailboxes : Fresh(c) => Claimed(c)

\* No request of a sender the recipient blocks can still be read: block
\* drops those already stored, in both epochs, and deposit refuses more,
\* the relay's restarts and unblocking in between notwithstanding.
BlockedIsUnread ==
  \A c \in mailboxes :
    Fresh(c) /\ c.id \in Requests => SenderOf[c.id] \notin blocks

\* A poll removes what it hands out and nothing else that has not expired:
\* what the batch limit left over is there for the next poll.
PollLosesNothing ==
  [][taken' # taken /\ taken \subseteq taken'
     => \A c \in mailboxes : Fresh(c) => c \in mailboxes' \/ c.id \in taken']_vars

\* When no timer is due and nothing is marked dirty, the file holds the
\* block list, provided no call changed the list while it was being written.
QuietFileIsCurrent == timer = "idle" /\ ~dirty /\ ~raced => file = blocks

\* "Mark dirty and schedule a coalesced disk write": what is not marked
\* dirty is in the file or about to be written to it.
CleanIsSaved == ~dirty => file = blocks

============================================================================
