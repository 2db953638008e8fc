--------------------------- MODULE DMRelayProofs ---------------------------
(***************************************************************************)
(* Proofs about DMRelay, for any senders, messages, limits, epochs and     *)
(* bounds: what polls hand out, what the block list keeps from them, and   *)
(* what the relay's file holds.                                            *)
(***************************************************************************)
EXTENDS DMRelay, TLAPS

\* No copy is stamped later than the clock.
Stamped == \A c \in mailboxes : c.at <= now

\* A flush that no change of the block list has raced is writing the list.
PayloadIsCurrent == timer = "writing" /\ ~raced => payload = blocks

TypeInv == TypeOK /\ Stamped

RelayInv ==
  /\ TakenOnce
  /\ BlockedIsUnread
  /\ PayloadIsCurrent
  /\ QuietFileIsCurrent

-----------------------------------------------------------------------------
(***************************************************************************)
(* Epochs.                                                                 *)
(***************************************************************************)
LEMMA DivideBounds ==
  ASSUME NEW t \in Nat, NEW e \in Nat, e > 0
  PROVE  t \div e \in Nat /\ e * (t \div e) <= t /\ t < e * (t \div e) + e
OBVIOUS

LEMMA TimesMonotone ==
  ASSUME NEW e \in Nat, NEW p \in Nat, NEW q \in Nat, e > 0, p <= q
  PROVE  e * p <= e * q
OBVIOUS

\* Two times less than an epoch apart lie in one epoch or in adjacent ones.
LEMMA AdjacentEpochs ==
  ASSUME NEW s \in Nat, NEW t \in Nat, NEW e \in Nat, e > 0, s <= t, t - s < e
  PROVE  t \div e - s \div e \in {0, 1}
<1> DEFINE q == s \div e
           p == t \div e
<1>1. /\ p \in Nat /\ q \in Nat
      /\ e * q <= s /\ s < e * q + e /\ e * p <= t /\ t < e * p + e
  BY DivideBounds
<1> HIDE DEF p, q
<1>2. q <= p
  <2> SUFFICES ASSUME p + 1 <= q PROVE FALSE
    BY <1>1
  <2>1. e * (p + 1) <= e * q
    BY <1>1, TimesMonotone
  <2>2. e * (p + 1) = e * p + e
    BY <1>1
  <2> QED BY <2>1, <2>2, <1>1
<1>3. p <= q + 1
  <2> SUFFICES ASSUME q + 2 <= p PROVE FALSE
    BY <1>1
  <2>1. e * (q + 2) <= e * p
    BY <1>1, TimesMonotone
  <2>2. e * (q + 2) = e * q + e + e
    BY <1>1
  <2> QED BY <2>1, <2>2, <1>1
<1> QED BY <1>1, <1>2, <1>3 DEF p, q

\* A copy that has not expired is under a key of the next claim, because no
\* copy outlives an epoch.
LEMMA FreshIsClaimed ==
  ASSUME TypeInv, NEW c \in mailboxes, Fresh(c)
  PROVE  Claimed(c)
<1>1. c \in Copies /\ c.at \in Nat /\ c.at <= now /\ now \in Nat
  BY DEF TypeInv, TypeOK, Stamped, Copies
<1>2. EpochLength \in Nat /\ EpochLength > 0 /\ now - c.at < EpochLength
  BY <1>1, RelayAssumption DEF Fresh
<1>3. now \div EpochLength - c.at \div EpochLength \in {0, 1}
  BY <1>1, <1>2, AdjacentEpochs
<1> QED BY <1>1, <1>3 DEF Claimed, RecentRequest, EpochBucket, Copies, Msgs

-----------------------------------------------------------------------------
(***************************************************************************)
(* Types.                                                                  *)
(***************************************************************************)
LEMMA SaveTyped ==
  ASSUME Save, timer \in {"idle", "waiting", "writing"}
  PROVE  /\ dirty' \in BOOLEAN /\ timer' \in {"idle", "waiting", "writing"}
         /\ timer' # "idle" => dirty'
<1>1. dirty' = TRUE
  BY DEF Save
<1>2. timer' \in {"idle", "waiting", "writing"}
  BY DEF Save
<1> QED BY <1>1, <1>2

LEMMA TypeInit == Init => TypeInv
<1> SUFFICES ASSUME Init PROVE TypeInv
  OBVIOUS
<1>1. dirty \in BOOLEAN /\ raced \in BOOLEAN
  BY DEF Init
<1> QED BY <1>1 DEF Init, TypeInv, TypeOK, Stamped

LEMMA TypeStep == TypeInv /\ [Next]_vars => TypeInv'
<1> SUFFICES ASSUME TypeInv, [Next]_vars PROVE TypeInv'
  OBVIOUS
<1> USE DEF TypeInv, TypeOK, Stamped
<1>c. \A c \in mailboxes : c \in Copies /\ c.at \in Nat /\ c.id \in Msgs
  BY DEF Copies
<1>1. ASSUME NEW m \in Msgs, Deposit(m) PROVE TypeInv'
  <2>1. /\ mailboxes' \subseteq Copies
        /\ \A c \in mailboxes' : c.at <= now'
    BY <1>1 DEF Deposit, Stored, Cleaned, Copies
  <2>2. /\ taken' \subseteq Msgs /\ dirty' \in BOOLEAN
        /\ timer' \in {"idle", "waiting", "writing"}
        /\ timer' # "idle" => dirty'
    BY <1>1, SaveTyped DEF Deposit
  <2>3. outbox' \in [Msgs -> {"queued", "delivered"}] /\ deposits' \in [Msgs -> Nat]
    BY <1>1 DEF Deposit
  <2> QED BY <1>1, <2>1, <2>2, <2>3 DEF Deposit
<1>2. ASSUME NEW m \in Msgs, DepositRefused(m) PROVE TypeInv'
  BY <1>2 DEF DepositRefused, Cleaned
<1>3. CASE Poll
  <2>1. PICK kept \in Batches : /\ mailboxes' = Remaining(kept)
                                /\ taken' = taken \cup kept
                                /\ Save
                                /\ UNCHANGED <<now, blocks, payload, file, outbox,
                                               deposits, changes, restarts, raced>>
    BY <1>3 DEF Poll
  <2>2. kept \subseteq Msgs
    BY <1>c DEF Batches, Offered, Cleaned
  <2>3. mailboxes' \subseteq mailboxes
    BY <2>1 DEF Remaining, Cleaned
  <2> QED BY <2>1, <2>2, <2>3, SaveTyped
<1>4. CASE Count
  BY <1>4 DEF Count, Cleaned
<1>5. ASSUME NEW s \in Senders, Block(s) PROVE TypeInv'
  <2>1. mailboxes' \subseteq mailboxes /\ blocks' \subseteq Senders
    BY <1>5 DEF Block
  <2>2. /\ dirty' \in BOOLEAN /\ timer' \in {"idle", "waiting", "writing"}
        /\ timer' # "idle" => dirty'
    BY <1>5, SaveTyped DEF Block
  <2>3. raced' \in BOOLEAN
    BY <1>5 DEF Block
  <2> QED BY <1>5, <2>1, <2>2, <2>3 DEF Block
<1>6. ASSUME NEW s \in Senders, Unblock(s) PROVE TypeInv'
  <2>1. /\ dirty' \in BOOLEAN /\ timer' \in {"idle", "waiting", "writing"}
        /\ timer' # "idle" => dirty'
    BY <1>6, SaveTyped DEF Unblock
  <2>2. raced' \in BOOLEAN
    BY <1>6 DEF Unblock
  <2> QED BY <1>6, <2>1, <2>2 DEF Unblock
<1>7. CASE BeginFlush
  BY <1>7 DEF BeginFlush
<1>8. CASE EndFlush
  BY <1>8 DEF EndFlush
<1>9. CASE FlushFails
  BY <1>9 DEF FlushFails
<1>10. ASSUME NEW clean \in BOOLEAN, Restart(clean) PROVE TypeInv'
  <2>1. file' \subseteq Senders
    BY <1>10 DEF Restart
  <2>2. dirty' \in BOOLEAN /\ raced' \in BOOLEAN
    BY <1>10 DEF Restart
  <2> QED BY <1>10, <2>1, <2>2 DEF Restart
<1>11. CASE Tick
  BY <1>11, <1>c DEF Tick
<1>12. CASE UNCHANGED vars
  BY <1>12 DEF vars
<1> QED BY <1>1, <1>2, <1>3, <1>4, <1>5, <1>6, <1>7, <1>8, <1>9, <1>10, <1>11,
           <1>12 DEF Next

-----------------------------------------------------------------------------
(***************************************************************************)
(* What polls hand out, and what they may not.                             *)
(***************************************************************************)

\* While the clock stands, what is fresh stays fresh.
LEMMA FewerCopies ==
  ASSUME mailboxes' \subseteq mailboxes, UNCHANGED now
  PROVE  /\ TakenOnce /\ taken' \subseteq taken => TakenOnce'
         /\ BlockedIsUnread /\ blocks' \subseteq blocks => BlockedIsUnread'
BY DEF TakenOnce, BlockedIsUnread, Fresh

\* The list is on its way to the file when a call has changed it.
LEMMA ListSaved ==
  ASSUME Save, raced' = (raced \/ timer = "writing"), UNCHANGED payload,
         PayloadIsCurrent, TypeInv
  PROVE  PayloadIsCurrent' /\ QuietFileIsCurrent'
BY DEF Save, PayloadIsCurrent, QuietFileIsCurrent, TypeInv, TypeOK

\* What a call that leaves the list alone does to the file's copy of it.
LEMMA ListKept ==
  ASSUME UNCHANGED <<blocks, payload, file, raced>>,
         Save \/ UNCHANGED <<dirty, timer>>,
         PayloadIsCurrent, QuietFileIsCurrent, TypeInv
  PROVE  PayloadIsCurrent' /\ QuietFileIsCurrent'
BY DEF Save, PayloadIsCurrent, QuietFileIsCurrent, TypeInv, TypeOK

LEMMA RelayInit == Init => RelayInv
BY DEF Init, RelayInv, TakenOnce, BlockedIsUnread, PayloadIsCurrent,
       QuietFileIsCurrent

LEMMA RelayStep == TypeInv /\ RelayInv /\ [Next]_vars => RelayInv'
<1> SUFFICES ASSUME TypeInv, RelayInv, [Next]_vars PROVE RelayInv'
  OBVIOUS
<1> USE DEF RelayInv
<1>1. ASSUME NEW m \in Msgs, Deposit(m) PROVE RelayInv'
  <2>1. UNCHANGED <<now, blocks, payload, file, raced>>
    BY <1>1 DEF Deposit
  <2>2. PayloadIsCurrent' /\ QuietFileIsCurrent'
    BY <1>1, <2>1, ListKept DEF Deposit
  <2>3. CASE Known(m)
    <3>1. mailboxes' \subseteq mailboxes /\ taken' = taken
      BY <1>1, <2>3 DEF Deposit, Stored, Cleaned
    <3> QED BY <2>1, <2>2, <3>1, FewerCopies
  <2>4. CASE ~Known(m)
    <3>1. /\ mailboxes' = Cleaned \cup {[id |-> m, at |-> now]}
          /\ taken' = taken \ {m} /\ SenderOf[m] \notin blocks
      BY <1>1, <2>4 DEF Deposit, Stored, Refused
    <3>2. TakenOnce'
      BY <2>1, <3>1 DEF TakenOnce, Fresh, Cleaned
    <3>3. BlockedIsUnread'
      BY <2>1, <3>1 DEF BlockedIsUnread, Fresh, Cleaned
    <3> QED BY <2>2, <3>2, <3>3
  <2> QED BY <2>3, <2>4
<1>2. ASSUME NEW m \in Msgs, DepositRefused(m) PROVE RelayInv'
  BY <1>2, FewerCopies, ListKept DEF DepositRefused, Cleaned
<1>3. CASE Poll
  <2>1. PICK kept \in Batches : /\ mailboxes' = Remaining(kept)
                                /\ taken' = taken \cup kept
                                /\ Save
                                /\ UNCHANGED <<now, blocks, payload, file, raced>>
    BY <1>3 DEF Poll
  <2>2. TakenOnce'
    <3> SUFFICES ASSUME NEW c \in Remaining(kept), Fresh(c)
                 PROVE  c.id \notin taken \cup kept
      BY <2>1 DEF TakenOnce, Fresh
    <3>1. c \in mailboxes /\ ~(Claimed(c) /\ c.id \in kept)
      BY DEF Remaining, Cleaned
    <3>2. Claimed(c)
      BY <3>1, FreshIsClaimed
    <3> QED BY <3>1, <3>2 DEF TakenOnce
  <2>3. mailboxes' \subseteq mailboxes
    BY <2>1 DEF Remaining, Cleaned
  <2> QED BY <2>1, <2>2, <2>3, FewerCopies, ListKept
<1>4. CASE Count
  BY <1>4, FewerCopies, ListKept DEF Count, Cleaned
<1>5. ASSUME NEW s \in Senders, Block(s) PROVE RelayInv'
  <2>1. PayloadIsCurrent' /\ QuietFileIsCurrent'
    BY <1>5, ListSaved DEF Block
  <2>2. /\ mailboxes' = {c \in mailboxes : ~Purged(s, c)}
        /\ blocks' = blocks \cup {s} /\ UNCHANGED <<now, taken>>
    BY <1>5 DEF Block
  <2>3. TakenOnce'
    BY <2>2, FewerCopies
  <2>4. BlockedIsUnread'
    <3> SUFFICES ASSUME NEW c \in mailboxes, ~Purged(s, c), Fresh(c),
                        c.id \in Requests
                 PROVE  SenderOf[c.id] \notin blocks \cup {s}
      BY <2>2 DEF BlockedIsUnread, Fresh
    <3>1. SenderOf[c.id] \notin blocks
      BY DEF BlockedIsUnread
    <3>2. RecentRequest(c)
      BY FreshIsClaimed, RelayAssumption DEF Claimed
    <3> QED BY <3>1, <3>2 DEF Purged
  <2> QED BY <2>1, <2>3, <2>4
<1>6. ASSUME NEW s \in Senders, Unblock(s) PROVE RelayInv'
  <2>1. PayloadIsCurrent' /\ QuietFileIsCurrent'
    BY <1>6, ListSaved DEF Unblock
  <2> QED BY <1>6, <2>1, FewerCopies DEF Unblock
<1>7. CASE BeginFlush
  <2>1. PayloadIsCurrent' /\ QuietFileIsCurrent'
    BY <1>7 DEF BeginFlush, PayloadIsCurrent, QuietFileIsCurrent
  <2> QED BY <1>7, <2>1, FewerCopies DEF BeginFlush
<1>8. CASE EndFlush
  <2>1. PayloadIsCurrent' /\ QuietFileIsCurrent'
    BY <1>8 DEF EndFlush, PayloadIsCurrent, QuietFileIsCurrent
  <2> QED BY <1>8, <2>1, FewerCopies DEF EndFlush
<1>9. CASE FlushFails
  <2>1. PayloadIsCurrent' /\ QuietFileIsCurrent'
    BY <1>9 DEF FlushFails, PayloadIsCurrent, QuietFileIsCurrent, TypeInv, TypeOK
  <2> QED BY <1>9, <2>1, FewerCopies DEF FlushFails
<1>10. ASSUME NEW clean \in BOOLEAN, Restart(clean) PROVE RelayInv'
  BY <1>10 DEF Restart, TakenOnce, BlockedIsUnread, PayloadIsCurrent,
               QuietFileIsCurrent
<1>11. CASE Tick
  <2>1. PayloadIsCurrent' /\ QuietFileIsCurrent'
    BY <1>11, ListKept DEF Tick
  <2>2. /\ now' = now + 1 /\ now \in Nat /\ UNCHANGED <<mailboxes, blocks, taken>>
        /\ \A c \in mailboxes : c.at \in Nat
    BY <1>11 DEF Tick, TypeInv, TypeOK, Copies
  <2>3. \A c \in mailboxes : now' - c.at < TTL => now - c.at < TTL
    BY <2>2, RelayAssumption
  <2>4. TakenOnce' /\ BlockedIsUnread'
    BY <2>2, <2>3 DEF TakenOnce, BlockedIsUnread, Fresh
  <2> QED BY <2>1, <2>4
<1>12. CASE UNCHANGED vars
  BY <1>12, FewerCopies, ListKept DEF vars
<1> QED BY <1>1, <1>2, <1>3, <1>4, <1>5, <1>6, <1>7, <1>8, <1>9, <1>10, <1>11,
           <1>12 DEF Next

LEMMA Invariant == Spec => [](TypeInv /\ RelayInv)
<1>1. TypeInv /\ RelayInv /\ [Next]_vars => (TypeInv /\ RelayInv)'
  BY TypeStep, RelayStep
<1> QED BY TypeInit, RelayInit, <1>1, PTL DEF Spec

-----------------------------------------------------------------------------
\* Every variable keeps its type, and a save timer is alive only while there
\* is something to write.
THEOREM TypeCorrect == Spec => []TypeOK
<1>1. TypeInv => TypeOK
  BY DEF TypeInv
<1> QED BY Invariant, <1>1, PTL

\* A message that a poll has handed out is not handed out again until its
\* sender deposits it anew, whatever epochs its copies were stored in.
THEOREM NothingTakenTwice == Spec => []TakenOnce
<1>1. RelayInv => TakenOnce
  BY DEF RelayInv
<1> QED BY Invariant, <1>1, PTL

\* With a lifetime of at most an epoch, no message that has not expired is out
\* of reach of the recipient's claims, wherever the epochs turn.
THEOREM NothingOutOfReach == Spec => []ClaimsReachAll
<1>1. TypeInv => ClaimsReachAll
  BY FreshIsClaimed DEF ClaimsReachAll
<1> QED BY Invariant, <1>1, PTL

\* No request from a sender the recipient blocks is left to be read.
THEOREM BlockedStayUnread == Spec => []BlockedIsUnread
<1>1. RelayInv => BlockedIsUnread
  BY DEF RelayInv
<1> QED BY Invariant, <1>1, PTL

\* A relay at rest has its block list in its file, unless a call changed the
\* list while _flush was writing it.
THEOREM QuietFileCorrect == Spec => []QuietFileIsCurrent
<1>1. RelayInv => QuietFileIsCurrent
  BY DEF RelayInv
<1> QED BY Invariant, <1>1, PTL

\* A poll takes out what it hands out and leaves everything else that has not
\* expired: the batch limit loses nothing.
THEOREM PollsLoseNothing == Spec => PollLosesNothing
<1> DEFINE Kept == \A c \in mailboxes : Fresh(c) => c \in mailboxes' \/ c.id \in taken'
<1>1. ASSUME TypeInv, [Next]_vars, taken' # taken, taken \subseteq taken' PROVE Kept
  <2>1. CASE Poll
    <3>1. PICK kept \in Batches : mailboxes' = Remaining(kept) /\ taken' = taken \cup kept
      BY <2>1 DEF Poll
    <3> QED BY <3>1 DEF Remaining, Cleaned
  <2>2. ASSUME NEW m \in Msgs, Deposit(m) PROVE FALSE
    BY <1>1, <2>2 DEF Deposit
  <2>3. taken' = taken \/ Poll \/ \E m \in Msgs : Deposit(m)
    BY <1>1 DEF Next, vars, DepositRefused, Count, Block, Unblock, BeginFlush,
                EndFlush, FlushFails, Restart, Tick
  <2> QED BY <1>1, <2>1, <2>2, <2>3
<1>2. TypeInv /\ [Next]_vars => [taken' # taken /\ taken \subseteq taken' => Kept]_vars
  BY <1>1
<1> QED BY Invariant, <1>2, PTL DEF Spec, PollLosesNothing
=============================================================================
