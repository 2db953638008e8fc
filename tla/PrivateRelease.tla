--------------------------- MODULE PrivateRelease ---------------------------
(***************************************************************************)
(* The private release pipeline of the mesh:                               *)
(*                                                                         *)
(*   PrivateOutbox            services/mesh/mesh_private_outbox.py         *)
(*   PrivateReleaseWorker     services/mesh/mesh_private_release_worker.py *)
(*   attempt_private_release  services/mesh/mesh_private_dispatcher.py     *)
(*   scoped relay policies    services/mesh/mesh_relay_policy.py           *)
(*   release floor            services/mesh/mesh_privacy_policy.py         *)
(*                                                                         *)
(* A sealed message is queued on disk, one background thread walks over    *)
(* the pending messages and releases each of them on the best private      *)
(* carrier that the transport tier, the user's privacy mode and the user's *)
(* consent to relay allow.  The request handlers, the transports and the   *)
(* clock run concurrently with that thread: each step below is one call    *)
(* that takes the outbox lock or one read of shared state, and everything  *)
(* else may happen between two of them.                                    *)
(*                                                                         *)
(* Every outbox write is saved before its lock is released and rolled back *)
(* when the save fails, so the file and the memory of the outbox agree     *)
(* whenever the lock is free: `rel' stands for both.  Attempt counters,    *)
(* timestamps and the wording of a status are left out.                    *)
(***************************************************************************)
EXTENDS Naturals

CONSTANTS
  DMs,              \* messages of lane "dm", by release key
  Gates,            \* messages of lane "gate", by release key
  NoItem,           \* not a message
  Contacts,         \* recipients of direct messages
  ContactOf,        \* the recipient of each DM
  Oversize,         \* DMs whose RNS frame exceeds MESH_RNS_MAX_PAYLOAD
  SecureMode,       \* MESH_DM_SECURE_MODE
  ApprovalEnabled,  \* MESH_PRIVATE_RELEASE_APPROVAL_ENABLE
  InitiallyUp,      \* the conditions that hold at the start
  Flapping,         \* the conditions that may change
  MaxFaults         \* bound on crashes, failed saves and transport exceptions

Items == DMs \cup Gates

(***************************************************************************)
(* Conditions outside the pipeline, each read by one helper of the code:   *)
(*   "strong"    get_transport_tier() is private_strong                    *)
(*   "direct"    RNS is enabled and has an active peer                     *)
(*   "anon"      the user asked for anonymous mode                         *)
(*   "hidden"    a hidden transport is running and ready                   *)
(*   "attested"  the privacy core's attestation is current                 *)
(*   "tor"       an onion peer accepts a push                              *)
(*   "accepting" the recipient does not block the sender                   *)
(*   "room"      the recipient's mailbox is not full                       *)
(***************************************************************************)
Conditions ==
  {"strong", "direct", "anon", "hidden", "attested", "tor", "accepting", "room"}

ASSUME ConstantsAssumption ==
  /\ DMs \cap Gates = {}
  /\ NoItem \notin Items
  /\ ContactOf \in [DMs -> Contacts]
  /\ Oversize \subseteq DMs
  /\ SecureMode \in BOOLEAN
  /\ ApprovalEnabled \in BOOLEAN
  /\ InitiallyUp \subseteq Conditions
  /\ Flapping \subseteq Conditions
  /\ MaxFaults \in Nat

VARIABLES
  up,       \* the conditions that hold now
  rel,      \* release_state of each message, "absent" before it is enqueued
  session,  \* _session_release_state, kept in memory only
  policy,   \* contacts with an unexpired relay grant, kept on disk
  choosing, \* the DM whose action handler has checked it and has yet to act
  w,        \* the worker thread: where it is and its local variables
  stored,   \* gate events in the local gate store, kept on disk
  faults,   \* crashes, failed saves and transport exceptions so far
  sends,    \* history: how often each message was handed to a carrier
  relayed,  \* history: DMs left on the relay because no private route was up
  asked,    \* history: contacts for which the user ever chose "Send via relay"
  held      \* history: what has been true without a break, see Watch

outbox == <<rel, session, policy>>
history == <<sends, relayed, asked>>
vars == <<up, outbox, choosing, w, stored, faults, history, held>>

-----------------------------------------------------------------------------
(***************************************************************************)
(* The values of the state.                                                *)
(***************************************************************************)
ReleaseStates == {"absent", "queued", "releasing", "delivered"}

\* since: how long ago the first failure was, against _RELAY_APPROVAL_WINDOW_S
Session == [since : {"none", "recent", "old"}, approved : BOOLEAN,
            wait : BOOLEAN, required : BOOLEAN]
NoSession == [since |-> "none", approved |-> FALSE, wait |-> FALSE,
              required |-> FALSE]

Locations ==
  {"stopped", "idle", "scan", "floor", "anon", "approval", "hold", "attest",
   "mark", "consent", "hidden", "route", "direct", "deposit",
   "store", "tor", "rns", "settle"}

(***************************************************************************)
(* The locals of run_once and of the dispatch it calls:                    *)
(*   todo      what is left of its snapshot of pending_items()             *)
(*   item      the message it is at                                        *)
(*   tierOk    current_tier, read once per pass, is private_strong         *)
(*   consent   relay_consent_granted, read when the attempt begins         *)
(*   hidden    anonymous_hidden, read by _dispatch_dm                      *)
(*   result    "ok", "retry", or "fallback" when a fallback_reason is set  *)
(***************************************************************************)
Worker ==
  [at : Locations, todo : SUBSET Items, item : Items \cup {NoItem},
   tierOk : BOOLEAN, consent : BOOLEAN, hidden : BOOLEAN,
   result : {"none", "ok", "retry", "fallback"}]

Stopped == [at |-> "stopped", todo |-> {}, item |-> NoItem, tierOk |-> FALSE,
            consent |-> FALSE, hidden |-> FALSE, result |-> "none"]

(***************************************************************************)
(* The history variable `held' watches conditions that have been true ever *)
(* since the worker started its pass, took its message, or began its       *)
(* attempt to release it.                                                  *)
(***************************************************************************)
Watch == {"weakPass", "weakItem", "anonAttempt"}
WatchedWhile(c) ==
  CASE c = "strong" -> {"weakPass", "weakItem"}
    [] c = "anon"   -> {"anonAttempt"}
    [] OTHER        -> {}
Starting(name, condition) == IF condition THEN {name} ELSE {}

-----------------------------------------------------------------------------
(***************************************************************************)
(* Reads of the shared state.                                              *)
(***************************************************************************)
On(c) == c \in up

\* mutant: the filter on "delivered" is forgotten
Pending_All == {i \in Items : rel[i] # "absent"}
\* mutant: a message left "releasing" by a dead thread is skipped
Pending_QueuedOnly == {i \in Items : rel[i] = "queued"}

\* has_pending, pending_items
Pending == {i \in Items : rel[i] \in {"queued", "releasing"}}

\* _anonymous_dm_hidden_transport_enforced
AnonymousHidden == On("anon") /\ On("hidden")

\* mutant: the lookup does not compare the scope of the grant
PolicyGrants_AnyScope(i) == policy # {} /\ On("hidden")

\* relay_policy_grants_dm: the grant of an approval needs a hidden transport
PolicyGrants(i) == ContactOf[i] \in policy /\ On("hidden")

\* _relay_consent_granted
RelayConsent(i) ==
  \/ ~ApprovalEnabled
  \/ session[i].approved
  \/ PolicyGrants(i)

\* mutant: the comparison of tiers always succeeds
FloorMet_Always(tier) == TRUE

\* evaluate_network_release(lane, tier).allowed: both lanes need private_strong
FloorMet(tier) == tier

\* the conditions under which _dm_release_approval_pending forgets the session
NoApprovalNeeded(i) ==
  \/ ~ApprovalEnabled
  \/ ~SecureMode
  \/ On("anon")
  \/ On("direct")
  \/ PolicyGrants(i)

\* mutant: a failure replaces the session state instead of updating it
Noted_Restarts(s) == [NoSession EXCEPT !.since = "recent"]

\* note_release_revalidation_failure: the first failure opens the window; the
\* user is asked once it is over, unless a choice was made
Noted(s) ==
  [s EXCEPT !.since = IF @ = "none" THEN "recent" ELSE @,
            !.required = s.since = "old" /\ ~s.approved /\ ~s.wait]

AfterFailure(i) ==
  IF ApprovalEnabled THEN [session EXCEPT ![i] = Noted(@)] ELSE session

\* clear_release_session_state; nothing reads the session of a gate message
Cleared(i) ==
  IF i \in DMs THEN [session EXCEPT ![i] = NoSession] ELSE session

\* The outbox is empty; grants of an earlier process may still be in their file.
Init ==
  /\ up = InitiallyUp
  /\ rel = [i \in Items |-> "absent"]
  /\ session = [i \in DMs |-> NoSession]
  /\ policy \in SUBSET Contacts
  /\ choosing = NoItem
  /\ w = Stopped
  /\ stored = {}
  /\ faults = 0
  /\ sends = [i \in Items |-> 0]
  /\ relayed = {}
  /\ asked = policy
  /\ held = {}

-----------------------------------------------------------------------------
(***************************************************************************)
(* The worker thread: run_once up to the attempt.                          *)
(***************************************************************************)
Goto(l) == w' = [w EXCEPT !.at = l]
NextMessage == w' = [w EXCEPT !.at = "scan", !.item = NoItem, !.consent = FALSE,
                              !.hidden = FALSE, !.result = "none"]
Fault == faults < MaxFaults /\ faults' = faults + 1

\* Neither run_once nor _loop handles an exception of a save: the thread ends.
ThreadDies == Fault /\ w' = Stopped

\* The transport tier is read once; every message of the pass is judged by it.
StartPass ==
  /\ w.at = "idle"
  /\ w' = [w EXCEPT !.at = "scan", !.tierOk = On("strong"), !.todo = Pending]
  /\ held' = Starting("weakPass", ~On("strong"))
  /\ UNCHANGED <<up, outbox, choosing, stored, faults, history>>

\* pending_items() sorts by lane: "dm" before "gate".
NextItem ==
  /\ w.at = "scan"
  /\ \E i \in w.todo :
       /\ i \in Gates => w.todo \cap DMs = {}
       /\ w' = [w EXCEPT !.at = "floor", !.item = i, !.todo = @ \ {i}]
  /\ held' = (held \cap {"weakPass"}) \cup Starting("weakItem", ~On("strong"))
  /\ UNCHANGED <<up, outbox, choosing, stored, faults, history>>

\* The thread sleeps until it is woken or two seconds have passed.
EndPass ==
  /\ w.at = "scan" /\ w.todo = {}
  /\ w' = [Stopped EXCEPT !.at = "idle"]
  /\ held' = {}
  /\ UNCHANGED <<up, outbox, choosing, stored, faults, history>>

\* mark_queued, which rolls back when its save fails; s is the session state
\* once run_once has gone on to note the failure or to forget the session.
Requeue(s) ==
  /\ \/ /\ rel' = [rel EXCEPT ![w.item] = "queued"]
        /\ session' = s
        /\ NextMessage
        /\ UNCHANGED faults
     \/ ThreadDies /\ UNCHANGED <<rel, session>>
  /\ UNCHANGED <<up, policy, choosing, stored, history, held>>

Proceed(l) ==
  /\ Goto(l)
  /\ UNCHANGED <<up, outbox, choosing, stored, faults, history, held>>

CheckFloor ==
  /\ w.at = "floor"
  /\ \/ FloorMet(w.tierOk) /\ Proceed(IF w.item \in DMs THEN "anon" ELSE "attest")
     \/ ~FloorMet(w.tierOk) /\ w.item \in DMs /\ ApprovalEnabled
          /\ Requeue(AfterFailure(w.item))
     \/ ~FloorMet(w.tierOk) /\ ~(w.item \in DMs /\ ApprovalEnabled)
          /\ Requeue(Cleared(w.item))

\* Anonymous mode without its hidden transport keeps a DM queued.
CheckAnonymous ==
  /\ w.at = "anon"
  /\ \/ On("anon") /\ ~AnonymousHidden /\ Requeue(Cleared(w.item))
     \/ ~(On("anon") /\ ~AnonymousHidden) /\ Proceed("approval")

\* _dm_release_approval_pending
CheckApproval ==
  /\ w.at = "approval"
  /\ \/ /\ NoApprovalNeeded(w.item)
        /\ session' = Cleared(w.item)
        /\ Goto("attest")
     \/ /\ ~NoApprovalNeeded(w.item)
        /\ session' = AfterFailure(w.item)
        /\ Goto(IF session[w.item].approved THEN "attest" ELSE "hold")
  /\ UNCHANGED <<up, rel, policy, choosing, stored, faults, history, held>>

HoldForApproval == w.at = "hold" /\ Requeue(session)

\* _strong_release_runtime_ready
CheckAttestation ==
  /\ w.at = "attest"
  /\ IF On("attested") THEN Proceed("mark") ELSE Requeue(session)

\* mark_releasing is outside the try block: its failed save ends the thread.
MarkReleasing ==
  /\ w.at = "mark"
  /\ \/ /\ rel' = [rel EXCEPT ![w.item] = "releasing"]
        /\ Goto("consent")
        /\ held' = held \cup Starting("anonAttempt", On("anon"))
        /\ UNCHANGED faults
     \/ ThreadDies /\ UNCHANGED <<rel, held>>
  /\ UNCHANGED <<up, session, policy, choosing, stored, history>>

-----------------------------------------------------------------------------
(***************************************************************************)
(* The attempt: attempt_private_release, _dispatch_dm and _dispatch_gate.  *)
(***************************************************************************)
Return(r) == w' = [w EXCEPT !.at = "settle", !.result = r]

\* An exception anywhere in the attempt makes it fail without a reason code.
AttemptRaises ==
  /\ w.at \in {"consent", "hidden", "route", "direct", "deposit", "store", "rns"}
  /\ Fault
  /\ Return("retry")
  /\ UNCHANGED <<up, outbox, choosing, stored, history, held>>

\* Consent is an argument of the attempt; the floor is checked again, against
\* the tier of the pass.
ReadConsent ==
  /\ w.at = "consent"
  /\ \/ /\ ~FloorMet(w.tierOk)
        /\ Return("retry")
     \/ /\ FloorMet(w.tierOk) /\ w.item \in DMs
        /\ w' = [w EXCEPT !.at = "hidden", !.consent = RelayConsent(w.item)]
     \/ /\ FloorMet(w.tierOk) /\ w.item \in Gates
        /\ Goto("store")
  /\ UNCHANGED <<up, outbox, choosing, stored, faults, history, held>>

\* anonymous_hidden is read before the rest of what the route depends on.
ReadHidden ==
  /\ w.at = "hidden"
  /\ w' = [w EXCEPT !.at = "route", !.hidden = AnonymousHidden]
  /\ UNCHANGED <<up, outbox, choosing, stored, faults, history, held>>

\* mutant: the hidden transport is looked at again
AnonymousWaits_Rereads == On("anon") /\ ~AnonymousHidden

\* anonymous mode is requested and the hidden transport was not up
AnonymousWaits == On("anon") /\ ~w.hidden

\* _dispatch_dm's choice between waiting, the direct path and the relay.
ChooseRoute ==
  /\ w.at = "route"
  /\ IF AnonymousWaits THEN Return("retry")
     ELSE IF SecureMode /\ On("direct") /\ ~w.hidden THEN Goto("direct")
     ELSE IF w.hidden \/ ~SecureMode \/ w.consent THEN Goto("deposit")
     ELSE Return("fallback")
  /\ UNCHANGED <<up, outbox, choosing, stored, faults, history, held>>

Carry(i) == sends' = [sends EXCEPT ![i] = @ + 1]

\* send_private_dm over RNS; when it fails, relay is the fallback.
SendDirect ==
  /\ w.at = "direct"
  /\ LET sent == On("direct") /\ w.item \notin Oversize
     IN  \/ ~On("accepting") /\ Return("retry") /\ UNCHANGED sends
         \/ On("accepting") /\ sent /\ Carry(w.item) /\ Return("ok")
         \/ On("accepting") /\ ~sent /\ w.consent /\ Goto("deposit")
              /\ UNCHANGED sends
         \/ On("accepting") /\ ~sent /\ ~w.consent /\ Return("fallback")
              /\ UNCHANGED sends
  /\ UNCHANGED <<up, outbox, choosing, stored, faults, relayed, asked, held>>

\* dm_relay.deposit, refused by a block or a full mailbox.
Deposit ==
  /\ w.at = "deposit"
  /\ \/ /\ On("accepting") /\ On("room")
        /\ Carry(w.item)
        /\ relayed' = IF SecureMode /\ ~w.hidden THEN relayed \cup {w.item}
                      ELSE relayed
        /\ Return("ok")
     \/ /\ ~(On("accepting") /\ On("room"))
        /\ Return("retry")
        /\ UNCHANGED <<sends, relayed>>
  /\ UNCHANGED <<up, outbox, choosing, stored, faults, asked, held>>

\* gate_store.append keeps the event locally, once per event id.
StoreGate ==
  /\ w.at = "store"
  /\ stored' = stored \cup {w.item}
  /\ Goto("tor")
  /\ UNCHANGED <<up, outbox, choosing, faults, history, held>>

PublishTor ==
  /\ w.at = "tor"
  /\ \/ On("tor") /\ Carry(w.item) /\ Return("ok")
     \/ ~On("tor") /\ Goto("rns") /\ UNCHANGED sends
  /\ UNCHANGED <<up, outbox, choosing, stored, faults, relayed, asked, held>>

\* publish_gate_event returns nothing, whether or not RNS is enabled and has
\* peers: _gate_publish_via_rns reports success unless it raises.
PublishRns ==
  /\ w.at = "rns"
  /\ \/ On("direct") /\ Carry(w.item)
     \/ ~On("direct") /\ UNCHANGED sends
  /\ Return("ok")
  /\ UNCHANGED <<up, outbox, choosing, stored, faults, relayed, asked, held>>

-----------------------------------------------------------------------------
(***************************************************************************)
(* The worker thread: run_once after the attempt.                          *)
(***************************************************************************)

\* mark_delivered forgets the session; when its save fails the message is
\* still "releasing" and the thread ends.
SettleDelivered ==
  /\ w.at = "settle" /\ w.result = "ok"
  /\ \/ /\ rel' = [rel EXCEPT ![w.item] = "delivered"]
        /\ session' = Cleared(w.item)
        /\ NextMessage
        /\ UNCHANGED faults
     \/ ThreadDies /\ UNCHANGED <<rel, session>>
  /\ UNCHANGED <<up, policy, choosing, stored, history, held>>

\* A fallback reason is noted before mark_queued, and stays when that fails.
SettleFailed ==
  /\ w.at = "settle" /\ w.result \in {"retry", "fallback"}
  /\ session' = IF w.result = "fallback" THEN AfterFailure(w.item) ELSE session
  /\ \/ /\ rel' = [rel EXCEPT ![w.item] = "queued"]
        /\ NextMessage
        /\ UNCHANGED faults
     \/ ThreadDies /\ UNCHANGED rel
  /\ UNCHANGED <<up, policy, choosing, stored, history, held>>

WorkerStep ==
  \/ StartPass \/ NextItem \/ EndPass
  \/ CheckFloor \/ CheckAnonymous \/ CheckApproval \/ HoldForApproval
  \/ CheckAttestation \/ MarkReleasing
  \/ ReadConsent \/ ReadHidden \/ ChooseRoute \/ SendDirect \/ Deposit
  \/ StoreGate \/ PublishTor \/ PublishRns
  \/ SettleDelivered \/ SettleFailed

-----------------------------------------------------------------------------
(***************************************************************************)
(* The request handlers, the environment and the process.                  *)
(***************************************************************************)

\* ensure_started: a new thread unless one is alive.
Started == IF w.at = "stopped" THEN [w EXCEPT !.at = "idle"] ELSE w

\* mutant: a repeated request queues a delivered message again
Enqueue_Resets(i) ==
  /\ rel' = [rel EXCEPT ![i] = "queued"]
  /\ w' = Started
  /\ UNCHANGED <<up, session, policy, choosing, stored, faults, history, held>>

\* mutant: a new item takes its state from the acceptance receipt
Enqueue_Sealed(i) ==
  /\ \/ rel[i] = "absent" /\ rel' = [rel EXCEPT ![i] = "sealed_local"]
     \/ rel[i] # "absent" /\ UNCHANGED rel
  /\ w' = Started
  /\ UNCHANGED <<up, session, policy, choosing, stored, faults, history, held>>

\* enqueue is idempotent in (lane, release_key); the caller then wakes the
\* worker.  The save of a new item may fail, and its caller gets the error.
Enqueue(i) ==
  /\ \/ rel[i] = "absent" /\ rel' = [rel EXCEPT ![i] = "queued"]
     \/ rel[i] # "absent" /\ UNCHANGED rel
  /\ w' = Started
  /\ UNCHANGED <<up, session, policy, choosing, stored, faults, history, held>>

EnqueueFails(i) ==
  /\ rel[i] = "absent"
  /\ Fault
  /\ UNCHANGED <<up, outbox, choosing, w, stored, history, held>>

\* _resume_private_delivery_background_work, at startup and on status requests.
Resume ==
  /\ Pending # {}
  /\ w.at = "stopped"
  /\ w' = Started
  /\ UNCHANGED <<up, outbox, choosing, stored, faults, history, held>>

\* The action handler refuses a delivered item, then acts; the worker may run
\* between the two.  Handlers run one at a time on the event loop.
BeginChoice(i) ==
  /\ choosing = NoItem
  /\ rel[i] \in {"queued", "releasing"}
  /\ choosing' = i
  /\ UNCHANGED <<up, outbox, w, stored, faults, history, held>>

\* approve_relay_release also grants relay for the contact; a failure to write
\* that grant is swallowed.
ApproveRelay ==
  /\ choosing # NoItem
  /\ choosing' = NoItem
  /\ session' = [session EXCEPT ![choosing].approved = TRUE,
                                ![choosing].wait = FALSE,
                                ![choosing].required = FALSE]
  /\ \/ policy' = policy \cup {ContactOf[choosing]} /\ UNCHANGED faults
     \/ Fault /\ UNCHANGED policy
  /\ asked' = asked \cup {ContactOf[choosing]}
  /\ UNCHANGED <<up, rel, w, stored, sends, relayed, held>>

\* mutant: the approval is left standing
KeepWaiting_StillApproved ==
  /\ choosing # NoItem
  /\ choosing' = NoItem
  /\ session' = [session EXCEPT ![choosing].wait = TRUE,
                                ![choosing].required = FALSE]
  /\ UNCHANGED <<up, rel, policy, w, stored, faults, history, held>>

\* continue_waiting_for_release withdraws the approval, not the contact's grant.
KeepWaiting ==
  /\ choosing # NoItem
  /\ choosing' = NoItem
  /\ session' = [session EXCEPT ![choosing].approved = FALSE,
                                ![choosing].wait = TRUE,
                                ![choosing].required = FALSE]
  /\ UNCHANGED <<up, rel, policy, w, stored, faults, history, held>>

PolicyExpires(c) ==
  /\ c \in policy
  /\ policy' = policy \ {c}
  /\ UNCHANGED <<up, rel, session, choosing, w, stored, faults, history, held>>

\* _RELAY_APPROVAL_WINDOW_S seconds have passed since the first failure.
WindowElapses(i) ==
  /\ session[i].since = "recent"
  /\ session' = [session EXCEPT ![i].since = "old"]
  /\ UNCHANGED <<up, rel, policy, choosing, w, stored, faults, history, held>>

Flip(c) ==
  /\ c \in Flapping
  /\ up' = IF On(c) THEN up \ {c} ELSE up \cup {c}
  /\ held' = held \ WatchedWhile(c)
  /\ UNCHANGED <<outbox, choosing, w, stored, faults, history>>

\* The process stops and starts again: _load turns "releasing" into "queued".
Crash ==
  /\ Fault
  /\ rel' = [i \in Items |-> IF rel[i] = "releasing" THEN "queued" ELSE rel[i]]
  /\ session' = [i \in DMs |-> NoSession]
  /\ choosing' = NoItem
  /\ w' = Stopped
  /\ held' = {}
  /\ UNCHANGED <<up, policy, stored, history>>

UserStep ==
  \/ \E i \in Items : Enqueue(i) \/ EnqueueFails(i)
  \/ \E i \in DMs : BeginChoice(i)
  \/ ApproveRelay
  \/ KeepWaiting

EnvironmentStep ==
  \/ \E c \in Contacts : PolicyExpires(c)
  \/ \E i \in DMs : WindowElapses(i)
  \/ \E c \in Conditions : Flip(c)

Next ==
  \/ WorkerStep
  \/ AttemptRaises
  \/ Resume
  \/ UserStep
  \/ EnvironmentStep
  \/ Crash

(***************************************************************************)
(* The worker's thread keeps running and never waits for anything but its  *)
(* two second timer; a thread that ended is started again by the next      *)
(* status request, which the user interface polls; time passes.  Nothing   *)
(* is assumed of users and transports.                                     *)
(***************************************************************************)
Fairness ==
  /\ WF_vars(WorkerStep)
  /\ WF_vars(Resume)
  /\ \A i \in DMs : WF_vars(WindowElapses(i))

Spec == Init /\ [][Next]_vars
FairSpec == Spec /\ Fairness
-----------------------------------------------------------------------------
(***************************************************************************)
(* Properties.                                                             *)
(***************************************************************************)

\* Every variable has its type; the history of sends is bounded only by the
\* number of faults.
TypeOK ==
  /\ up \subseteq Conditions
  /\ rel \in [Items -> ReleaseStates]
  /\ session \in [DMs -> Session]
  /\ policy \subseteq Contacts
  /\ choosing \in DMs \cup {NoItem}
  /\ w \in Worker
  /\ stored \subseteq Gates
  /\ faults \in 0..MaxFaults
  /\ sends \in [Items -> Nat]
  /\ relayed \subseteq DMs
  /\ asked \subseteq Contacts
  /\ held \subseteq Watch

\* A message is handed to a carrier a second time only after a crash, a failed
\* save or an exception: the worker's bookkeeping alone never sends twice,
\* however requests, choices and transports interleave with it.
OneSendPerFault == \A i \in Items : sends[i] <= 1 + faults

\* With approvals on, a secure DM is left on the relay for want of a private
\* route only if the user at some time chose "Send via relay" for its contact,
\* through every crash, grant, expiry and change of transport in between.
RelayOnlyIfAsked ==
  ApprovalEnabled => \A i \in relayed : ContactOf[i] \in asked

\* No choice both sends a message by relay and keeps it waiting, and a message
\* whose user has chosen is not one whose user is being asked.
ChoiceIsSettled ==
  \A i \in DMs : ~(session[i].approved /\ session[i].wait)
                 /\ (session[i].required => ~session[i].approved /\ ~session[i].wait)

\* While the user has been in anonymous mode ever since the attempt began, a DM
\* is handed to no carrier but the relay, and only when the hidden transport was
\* up as the attempt looked: no order of reads lets it out directly.
AnonymousNeverDirect ==
  [][\A i \in DMs : sends'[i] # sends[i] /\ "anonAttempt" \in held
       => w.at = "deposit" /\ w.hidden]_vars

\* No message leaves in a pass through which the transport tier was below the
\* floor from its start.
NothingBelowFloorAllPass ==
  [][sends' # sends => "weakPass" \notin held]_vars

\* Direct messages are delivered as SealedDelivery promises: reported only after
\* a carrier took them, and never pending or sent again after that.
Delivery ==
  INSTANCE SealedDelivery WITH
    Messages <- DMs,
    status <- [i \in DMs |-> IF rel[i] \in {"queued", "releasing"}
                             THEN "pending" ELSE rel[i]],
    copies <- [i \in DMs |-> sends[i]]

DeliveryImplemented == Delivery!Spec

\* If the private route stays open from some time on, every queued DM that fits
\* it is delivered, whatever died, failed or was chosen before.
DirectOpen == {"strong", "direct", "attested", "accepting"} \subseteq up
              /\ ~On("anon")
EventuallyDelivered ==
  \A i \in DMs \ Oversize :
    <>[]DirectOpen => [](rel[i] = "queued" => <>(rel[i] = "delivered"))

\* If no private route and no hidden relay ever comes back, the user of a pending
\* DM who has not chosen yet is asked.
NoPrivateRoute == up \cap {"direct", "anon", "hidden"} = {}
UserHasTheWord(i) == \/ session[i].required
                     \/ session[i].approved
                     \/ session[i].wait
UserEventuallyAsked ==
  SecureMode /\ ApprovalEnabled =>
    \A i \in DMs :
      <>[]NoPrivateRoute =>
        [](rel[i] = "queued" => <>(UserHasTheWord(i) \/ rel[i] = "delivered"))

\* What the release states of a gate message claim: a delivered gate message was
\* published on some carrier (network_release_state's "without overclaiming").
GatePublishedIfDelivered ==
  \A g \in Gates : rel[g] = "delivered" => sends[g] > 0

\* What the comment on the gate lane's floor says: content is released only with
\* Tor and RNS both ready; here, at some moment since the worker took the message.
NothingBelowFloorSinceTaken ==
  [][sends' # sends => "weakItem" \notin held]_vars

\* What send_private_dm says of a frame that is too large, "falling back to
\* relay": with every transport up the DM is delivered or its user is asked.
OversizeFallsBack ==
  \A i \in Oversize :
    <>[](DirectOpen /\ On("room")) =>
      [](rel[i] = "queued" => <>(UserHasTheWord(i) \/ rel[i] = "delivered"))
=============================================================================
