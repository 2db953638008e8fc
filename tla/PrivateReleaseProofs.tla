------------------------ MODULE PrivateReleaseProofs ------------------------
(***************************************************************************)
(* Proofs about PrivateRelease, for every set of messages, every choice of *)
(* conditions that may change, and every bound on faults.  The worker is   *)
(* treated first, on its own: where it is, with which message, and what    *)
(* its locals can hold.  The rest of the state is then typed from that,    *)
(* and the safety theorems follow, by an invariant for each subject: how   *)
(* often a message is sent, what the user was asked and has chosen, what   *)
(* held through a pass, and last what SealedDelivery promises.             *)
(***************************************************************************)
EXTENDS PrivateRelease, TLAPS

-----------------------------------------------------------------------------
(***************************************************************************)
(* The worker.                                                             *)
(***************************************************************************)

\* Between messages the worker holds none; the DM part of the code only sees
\* DMs, the gate part only gate messages; a result is set on the way to "settle".
BetweenMessages == {"stopped", "idle", "scan"}
DMOnly == {"anon", "approval", "hold", "hidden", "route", "direct", "deposit"}
GateOnly == {"store", "tor", "rns"}
WorkerWellPlaced ==
  /\ w.at \in BetweenMessages <=> w.item = NoItem
  /\ w.at \in DMOnly => w.item \in DMs
  /\ w.at \in GateOnly => w.item \in Gates
  /\ w.at # "settle" => w.result = "none"
WorkerInv == w \in Worker /\ WorkerWellPlaced

\* How each way of moving on changes the worker's locals.
LEMMA Moves ==
  ASSUME w \in Worker
  PROVE  /\ \A l \in Locations :
              Goto(l) => /\ w' \in Worker
                         /\ w'.at = l
                         /\ w'.item = w.item
                         /\ w'.result = w.result
         /\ \A r \in {"ok", "retry", "fallback"} :
              Return(r) => /\ w' \in Worker
                           /\ w'.at = "settle"
                           /\ w'.item = w.item
                           /\ w'.result = r
         /\ NextMessage => /\ w' \in Worker
                           /\ w'.at = "scan"
                           /\ w'.item = NoItem
                           /\ w'.result = "none"
         /\ ThreadDies => w' = Stopped
<1>1. ASSUME NEW l \in Locations, Goto(l)
      PROVE  w' \in Worker /\ w'.at = l /\ w'.item = w.item /\ w'.result = w.result
  BY <1>1 DEF Goto, Worker
<1>2. ASSUME NEW r \in {"ok", "retry", "fallback"}, Return(r)
      PROVE  w' \in Worker /\ w'.at = "settle" /\ w'.item = w.item /\ w'.result = r
  BY <1>2 DEF Return, Worker, Locations
<1>3. ASSUME NextMessage
      PROVE  w' \in Worker /\ w'.at = "scan" /\ w'.item = NoItem /\ w'.result = "none"
  BY <1>3 DEF NextMessage, Worker, Locations
<1>4. ThreadDies => w' = Stopped
  BY DEF ThreadDies
<1> QED BY <1>1, <1>2, <1>3, <1>4

LEMMA StoppedWorker ==
  /\ Stopped \in Worker
  /\ Stopped.at = "stopped" /\ Stopped.item = NoItem /\ Stopped.result = "none"
BY DEF Stopped, Worker, Locations

LEMMA WorkerStepInv == WorkerInv /\ [Next]_vars => WorkerInv'
<1> SUFFICES ASSUME WorkerInv, [Next]_vars PROVE WorkerInv'
  OBVIOUS
<1> USE ConstantsAssumption
    DEF WorkerInv, WorkerWellPlaced, BetweenMessages, DMOnly, GateOnly, Items
<1>m. /\ \A l \in Locations :
           Goto(l) => /\ w' \in Worker
                      /\ w'.at = l
                      /\ w'.item = w.item
                      /\ w'.result = w.result
      /\ \A r \in {"ok", "retry", "fallback"} :
           Return(r) => /\ w' \in Worker
                        /\ w'.at = "settle"
                        /\ w'.item = w.item
                        /\ w'.result = r
      /\ NextMessage => /\ w' \in Worker
                        /\ w'.at = "scan"
                        /\ w'.item = NoItem
                        /\ w'.result = "none"
      /\ ThreadDies => w' = Stopped
  BY Moves
<1>q. \A s : Requeue(s) => WorkerInv'
  BY <1>m, StoppedWorker DEF Requeue
<1>i. w.item \in Items \cup {NoItem}
  BY DEF Worker
<1>b. \A c : On(c) \in BOOLEAN
  BY DEF On
<1>1. CASE StartPass
  <2>1. Pending \in SUBSET Items
    BY DEF Pending
  <2>2. w' \in Worker
    BY <1>1, <1>b, <2>1 DEF StartPass, Worker, Locations
  <2>3. w'.at = "scan" /\ w'.item = w.item /\ w'.result = w.result
    BY <1>1 DEF StartPass, Worker
  <2> QED BY <1>1, <2>2, <2>3 DEF StartPass
<1>2. CASE NextItem
  <2>1. PICK i \in w.todo : w' = [w EXCEPT !.at = "floor", !.item = i, !.todo = @ \ {i}]
    BY <1>2 DEF NextItem
  <2>2. i \in Items
    BY <2>1 DEF Worker
  <2>3. w' \in Worker
    BY <2>1, <2>2 DEF Worker, Locations
  <2>4. w'.at = "floor" /\ w'.item = i /\ w'.result = w.result
    BY <2>1 DEF Worker
  <2> QED BY <1>2, <2>2, <2>3, <2>4 DEF NextItem
<1>3. CASE EndPass
  <2>1. w' = [Stopped EXCEPT !.at = "idle"]
    BY <1>3 DEF EndPass
  <2>2. w' \in Worker
    BY <2>1, StoppedWorker DEF Worker, Locations
  <2>3. w'.at = "idle" /\ w'.item = NoItem /\ w'.result = "none"
    BY <2>1, StoppedWorker DEF Worker
  <2> QED BY <2>2, <2>3
<1>4. CASE CheckFloor
  BY <1>4, <1>q, <1>m, <1>i DEF CheckFloor, Proceed, Locations
<1>5. CASE CheckAnonymous
  BY <1>5, <1>q, <1>m DEF CheckAnonymous, Proceed, Locations
<1>6. CASE CheckApproval
  BY <1>6, <1>m DEF CheckApproval, Locations
<1>7. CASE HoldForApproval
  BY <1>7, <1>q DEF HoldForApproval
<1>8. CASE CheckAttestation
  BY <1>8, <1>q, <1>m DEF CheckAttestation, Proceed, Locations
<1>9. CASE MarkReleasing
  BY <1>9, <1>m, StoppedWorker DEF MarkReleasing, Locations
<1>10. CASE ReadConsent
  <2>1. CASE ~FloorMet(w.tierOk) /\ Return("retry")
    BY <1>10, <1>m, <2>1 DEF ReadConsent
  <2>2. CASE w.item \in DMs /\ w' = [w EXCEPT !.at = "hidden", !.consent = RelayConsent(w.item)]
    <3>1. RelayConsent(w.item) \in BOOLEAN
      BY DEF RelayConsent
    <3>2. w' \in Worker
      BY <2>2, <3>1 DEF Worker, Locations
    <3>3. w'.at = "hidden" /\ w'.item = w.item /\ w'.result = w.result
      BY <2>2 DEF Worker
    <3> QED BY <1>10, <2>2, <3>2, <3>3 DEF ReadConsent
  <2>3. CASE w.item \in Gates /\ Goto("store")
    BY <1>10, <1>m, <2>3 DEF ReadConsent, Locations
  <2> QED BY <1>10, <2>1, <2>2, <2>3 DEF ReadConsent
<1>11. CASE ReadHidden
  <2>1. AnonymousHidden \in BOOLEAN
    BY DEF AnonymousHidden
  <2>2. w' \in Worker
    BY <1>11, <2>1 DEF ReadHidden, Worker, Locations
  <2>3. w'.at = "route" /\ w'.item = w.item /\ w'.result = w.result
    BY <1>11 DEF ReadHidden, Worker
  <2> QED BY <1>11, <2>2, <2>3 DEF ReadHidden
<1>12. CASE ChooseRoute
  BY <1>12, <1>m DEF ChooseRoute, Locations
<1>13. CASE SendDirect
  BY <1>13, <1>m DEF SendDirect, Locations
<1>14. CASE Deposit
  BY <1>14, <1>m DEF Deposit
<1>15. CASE StoreGate
  BY <1>15, <1>m DEF StoreGate, Locations
<1>16. CASE PublishTor
  BY <1>16, <1>m DEF PublishTor, Locations
<1>17. CASE PublishRns
  BY <1>17, <1>m DEF PublishRns
<1>18. CASE SettleDelivered
  BY <1>18, <1>m, StoppedWorker DEF SettleDelivered
<1>19. CASE SettleFailed
  BY <1>19, <1>m, StoppedWorker DEF SettleFailed
<1>20. CASE AttemptRaises
  BY <1>20, <1>m DEF AttemptRaises
<1>s. Started \in Worker /\ (w' = Started => WorkerInv')
  <2>1. CASE w.at = "stopped"
    <3>1. Started = [w EXCEPT !.at = "idle"]
      BY <2>1 DEF Started
    <3>2. Started \in Worker /\ Started.at = "idle"
          /\ Started.item = w.item /\ Started.result = w.result
      BY <3>1 DEF Worker, Locations
    <3> QED BY <2>1, <3>2
  <2>2. CASE w.at # "stopped"
    BY <2>2 DEF Started
  <2> QED BY <2>1, <2>2
<1>21. CASE Resume
  BY <1>21, <1>s DEF Resume
<1>22. CASE UserStep
  <2>1. CASE \E i \in Items : Enqueue(i)
    BY <1>s, <2>1 DEF Enqueue
  <2>2. CASE UNCHANGED w
    BY <2>2
  <2> QED BY <1>22, <2>1, <2>2
          DEF UserStep, EnqueueFails, BeginChoice, ApproveRelay, KeepWaiting
<1>23. CASE EnvironmentStep
  BY <1>23 DEF EnvironmentStep, PolicyExpires, WindowElapses, Flip
<1>24. CASE Crash
  BY <1>24, StoppedWorker DEF Crash
<1>25. CASE UNCHANGED vars
  BY <1>25 DEF vars
<1> QED
  BY <1>1, <1>2, <1>3, <1>4, <1>5, <1>6, <1>7, <1>8, <1>9, <1>10, <1>11,
     <1>12, <1>13, <1>14, <1>15, <1>16, <1>17, <1>18, <1>19, <1>20, <1>21,
     <1>22, <1>23, <1>24, <1>25 DEF Next, WorkerStep

-----------------------------------------------------------------------------
(***************************************************************************)
(* Types.                                                                  *)
(***************************************************************************)
TypeInv == TypeOK /\ WorkerWellPlaced

LEMMA NoSessionType == NoSession \in Session
BY DEF NoSession, Session

\* What the session operators return is a session for each DM.
LEMMA SessionTypes ==
  ASSUME session \in [DMs -> Session], NEW i
  PROVE  /\ Cleared(i) \in [DMs -> Session]
         /\ AfterFailure(i) \in [DMs -> Session]
<1>1. \A s \in Session : Noted(s) \in Session
  BY DEF Noted, Session
<1> QED BY <1>1, NoSessionType DEF Cleared, AfterFailure

LEMMA TypeInit == Init => TypeInv
<1> SUFFICES ASSUME Init PROVE TypeInv
  OBVIOUS
<1>1. TypeOK
  BY ConstantsAssumption, StoppedWorker, NoSessionType
     DEF Init, TypeOK, ReleaseStates
<1>2. WorkerWellPlaced
  BY StoppedWorker
     DEF Init, WorkerWellPlaced, BetweenMessages, DMOnly, GateOnly
<1> QED BY <1>1, <1>2 DEF TypeInv

\* The outbox and the environment, given a well placed worker.
LEMMA OutboxTypes ==
  TypeInv /\ [Next]_vars
    => /\ rel' \in [Items -> ReleaseStates]
       /\ session' \in [DMs -> Session]
       /\ policy' \subseteq Contacts
       /\ choosing' \in DMs \cup {NoItem}
<1> SUFFICES ASSUME TypeInv, [Next]_vars
             PROVE  /\ rel' \in [Items -> ReleaseStates]
                    /\ session' \in [DMs -> Session]
                    /\ policy' \subseteq Contacts
                    /\ choosing' \in DMs \cup {NoItem}
  OBVIOUS
<1>t. /\ rel \in [Items -> ReleaseStates]
      /\ session \in [DMs -> Session]
      /\ policy \subseteq Contacts
      /\ choosing \in DMs \cup {NoItem}
  BY DEF TypeInv, TypeOK
<1>s. \A i : /\ Cleared(i) \in [DMs -> Session]
             /\ AfterFailure(i) \in [DMs -> Session]
  BY <1>t, SessionTypes
<1>q. ASSUME NEW s \in [DMs -> Session], Requeue(s)
      PROVE  /\ rel' \in [Items -> ReleaseStates]
             /\ session' \in [DMs -> Session]
             /\ policy' = policy /\ choosing' = choosing
  BY <1>q, <1>t DEF Requeue, ReleaseStates
<1>u. UNCHANGED <<outbox, choosing>> => UNCHANGED <<rel, session, policy, choosing>>
  BY DEF outbox
<1>1. CASE StartPass \/ NextItem \/ EndPass
  BY <1>1, <1>t, <1>u DEF StartPass, NextItem, EndPass
<1>2. CASE CheckFloor
  BY <1>2, <1>t, <1>s, <1>q, <1>u DEF CheckFloor, Proceed
<1>3. CASE CheckAnonymous
  BY <1>3, <1>t, <1>s, <1>q, <1>u DEF CheckAnonymous, Proceed
<1>4. CASE CheckApproval
  BY <1>4, <1>t, <1>s DEF CheckApproval
<1>5. CASE HoldForApproval \/ CheckAttestation
  BY <1>5, <1>t, <1>q, <1>u DEF HoldForApproval, CheckAttestation, Proceed
<1>6. CASE MarkReleasing
  BY <1>6, <1>t DEF MarkReleasing, ReleaseStates
<1>7. CASE ReadConsent \/ ReadHidden \/ ChooseRoute \/ SendDirect \/ Deposit
  BY <1>7, <1>t, <1>u DEF ReadConsent, ReadHidden, ChooseRoute, SendDirect, Deposit
<1>8. CASE StoreGate \/ PublishTor \/ PublishRns \/ AttemptRaises \/ Resume
  BY <1>8, <1>t, <1>u DEF StoreGate, PublishTor, PublishRns, AttemptRaises, Resume
<1>9. CASE SettleDelivered
  BY <1>9, <1>t, <1>s DEF SettleDelivered, ReleaseStates
<1>10. CASE SettleFailed
  BY <1>10, <1>t, <1>s DEF SettleFailed, ReleaseStates
<1>11. CASE \E i \in Items : Enqueue(i) \/ EnqueueFails(i)
  BY <1>11, <1>t, <1>u DEF Enqueue, EnqueueFails, ReleaseStates
<1>12. CASE \E i \in DMs : BeginChoice(i)
  BY <1>12, <1>t DEF BeginChoice, outbox
<1>13. CASE ApproveRelay
  BY <1>13, <1>t, ConstantsAssumption DEF ApproveRelay, Session
<1>14. CASE KeepWaiting
  BY <1>14, <1>t DEF KeepWaiting, Session
<1>15. CASE EnvironmentStep
  <2>1. CASE \E c \in Contacts : PolicyExpires(c)
    BY <2>1, <1>t DEF PolicyExpires
  <2>2. CASE \E i \in DMs : WindowElapses(i)
    BY <2>2, <1>t DEF WindowElapses, Session
  <2>3. CASE \E c \in Conditions : Flip(c)
    BY <2>3, <1>t, <1>u DEF Flip
  <2> QED BY <1>15, <2>1, <2>2, <2>3 DEF EnvironmentStep
<1>16. CASE Crash
  BY <1>16, <1>t, NoSessionType DEF Crash, ReleaseStates
<1>17. CASE UNCHANGED vars
  BY <1>17, <1>t, <1>u DEF vars
<1> QED
  BY <1>1, <1>2, <1>3, <1>4, <1>5, <1>6, <1>7, <1>8, <1>9, <1>10, <1>11,
     <1>12, <1>13, <1>14, <1>15, <1>16, <1>17 DEF Next, WorkerStep, UserStep

LEMMA OtherTypes ==
  TypeInv /\ [Next]_vars
    => /\ up' \subseteq Conditions
       /\ stored' \subseteq Gates
       /\ faults' \in 0..MaxFaults
       /\ sends' \in [Items -> Nat]
       /\ relayed' \subseteq DMs
       /\ asked' \subseteq Contacts
       /\ held' \subseteq Watch
<1> SUFFICES ASSUME TypeInv, [Next]_vars
             PROVE  /\ up' \subseteq Conditions
                    /\ stored' \subseteq Gates
                    /\ faults' \in 0..MaxFaults
                    /\ sends' \in [Items -> Nat]
                    /\ relayed' \subseteq DMs
                    /\ asked' \subseteq Contacts
                    /\ held' \subseteq Watch
  OBVIOUS
<1>t. /\ up \subseteq Conditions
      /\ stored \subseteq Gates
      /\ faults \in 0..MaxFaults
      /\ sends \in [Items -> Nat]
      /\ relayed \subseteq DMs
      /\ asked \subseteq Contacts
      /\ held \subseteq Watch
  BY DEF TypeInv, TypeOK
<1>p. /\ w.at \in DMOnly => w.item \in DMs
      /\ w.at \in GateOnly => w.item \in Gates
  BY DEF TypeInv, WorkerWellPlaced
<1>f. Fault => faults' \in 0..MaxFaults
  BY <1>t, ConstantsAssumption DEF Fault
<1>c. \A i : Carry(i) => sends' \in [Items -> Nat]
  <2> SUFFICES ASSUME NEW i, Carry(i) PROVE sends' \in [Items -> Nat]
    OBVIOUS
  <2>1. CASE i \in Items
    <3>1. sends[i] + 1 \in Nat
      BY <1>t, <2>1
    <3> QED BY <1>t, <3>1 DEF Carry
  <2>2. CASE i \notin Items
    BY <1>t, <2>2 DEF Carry
  <2> QED BY <2>1, <2>2
<1>h. UNCHANGED history => UNCHANGED <<sends, relayed, asked>>
  BY DEF history
<1>w. \A n \in Watch : \A c : Starting(n, c) \subseteq Watch
  BY DEF Starting
<1>1. CASE StartPass
  BY <1>1, <1>t, <1>h, <1>w DEF StartPass, Watch
<1>2. CASE NextItem
  BY <1>2, <1>t, <1>h, <1>w DEF NextItem, Watch
<1>3. CASE EndPass
  BY <1>3, <1>t, <1>h DEF EndPass
<1>4. CASE CheckFloor \/ CheckAnonymous \/ HoldForApproval \/ CheckAttestation
  BY <1>4, <1>t, <1>h, <1>f
     DEF CheckFloor, CheckAnonymous, HoldForApproval, CheckAttestation, Requeue,
         Proceed, ThreadDies
<1>5. CASE CheckApproval
  BY <1>5, <1>t, <1>h DEF CheckApproval
<1>6. CASE MarkReleasing
  BY <1>6, <1>t, <1>h, <1>w, <1>f DEF MarkReleasing, ThreadDies, Watch
<1>7. CASE ReadConsent \/ ReadHidden \/ ChooseRoute
  BY <1>7, <1>t, <1>h DEF ReadConsent, ReadHidden, ChooseRoute
<1>8. CASE SendDirect
  BY <1>8, <1>t, <1>c DEF SendDirect
<1>9. CASE Deposit
  BY <1>9, <1>t, <1>c, <1>p DEF Deposit, DMOnly
<1>10. CASE StoreGate
  BY <1>10, <1>t, <1>h, <1>p DEF StoreGate, GateOnly
<1>11. CASE PublishTor \/ PublishRns
  BY <1>11, <1>t, <1>c DEF PublishTor, PublishRns
<1>12. CASE SettleDelivered \/ SettleFailed \/ AttemptRaises
  BY <1>12, <1>t, <1>h, <1>f
     DEF SettleDelivered, SettleFailed, AttemptRaises, ThreadDies
<1>13. CASE Resume
  BY <1>13, <1>t, <1>h DEF Resume
<1>14. CASE \E i \in Items : Enqueue(i) \/ EnqueueFails(i)
  BY <1>14, <1>t, <1>h, <1>f DEF Enqueue, EnqueueFails
<1>15. CASE (\E i \in DMs : BeginChoice(i)) \/ KeepWaiting
  BY <1>15, <1>t, <1>h DEF BeginChoice, KeepWaiting
<1>16. CASE ApproveRelay
  <2>1. choosing \in DMs
    BY <1>16 DEF ApproveRelay, TypeInv, TypeOK
  <2> QED BY <1>16, <1>t, <1>f, <2>1, ConstantsAssumption DEF ApproveRelay
<1>17. CASE EnvironmentStep
  <2>1. CASE \E c \in Contacts : PolicyExpires(c)
    BY <2>1, <1>t, <1>h DEF PolicyExpires
  <2>2. CASE \E i \in DMs : WindowElapses(i)
    BY <2>2, <1>t, <1>h DEF WindowElapses
  <2>3. CASE \E c \in Conditions : Flip(c)
    BY <2>3, <1>t, <1>h DEF Flip
  <2> QED BY <1>17, <2>1, <2>2, <2>3 DEF EnvironmentStep
<1>18. CASE Crash
  BY <1>18, <1>t, <1>h, <1>f DEF Crash
<1>19. CASE UNCHANGED vars
  BY <1>19, <1>t, <1>h DEF vars
<1> QED
  BY <1>1, <1>2, <1>3, <1>4, <1>5, <1>6, <1>7, <1>8, <1>9, <1>10, <1>11,
     <1>12, <1>13, <1>14, <1>15, <1>16, <1>17, <1>18, <1>19
     DEF Next, WorkerStep, UserStep

LEMMA TypeStep == TypeInv /\ [Next]_vars => TypeInv'
BY WorkerStepInv, OutboxTypes, OtherTypes DEF TypeInv, TypeOK, WorkerInv

LEMMA TypeInvariance == Spec => []TypeInv
BY TypeInit, TypeStep, PTL DEF Spec

\* Every reachable state of the pipeline is well typed.
THEOREM TypeCorrect == Spec => []TypeOK
<1>1. TypeInv => TypeOK
  BY DEF TypeInv
<1> QED BY <1>1, TypeInvariance, PTL

-----------------------------------------------------------------------------
(***************************************************************************)
(* At most one handing over per fault.                                     *)
(*                                                                         *)
(* The bound alone is not inductive: that a message just handed over is    *)
(* not taken again rests on the worker holding only messages that are not  *)
(* delivered, each at one place of its pass, and on a handing over being   *)
(* followed by mark_delivered or by a fault.                               *)
(***************************************************************************)
Undelivered(i) == rel[i] \in {"queued", "releasing"}
InHand ==
  /\ \A i \in w.todo : Undelivered(i)
  /\ w.item \in Items => Undelivered(w.item)
  /\ w.item \notin w.todo
HandedOver(i) == rel[i] = "delivered" \/ (w.item = i /\ w.result = "ok")
SendsCounted ==
  \A i \in Items : sends[i] <= IF HandedOver(i) THEN 1 + faults ELSE faults
SendInv == InHand /\ SendsCounted

\* The locals that Moves does not speak of.
LEMMA MovesKeep ==
  ASSUME w \in Worker
  PROVE  /\ \A l : Goto(l) => /\ w'.todo = w.todo
                              /\ w'.consent = w.consent
                              /\ w'.hidden = w.hidden
         /\ \A r : Return(r) => w'.todo = w.todo /\ w'.consent = w.consent
         /\ NextMessage => w'.todo = w.todo /\ w'.consent = FALSE
BY DEF Goto, Return, NextMessage, Worker

LEMMA SendInit == Init => SendInv
<1> SUFFICES ASSUME Init PROVE SendInv
  OBVIOUS
<1>1. w.todo = {} /\ w.item = NoItem /\ w.result = "none"
  BY DEF Init, Stopped
<1>2. InHand
  BY <1>1, ConstantsAssumption DEF InHand
<1>3. \A i \in Items : sends[i] = 0
  BY DEF Init
<1>4. \A b \in BOOLEAN : 0 <= IF b THEN 1 + 0 ELSE 0
  OBVIOUS
<1>5. SendsCounted
  BY <1>3, <1>4 DEF Init, SendsCounted, HandedOver
<1> QED BY <1>2, <1>5 DEF SendInv

\* A step that hands nothing over keeps the invariant when it delivers nothing,
\* takes nothing up, and forgets a handing over only at the price of a fault.
LEMMA SendKept ==
  ASSUME TypeInv, TypeInv', SendInv,
         sends' = sends,
         faults' >= faults,
         w'.todo \subseteq w.todo,
         w'.item \in {w.item, NoItem},
         \A i \in Items : Undelivered(i) => Undelivered(i)',
         \A i \in Items : HandedOver(i) => HandedOver(i)' \/ faults' = faults + 1
  PROVE  SendInv'
<1>t. /\ sends \in [Items -> Nat] /\ faults \in Nat /\ faults' \in Nat
      /\ w.todo \subseteq Items
  BY ConstantsAssumption DEF TypeInv, TypeOK, Worker
<1>1. InHand'
  <2>1. \A i \in w'.todo : Undelivered(i)'
    BY <1>t DEF SendInv, InHand
  <2>2. w'.item \in Items => Undelivered(w.item)' /\ w'.item = w.item
    BY ConstantsAssumption DEF SendInv, InHand
  <2>3. w'.item \notin w'.todo
    BY <1>t, ConstantsAssumption DEF SendInv, InHand
  <2>4. w'.item \in Items => rel'[w'.item] \in {"queued", "releasing"}
    BY <2>2 DEF Undelivered
  <2> QED BY <2>1, <2>3, <2>4 DEF InHand, Undelivered
<1>2. ASSUME NEW i \in Items
      PROVE  sends'[i] <= IF HandedOver(i)' THEN 1 + faults' ELSE faults'
  <2>1. sends[i] <= IF HandedOver(i) THEN 1 + faults ELSE faults
    BY DEF SendInv, SendsCounted
  <2>2. CASE HandedOver(i)
    BY <1>t, <2>1, <2>2
  <2>3. CASE ~HandedOver(i)
    BY <1>t, <2>1, <2>3
  <2> QED BY <2>2, <2>3
<1> QED BY <1>1, <1>2 DEF SendInv, SendsCounted, HandedOver

\* A handing over of the message in hand makes its result "ok".
LEMMA SendOnce ==
  ASSUME TypeInv, TypeInv', SendInv,
         w.item \in Items, w.at # "settle",
         Carry(w.item), Return("ok"),
         UNCHANGED <<rel, faults>>
  PROVE  SendInv'
<1>t. /\ sends \in [Items -> Nat] /\ faults \in Nat /\ w \in Worker
  BY ConstantsAssumption DEF TypeInv, TypeOK
<1>m. w'.todo = w.todo /\ w'.item = w.item /\ w'.result = "ok"
  BY <1>t, Moves, MovesKeep
<1>n. ~HandedOver(w.item)
  BY DEF TypeInv, WorkerWellPlaced, SendInv, InHand, HandedOver, Undelivered
<1>1. InHand'
  BY <1>m DEF SendInv, InHand, Undelivered
<1>2. ASSUME NEW i \in Items
      PROVE  sends'[i] <= IF HandedOver(i)' THEN 1 + faults' ELSE faults'
  <2>1. sends[i] <= IF HandedOver(i) THEN 1 + faults ELSE faults
    BY DEF SendInv, SendsCounted
  <2>2. CASE i = w.item
    <3>1. sends'[i] = sends[i] + 1
      BY <1>t, <2>2 DEF Carry
    <3>2. HandedOver(i)'
      BY <1>m, <2>2 DEF HandedOver
    <3> QED BY <1>t, <1>n, <2>1, <2>2, <3>1, <3>2
  <2>3. CASE i # w.item
    <3>1. sends'[i] = sends[i]
      BY <1>t, <2>3 DEF Carry
    <3>2. HandedOver(i)' <=> HandedOver(i)
      BY <1>m, <2>3 DEF HandedOver
    <3> QED BY <1>t, <2>1, <3>1, <3>2
  <2> QED BY <2>2, <2>3
<1> QED BY <1>1, <1>2 DEF SendInv, SendsCounted, HandedOver

LEMMA SendStep == TypeInv /\ SendInv /\ [Next]_vars => SendInv'
<1> SUFFICES ASSUME TypeInv, SendInv, [Next]_vars PROVE SendInv'
  OBVIOUS
<1>t. /\ TypeInv'
      /\ w \in Worker /\ w' \in Worker
      /\ rel \in [Items -> ReleaseStates]
      /\ faults \in Nat
  BY TypeStep, ConstantsAssumption DEF TypeInv, TypeOK
<1>u. /\ UNCHANGED outbox => UNCHANGED <<rel, session, policy>>
      /\ UNCHANGED history => UNCHANGED <<sends, relayed, asked>>
  BY DEF outbox, history
<1>g. \A l : Goto(l) => /\ w'.todo = w.todo /\ w'.item = w.item
                        /\ w'.result = w.result
  BY <1>t, MovesKeep DEF Goto, Worker
<1>r. \A r : Return(r) => w'.todo = w.todo /\ w'.item = w.item
  BY <1>t, MovesKeep DEF Return, Worker
<1>n. NextMessage => w'.todo = w.todo /\ w'.item = NoItem /\ w'.result = "none"
  BY <1>t, MovesKeep DEF NextMessage, Worker
<1>s. Stopped.todo = {} /\ Stopped.item = NoItem
  BY DEF Stopped
<1>i. w.at # "settle" => w.result = "none"
  BY DEF TypeInv, WorkerWellPlaced
<1>h. \A l : w.at = l /\ l \in DMOnly \cup GateOnly => w.item \in Items
  BY DEF TypeInv, WorkerWellPlaced, Items
\* Nothing is handed over, delivered or taken up.
<1>k. ASSUME UNCHANGED <<rel, sends, faults>>, w'.todo = w.todo,
             w'.item = w.item, w.result # "ok" \/ w'.result = w.result
      PROVE  SendInv'
  BY <1>k, <1>t, SendKept DEF HandedOver, Undelivered
<1>d. ASSUME UNCHANGED sends, ThreadDies, UNCHANGED rel
      PROVE  SendInv'
  BY <1>d, <1>t, <1>s, SendKept DEF HandedOver, Undelivered, ThreadDies, Fault
\* The message in hand goes back to the queue.
<1>b. ASSUME UNCHANGED <<sends, faults>>, NextMessage, w.result # "ok",
             rel' = [rel EXCEPT ![w.item] = "queued"]
      PROVE  SendInv'
  <2>1. \A j \in Items : Undelivered(j) => Undelivered(j)'
    BY <1>b, <1>t DEF Undelivered
  <2>2. \A j \in Items : HandedOver(j) => HandedOver(j)'
    BY <1>b, <1>t DEF HandedOver, SendInv, InHand, Undelivered
  <2> QED BY <1>b, <1>t, <1>n, <2>1, <2>2, SendKept
<1>q. \A x : Requeue(x) /\ w.at # "settle" => SendInv'
  BY <1>b, <1>d, <1>u, <1>i DEF Requeue
<1>p. \A l : Proceed(l) => SendInv'
  BY <1>k, <1>g, <1>u DEF Proceed
<1>1. CASE StartPass
  <2>1. w'.todo = Pending /\ w'.item = w.item /\ w'.result = w.result
    BY <1>1, <1>t DEF StartPass, Worker
  <2>2. w.item = NoItem
    BY <1>1 DEF StartPass, TypeInv, WorkerWellPlaced, BetweenMessages
  <2>3. UNCHANGED <<rel, sends, faults>>
    BY <1>1, <1>u DEF StartPass
  <2>4. InHand'
    BY <2>1, <2>2, <2>3, ConstantsAssumption DEF InHand, Pending, Undelivered
  <2>5. SendsCounted'
    BY <2>1, <2>3 DEF SendInv, SendsCounted, HandedOver
  <2> QED BY <2>4, <2>5 DEF SendInv
<1>2. CASE NextItem
  <2>1. PICK i \in w.todo : w' = [w EXCEPT !.at = "floor", !.item = i, !.todo = @ \ {i}]
    BY <1>2 DEF NextItem
  <2>2. w'.todo = w.todo \ {i} /\ w'.item = i /\ w'.result = w.result
    BY <1>t, <2>1 DEF Worker
  <2>3. UNCHANGED <<rel, sends, faults>> /\ w.result = "none"
    BY <1>2, <1>u, <1>i DEF NextItem
  <2>4. InHand'
    BY <2>2, <2>3 DEF SendInv, InHand, Undelivered
  <2>5. SendsCounted'
    BY <2>2, <2>3 DEF SendInv, SendsCounted, HandedOver
  <2> QED BY <2>4, <2>5 DEF SendInv
<1>3. CASE EndPass
  <2>1. w'.todo = {} /\ w'.item = NoItem /\ w.result # "ok"
    BY <1>3, <1>i DEF EndPass, Stopped
  <2> QED BY <1>3, <1>t, <1>u, <2>1, SendKept DEF EndPass, HandedOver, Undelivered
<1>4. CASE CheckFloor \/ CheckAnonymous \/ HoldForApproval \/ CheckAttestation
  BY <1>4, <1>q, <1>p
     DEF CheckFloor, CheckAnonymous, HoldForApproval, CheckAttestation
<1>5. CASE CheckApproval
  BY <1>5, <1>k, <1>g, <1>u DEF CheckApproval
<1>6. CASE MarkReleasing
  <2>1. CASE rel' = [rel EXCEPT ![w.item] = "releasing"] /\ Goto("consent") /\ UNCHANGED faults
    <3>1. \A j \in Items : Undelivered(j) => Undelivered(j)'
      BY <1>t, <2>1 DEF Undelivered
    <3>2. \A j \in Items : HandedOver(j) => HandedOver(j)'
      BY <1>t, <1>g, <2>1 DEF HandedOver, SendInv, InHand, Undelivered
    <3> QED BY <1>6, <1>t, <1>g, <1>u, <2>1, <3>1, <3>2, SendKept DEF MarkReleasing
  <2>2. CASE ThreadDies /\ UNCHANGED rel
    BY <1>6, <1>d, <1>u, <2>2 DEF MarkReleasing
  <2> QED BY <1>6, <2>1, <2>2 DEF MarkReleasing
<1>7. CASE ReadConsent \/ ReadHidden
  <2>1. UNCHANGED <<rel, sends, faults>> /\ w.result = "none"
    BY <1>7, <1>u, <1>i DEF ReadConsent, ReadHidden
  <2>2. w'.todo = w.todo /\ w'.item = w.item
    BY <1>7, <1>t, <1>g, <1>r DEF ReadConsent, ReadHidden, Worker
  <2> QED BY <1>k, <2>1, <2>2
<1>8. CASE ChooseRoute \/ StoreGate
  BY <1>8, <1>k, <1>g, <1>r, <1>u, <1>i DEF ChooseRoute, StoreGate
<1>9. CASE SendDirect
  <2>1. w.item \in Items /\ w.at # "settle" /\ w.result = "none"
    BY <1>9, <1>i, <1>h DEF SendDirect, DMOnly
  <2>2. CASE Carry(w.item) /\ Return("ok")
    BY <1>9, <1>t, <1>u, <2>1, <2>2, SendOnce DEF SendDirect
  <2>3. CASE UNCHANGED sends
    BY <1>9, <1>k, <1>g, <1>r, <1>u, <2>1, <2>3 DEF SendDirect
  <2> QED BY <1>9, <2>2, <2>3 DEF SendDirect
<1>10. CASE Deposit
  <2>1. w.item \in Items /\ w.at # "settle" /\ w.result = "none"
    BY <1>10, <1>i, <1>h DEF Deposit, DMOnly
  <2>2. CASE Carry(w.item) /\ Return("ok")
    BY <1>10, <1>t, <1>u, <2>1, <2>2, SendOnce DEF Deposit
  <2>3. CASE UNCHANGED sends /\ Return("retry")
    BY <1>10, <1>k, <1>r, <1>u, <2>1, <2>3 DEF Deposit
  <2> QED BY <1>10, <2>2, <2>3 DEF Deposit
<1>11. CASE PublishTor \/ PublishRns
  <2>1. w.item \in Items /\ w.at # "settle" /\ w.result = "none"
    BY <1>11, <1>i, <1>h DEF PublishTor, PublishRns, GateOnly
  <2>2. UNCHANGED <<rel, faults>>
    BY <1>11, <1>u DEF PublishTor, PublishRns
  <2>3. CASE Carry(w.item) /\ Return("ok")
    BY <1>t, <2>1, <2>2, <2>3, SendOnce
  <2>4. CASE UNCHANGED sends
    BY <1>11, <1>k, <1>g, <1>r, <2>1, <2>2, <2>4 DEF PublishTor, PublishRns
  <2> QED BY <1>11, <2>3, <2>4 DEF PublishTor, PublishRns
<1>12. CASE SettleDelivered
  <2>1. CASE ThreadDies /\ UNCHANGED rel
    BY <1>12, <1>d, <1>u, <2>1 DEF SettleDelivered
  <2>2. CASE rel' = [rel EXCEPT ![w.item] = "delivered"] /\ NextMessage /\ UNCHANGED faults
    <3>1. UNCHANGED <<sends, faults>> /\ w.result = "ok"
      BY <1>12, <1>u, <2>2 DEF SettleDelivered
    <3>2. InHand'
      <4>1. \A i \in w.todo : i \in Items /\ rel'[i] = rel[i]
        BY <1>t, <2>2 DEF SendInv, InHand, Worker
      <4> QED BY <1>n, <2>2, <4>1, ConstantsAssumption DEF SendInv, InHand, Undelivered
    <3>3. \A i \in Items : HandedOver(i) => rel'[i] = "delivered"
      BY <1>t, <2>2 DEF HandedOver
    <3>4. SendsCounted'
      <4>1. ASSUME NEW i \in Items
            PROVE  sends'[i] <= IF HandedOver(i)' THEN 1 + faults' ELSE faults'
        <5>1. sends[i] <= IF HandedOver(i) THEN 1 + faults ELSE faults
          BY DEF SendInv, SendsCounted
        <5>2. sends[i] \in Nat
          BY DEF TypeInv, TypeOK
        <5>3. HandedOver(i) => HandedOver(i)'
          BY <3>3 DEF HandedOver
        <5> QED BY <1>t, <3>1, <5>1, <5>2, <5>3
      <4> QED BY <4>1 DEF SendsCounted, HandedOver
    <3> QED BY <3>2, <3>4 DEF SendInv
  <2> QED BY <1>12, <2>1, <2>2 DEF SettleDelivered
<1>13. CASE SettleFailed
  BY <1>13, <1>b, <1>d, <1>u DEF SettleFailed
<1>14. CASE AttemptRaises
  <2>1. w'.todo = w.todo /\ w'.item = w.item /\ w.result = "none"
    BY <1>14, <1>r, <1>i DEF AttemptRaises
  <2> QED BY <1>14, <1>t, <1>u, <2>1, SendKept
          DEF AttemptRaises, Fault, HandedOver, Undelivered
<1>15. ASSUME w' = Started, UNCHANGED <<sends, faults>>,
              \A i \in Items : rel'[i] = rel[i] \/ rel[i] = "absent"
       PROVE  SendInv'
  <2>1. w'.todo = w.todo /\ w'.item = w.item /\ w'.result = w.result
    BY <1>15, <1>t DEF Started, Worker
  <2> QED BY <1>15, <1>t, <2>1, SendKept DEF HandedOver, Undelivered
<1>16. CASE Resume
  BY <1>16, <1>15, <1>u DEF Resume
<1>17. CASE UserStep
  <2>1. CASE \E i \in Items : Enqueue(i)
    BY <2>1, <1>15, <1>t, <1>u DEF Enqueue
  <2>2. CASE \E i \in Items : EnqueueFails(i)
    BY <2>2, <1>t, <1>u, SendKept DEF EnqueueFails, Fault, HandedOver, Undelivered
  <2>3. CASE \E i \in DMs : BeginChoice(i)
    BY <2>3, <1>k, <1>u DEF BeginChoice
  <2>4. CASE ApproveRelay
    BY <2>4, <1>t, SendKept DEF ApproveRelay, Fault, HandedOver, Undelivered
  <2>5. CASE KeepWaiting
    BY <2>5, <1>k, <1>u DEF KeepWaiting
  <2> QED BY <1>17, <2>1, <2>2, <2>3, <2>4, <2>5 DEF UserStep
<1>18. CASE EnvironmentStep
  BY <1>18, <1>k, <1>u DEF EnvironmentStep, PolicyExpires, WindowElapses, Flip
<1>19. CASE Crash
  BY <1>19, <1>t, <1>s, <1>u, SendKept DEF Crash, Fault, HandedOver, Undelivered
<1>20. CASE UNCHANGED vars
  BY <1>20, <1>k, <1>u DEF vars
<1> QED
  BY <1>1, <1>2, <1>3, <1>4, <1>5, <1>6, <1>7, <1>8, <1>9, <1>10, <1>11, <1>12,
     <1>13, <1>14, <1>16, <1>17, <1>18, <1>19, <1>20 DEF Next, WorkerStep

\* A message is handed to a carrier at most once more than there were crashes,
\* failed saves and transport exceptions.
THEOREM AtMostOneSendPerFault == Spec => []OneSendPerFault
<1>1. TypeInv /\ SendInv => OneSendPerFault
  BY ConstantsAssumption
     DEF TypeInv, TypeOK, SendInv, SendsCounted, OneSendPerFault
<1> QED BY <1>1, TypeInit, TypeStep, SendInit, SendStep, PTL DEF Spec

-----------------------------------------------------------------------------
(***************************************************************************)
(* Relay only for contacts the user chose.                                 *)
(***************************************************************************)
ConsentIsTheUsers ==
  /\ policy \subseteq asked
  /\ \A i \in DMs : session[i].approved => ContactOf[i] \in asked
  /\ w.consent => w.item \in DMs /\ ContactOf[w.item] \in asked
DepositHasConsent ==
  w.at = "deposit" /\ SecureMode /\ ~w.hidden => w.consent
RelayInv ==
  ApprovalEnabled => /\ ConsentIsTheUsers
                     /\ DepositHasConsent
                     /\ \A i \in relayed : ContactOf[i] \in asked

LEMMA RelayInit == Init => RelayInv
<1> SUFFICES ASSUME Init PROVE RelayInv
  OBVIOUS
<1>1. w.at = "stopped" /\ w.consent = FALSE
  BY DEF Init, Stopped
<1>2. \A i \in DMs : session[i].approved = FALSE
  BY DEF Init, NoSession
<1> QED BY <1>1, <1>2 DEF Init, RelayInv, ConsentIsTheUsers, DepositHasConsent

\* Only the user's choice approves: whatever else the pipeline writes into a
\* session leaves its approval as it was or withdraws it.
NoNewApproval == \A i \in DMs : session'[i].approved => session[i].approved

LEMMA NoNewApprovals ==
  ASSUME session \in [DMs -> Session], NEW j
  PROVE  session' \in {session, Cleared(j), AfterFailure(j)} => NoNewApproval
<1>1. \A s \in Session : Noted(s).approved = s.approved
  BY DEF Noted, Session
<1>2. \A i \in DMs : Cleared(j)[i].approved => session[i].approved
  BY DEF Cleared, NoSession
<1>3. \A i \in DMs : AfterFailure(j)[i].approved => session[i].approved
  <2> SUFFICES ASSUME NEW i \in DMs
               PROVE  AfterFailure(j)[i].approved => session[i].approved
    OBVIOUS
  <2>1. CASE ApprovalEnabled /\ i = j
    <3>1. AfterFailure(j)[i] = Noted(session[i])
      BY <2>1 DEF AfterFailure
    <3> QED BY <1>1, <3>1
  <2>2. CASE ~(ApprovalEnabled /\ i = j)
    <3>1. AfterFailure(j)[i] = session[i]
      BY <2>2 DEF AfterFailure
    <3> QED BY <3>1
  <2> QED BY <2>1, <2>2
<1> QED BY <1>2, <1>3 DEF NoNewApproval

LEMMA RelayStep == TypeInv /\ RelayInv /\ [Next]_vars => RelayInv'
<1> SUFFICES ASSUME TypeInv, RelayInv, [Next]_vars, ApprovalEnabled
             PROVE  /\ ConsentIsTheUsers'
                    /\ DepositHasConsent'
                    /\ \A i \in relayed' : ContactOf[i] \in asked'
  BY DEF RelayInv
<1>t. /\ w \in Worker
      /\ session \in [DMs -> Session]
      /\ choosing \in DMs \cup {NoItem}
  BY DEF TypeInv, TypeOK
<1>a. /\ policy \subseteq asked
      /\ \A i \in DMs : session[i].approved => ContactOf[i] \in asked
      /\ w.consent => w.item \in DMs /\ ContactOf[w.item] \in asked
      /\ w.at = "deposit" /\ SecureMode /\ ~w.hidden => w.consent
      /\ \A i \in relayed : ContactOf[i] \in asked
  BY DEF RelayInv, ConsentIsTheUsers, DepositHasConsent
<1> DEFINE Goal == /\ ConsentIsTheUsers'
                   /\ DepositHasConsent'
                   /\ \A i \in relayed' : ContactOf[i] \in asked'
           Calm == /\ policy' \subseteq policy
                   /\ NoNewApproval
                   /\ UNCHANGED <<relayed, asked>>
\* Nobody chose, and the worker's consent is gone or still for its message.
<1>k. ASSUME Calm, w'.consent => w.consent /\ w'.item = w.item, w'.at # "deposit"
      PROVE  Goal
  BY <1>a, <1>k DEF ConsentIsTheUsers, DepositHasConsent, NoNewApproval
<1>y. ASSUME Calm, w' = w PROVE Goal
  BY <1>a, <1>y DEF ConsentIsTheUsers, DepositHasConsent, NoNewApproval
<1>u. UNCHANGED outbox => UNCHANGED <<session, policy>>
  BY DEF outbox
<1>v. UNCHANGED history => UNCHANGED <<relayed, asked>>
  BY DEF history
<1>x. \A j : session' \in {session, Cleared(j), AfterFailure(j)} => NoNewApproval
  BY <1>t, NoNewApprovals
<1>g. \A l \in Locations : Goto(l) => /\ w'.consent = w.consent
                                      /\ w'.item = w.item /\ w'.at = l
  BY <1>t, MovesKeep, Moves
<1>r. \A r \in {"ok", "retry", "fallback"} :
        Return(r) => /\ w'.consent = w.consent
                     /\ w'.item = w.item /\ w'.at = "settle"
  BY <1>t, MovesKeep, Moves
<1>n. NextMessage => ~w'.consent /\ w'.at = "scan"
  BY <1>t, MovesKeep, Moves
<1>s. Stopped.consent = FALSE /\ Stopped.at = "stopped"
  BY DEF Stopped
<1>d. ThreadDies => ~w'.consent /\ w'.at # "deposit"
  BY <1>s DEF ThreadDies
<1>b. w.at \in BetweenMessages => ~w.consent
  BY <1>a, ConstantsAssumption
     DEF TypeInv, WorkerWellPlaced, BetweenMessages, Items
<1>q. \A s : Requeue(s) /\ s \in {session, Cleared(w.item), AfterFailure(w.item)}
        => Goal
  BY <1>k, <1>v, <1>x, <1>n, <1>d DEF Requeue
<1>p. \A l \in Locations \ {"deposit"} : Proceed(l) => Goal
  BY <1>k, <1>g, <1>u, <1>v, <1>x DEF Proceed
<1>1. CASE StartPass \/ NextItem \/ EndPass
  <2>1. Calm
    BY <1>1, <1>u, <1>v, <1>x DEF StartPass, NextItem, EndPass
  <2>2. ~w'.consent /\ w'.at # "deposit"
    BY <1>1, <1>t, <1>b, <1>s
       DEF StartPass, NextItem, EndPass, BetweenMessages, Worker, Stopped
  <2> QED BY <1>k, <2>1, <2>2
<1>2. CASE CheckFloor \/ CheckAnonymous \/ HoldForApproval \/ CheckAttestation
  BY <1>2, <1>q, <1>p
     DEF CheckFloor, CheckAnonymous, HoldForApproval, CheckAttestation, Locations
<1>3. CASE CheckApproval
  <2>1. Calm
    BY <1>3, <1>v, <1>x DEF CheckApproval
  <2>2. w'.consent = w.consent /\ w'.item = w.item /\ w'.at # "deposit"
    BY <1>3, <1>g DEF CheckApproval, Locations
  <2> QED BY <1>k, <2>1, <2>2
<1>4. CASE MarkReleasing
  <2>1. Calm
    BY <1>4, <1>v, <1>x DEF MarkReleasing
  <2>2. (w'.consent => w.consent /\ w'.item = w.item) /\ w'.at # "deposit"
    BY <1>4, <1>g, <1>d DEF MarkReleasing, Locations
  <2> QED BY <1>k, <2>1, <2>2
\* Consent is read off an approval or a grant, both of which the user made.
<1>5. CASE ReadConsent
  <2>1. Calm
    BY <1>5, <1>u, <1>v, <1>x DEF ReadConsent
  <2>2. CASE Return("retry") \/ Goto("store")
    BY <1>g, <1>r, <1>k, <2>1, <2>2 DEF Locations
  <2>3. CASE w.item \in DMs /\ w' = [w EXCEPT !.at = "hidden", !.consent = RelayConsent(w.item)]
    <3>1. RelayConsent(w.item) => ContactOf[w.item] \in asked
      BY <1>a, <2>3 DEF RelayConsent, PolicyGrants
    <3>2. w'.at = "hidden" /\ w'.item = w.item /\ w'.consent = RelayConsent(w.item)
      BY <1>t, <2>3 DEF Worker
    <3> QED BY <1>a, <2>1, <2>3, <3>1, <3>2
            DEF ConsentIsTheUsers, DepositHasConsent, NoNewApproval
  <2> QED BY <1>5, <2>2, <2>3 DEF ReadConsent
<1>6. CASE ReadHidden
  <2>1. Calm
    BY <1>6, <1>u, <1>v, <1>x DEF ReadHidden
  <2>2. w'.consent = w.consent /\ w'.item = w.item /\ w'.at # "deposit"
    BY <1>6, <1>t DEF ReadHidden, Worker
  <2> QED BY <1>k, <2>1, <2>2
\* The way to "deposit" without a hidden transport needs consent.
<1>7. CASE ChooseRoute
  <2>1. Calm
    BY <1>7, <1>u, <1>v, <1>x DEF ChooseRoute
  <2>2. CASE Return("retry") \/ Goto("direct") \/ Return("fallback")
    BY <1>g, <1>r, <1>k, <2>1, <2>2 DEF Locations
  <2>3. CASE Goto("deposit") /\ (w.hidden \/ ~SecureMode \/ w.consent)
    <3>1. /\ w'.consent = w.consent /\ w'.item = w.item /\ w'.hidden = w.hidden
      BY <1>t, <2>3, MovesKeep, Moves DEF Locations
    <3> QED BY <1>a, <2>1, <2>3, <3>1
            DEF ConsentIsTheUsers, DepositHasConsent, NoNewApproval
  <2> QED BY <1>7, <2>2, <2>3 DEF ChooseRoute
<1>8. CASE SendDirect
  <2>1. Calm
    BY <1>8, <1>u, <1>x DEF SendDirect
  <2>2. CASE Return("retry") \/ Return("ok") \/ Return("fallback")
    BY <1>r, <1>k, <2>1, <2>2
  <2>3. CASE Goto("deposit") /\ w.consent
    <3>1. w'.consent = w.consent /\ w'.item = w.item
      BY <1>g, <2>3 DEF Locations
    <3> QED BY <1>a, <2>1, <2>3, <3>1
            DEF ConsentIsTheUsers, DepositHasConsent, NoNewApproval
  <2> QED BY <1>8, <2>2, <2>3 DEF SendDirect
\* What is left on the relay without a hidden transport has the user's consent.
<1>9. CASE Deposit
  <2>1. UNCHANGED <<session, policy, asked>>
    BY <1>9, <1>u DEF Deposit
  <2>2. w'.consent = w.consent /\ w'.item = w.item /\ w'.at = "settle"
    BY <1>9, <1>r DEF Deposit
  <2>3. \A i \in relayed' : ContactOf[i] \in asked
    BY <1>9, <1>a DEF Deposit
  <2> QED BY <1>a, <2>1, <2>2, <2>3 DEF ConsentIsTheUsers, DepositHasConsent
<1>10. CASE StoreGate \/ PublishTor \/ PublishRns
  <2>1. Calm
    BY <1>10, <1>u, <1>v, <1>x DEF StoreGate, PublishTor, PublishRns
  <2>2. w'.consent = w.consent /\ w'.item = w.item /\ w'.at # "deposit"
    BY <1>10, <1>g, <1>r DEF StoreGate, PublishTor, PublishRns, Locations
  <2> QED BY <1>k, <2>1, <2>2
<1>11. CASE SettleDelivered \/ SettleFailed \/ AttemptRaises
  <2>1. Calm
    BY <1>11, <1>u, <1>v, <1>x DEF SettleDelivered, SettleFailed, AttemptRaises
  <2>2. (w'.consent => w.consent /\ w'.item = w.item) /\ w'.at # "deposit"
    BY <1>11, <1>n, <1>d, <1>r DEF SettleDelivered, SettleFailed, AttemptRaises
  <2> QED BY <1>k, <2>1, <2>2
<1>12. ASSUME w' = Started, Calm PROVE Goal
  <2>1. w'.consent = w.consent /\ w'.item = w.item
    BY <1>12, <1>t DEF Started, Worker
  <2>2. w'.at # "deposit" \/ w' = w
    BY <1>12, <1>t DEF Started, Worker
  <2> QED BY <1>12, <1>k, <1>y, <2>1, <2>2
<1>13. CASE Resume
  BY <1>13, <1>12, <1>u, <1>v, <1>x DEF Resume
<1>14. CASE UserStep
  <2>1. CASE \E i \in Items : Enqueue(i)
    BY <2>1, <1>12, <1>v, <1>x DEF Enqueue
  <2>2. CASE \E i \in Items : EnqueueFails(i)
    BY <2>2, <1>y, <1>u, <1>v, <1>x DEF EnqueueFails
  <2>3. CASE \E i \in DMs : BeginChoice(i)
    BY <2>3, <1>y, <1>u, <1>v, <1>x DEF BeginChoice
  <2>4. CASE ApproveRelay
    <3>1. asked' = asked \cup {ContactOf[choosing]} /\ w' = w /\ relayed' = relayed
      BY <2>4 DEF ApproveRelay
    <3>2. policy' \subseteq asked'
      BY <2>4, <1>a, <3>1 DEF ApproveRelay
    <3>3. \A i \in DMs : session'[i].approved => ContactOf[i] \in asked'
      BY <2>4, <1>a, <1>t, <3>1 DEF ApproveRelay
    <3> QED BY <1>a, <3>1, <3>2, <3>3 DEF ConsentIsTheUsers, DepositHasConsent
  <2>5. CASE KeepWaiting
    <3>1. NoNewApproval
      BY <2>5, <1>t DEF KeepWaiting, NoNewApproval, Session
    <3> QED BY <2>5, <1>y, <1>v, <3>1 DEF KeepWaiting
  <2> QED BY <1>14, <2>1, <2>2, <2>3, <2>4, <2>5 DEF UserStep
<1>15. CASE EnvironmentStep
  <2>1. CASE \E c \in Contacts : PolicyExpires(c)
    BY <2>1, <1>y, <1>v, <1>x DEF PolicyExpires
  <2>2. CASE \E i \in DMs : WindowElapses(i)
    <3>1. NoNewApproval
      BY <2>2, <1>t DEF WindowElapses, NoNewApproval, Session
    <3> QED BY <2>2, <1>y, <1>v, <3>1 DEF WindowElapses
  <2>3. CASE \E c \in Conditions : Flip(c)
    BY <2>3, <1>y, <1>u, <1>v, <1>x DEF Flip
  <2> QED BY <1>15, <2>1, <2>2, <2>3 DEF EnvironmentStep
<1>16. CASE Crash
  <2>1. NoNewApproval
    BY <1>16 DEF Crash, NoNewApproval, NoSession
  <2> QED BY <1>16, <1>k, <1>s, <1>v, <2>1 DEF Crash
<1>17. CASE UNCHANGED vars
  BY <1>17, <1>y, <1>u, <1>v, <1>x DEF vars
<1> QED
  BY <1>1, <1>2, <1>3, <1>4, <1>5, <1>6, <1>7, <1>8, <1>9, <1>10, <1>11,
     <1>13, <1>14, <1>15, <1>16, <1>17 DEF Next, WorkerStep

\* With approvals on, a secure DM is on the relay for want of a private route
\* only if the user chose "Send via relay" for its contact.
THEOREM RelayNeedsTheUser == Spec => []RelayOnlyIfAsked
<1>1. RelayInv => RelayOnlyIfAsked
  BY DEF RelayInv, RelayOnlyIfAsked
<1> QED BY <1>1, TypeInit, TypeStep, RelayInit, RelayStep, PTL DEF Spec

-----------------------------------------------------------------------------
(***************************************************************************)
(* Choices.  The invariant is inductive once sessions have their type: the *)
(* handlers write both flags of a choice, and a failure asks only the user *)
(* who has not chosen.                                                     *)
(***************************************************************************)
Settled(s) == /\ ~(s.approved /\ s.wait)
              /\ s.required => ~s.approved /\ ~s.wait
SessionsSettled == \A i \in DMs : Settled(session[i])

LEMMA SettledKept ==
  ASSUME session \in [DMs -> Session], SessionsSettled, NEW j,
         session' \in {session, Cleared(j), AfterFailure(j)}
  PROVE  SessionsSettled'
<1>1. \A s \in Session : Settled(s) => Settled(Noted(s))
  BY DEF Noted, Session, Settled
<1>2. Settled(NoSession)
  BY DEF NoSession, Settled
<1> SUFFICES ASSUME NEW i \in DMs PROVE Settled(session'[i])
  BY DEF SessionsSettled, Settled
<1>3. Settled(session[i]) /\ session[i] \in Session
  BY DEF SessionsSettled
<1>4. session'[i] \in {session[i], NoSession, Noted(session[i])}
  BY DEF Cleared, AfterFailure
<1> QED BY <1>1, <1>2, <1>3, <1>4

LEMMA SettledStep == TypeInv /\ SessionsSettled /\ [Next]_vars => SessionsSettled'
<1> SUFFICES ASSUME TypeInv, SessionsSettled, [Next]_vars PROVE SessionsSettled'
  OBVIOUS
<1>t. session \in [DMs -> Session] /\ choosing \in DMs \cup {NoItem}
  BY DEF TypeInv, TypeOK
<1>k. \A j : session' \in {session, Cleared(j), AfterFailure(j)} => SessionsSettled'
  BY <1>t, SettledKept
<1>u. UNCHANGED outbox => session' = session
  BY DEF outbox
\* What the worker writes into a session.
<1>1. CASE WorkerStep \/ AttemptRaises \/ Resume
  <2>1. session' \in {session, Cleared(w.item), AfterFailure(w.item)}
    <3> DEFINE G == session' \in {session, Cleared(w.item), AfterFailure(w.item)}
    <3>1. CASE StartPass \/ NextItem \/ EndPass
      BY <3>1, <1>u, Zenon DEF StartPass, NextItem, EndPass
    <3>2. \A s \in {session, Cleared(w.item), AfterFailure(w.item)} : Requeue(s) => G
      BY DEF Requeue
    <3>3. \A l : Proceed(l) => G
      BY <1>u DEF Proceed
    <3>4. CASE CheckFloor \/ CheckAnonymous \/ HoldForApproval \/ CheckAttestation
      BY <3>2, <3>3, <3>4
         DEF CheckFloor, CheckAnonymous, HoldForApproval, CheckAttestation
    <3>5. CASE CheckApproval
      BY <3>5 DEF CheckApproval
    <3>6. CASE ReadConsent \/ ReadHidden \/ ChooseRoute \/ SendDirect \/ Deposit
      BY <3>6, <1>u DEF ReadConsent, ReadHidden, ChooseRoute, SendDirect, Deposit
    <3>7. CASE StoreGate \/ PublishTor \/ PublishRns \/ AttemptRaises \/ Resume
      BY <3>7, <1>u DEF StoreGate, PublishTor, PublishRns, AttemptRaises, Resume
    <3>8. CASE SettleDelivered \/ SettleFailed
      BY <3>8 DEF SettleDelivered, SettleFailed
    <3>9. CASE MarkReleasing
      BY <3>9 DEF MarkReleasing
    <3> QED BY <1>1, <3>1, <3>4, <3>5, <3>6, <3>7, <3>8, <3>9 DEF WorkerStep
  <2> QED BY <1>k, <2>1
\* What a choice writes.
<1>2. ASSUME NEW i \in DMs, NEW s \in Session, Settled(s),
             session' = [session EXCEPT ![i] = s]
      PROVE  SessionsSettled'
  BY <1>2, <1>t DEF SessionsSettled, Settled
<1>3. CASE UserStep
  <2>1. CASE UNCHANGED session
    BY <1>k, <2>1
  <2>2. CASE ApproveRelay
    <3> DEFINE s == [session[choosing] EXCEPT !.approved = TRUE, !.wait = FALSE,
                                              !.required = FALSE]
    <3>1. choosing \in DMs /\ session' = [session EXCEPT ![choosing] = s]
      BY <1>t, <2>2 DEF ApproveRelay
    <3>2. s \in Session /\ Settled(s)
      BY <1>t, <3>1 DEF Session, Settled
    <3> QED BY <1>2, <3>1, <3>2
  <2>3. CASE KeepWaiting
    <3> DEFINE s == [session[choosing] EXCEPT !.approved = FALSE, !.wait = TRUE,
                                              !.required = FALSE]
    <3>1. choosing \in DMs /\ session' = [session EXCEPT ![choosing] = s]
      BY <1>t, <2>3 DEF KeepWaiting
    <3>2. s \in Session /\ Settled(s)
      BY <1>t, <3>1 DEF Session, Settled
    <3> QED BY <1>2, <3>1, <3>2
  <2> QED BY <1>3, <1>u, <2>1, <2>2, <2>3 DEF UserStep, Enqueue, EnqueueFails, BeginChoice
<1>4. CASE EnvironmentStep
  <2>1. CASE UNCHANGED session
    BY <1>k, <2>1
  <2>2. ASSUME NEW i \in DMs, WindowElapses(i) PROVE SessionsSettled'
    <3> DEFINE s == [session[i] EXCEPT !.since = "old"]
    <3>1. s \in Session /\ Settled(s)
      BY <1>t DEF Session, Settled, SessionsSettled
    <3>2. session' = [session EXCEPT ![i] = s]
      BY <2>2 DEF WindowElapses
    <3> QED BY <1>2, <3>1, <3>2
  <2> QED BY <1>4, <1>u, <2>1, <2>2 DEF EnvironmentStep, PolicyExpires, Flip
<1>5. CASE Crash
  BY <1>5 DEF Crash, SessionsSettled, Settled, NoSession
<1>6. CASE UNCHANGED vars
  BY <1>6, <1>u, <1>k DEF vars
<1> QED BY <1>1, <1>3, <1>4, <1>5, <1>6 DEF Next

\* No choice both sends by relay and waits, and nobody who chose is being asked.
THEOREM ChoicesAreSettled == Spec => []ChoiceIsSettled
<1>1. Init => SessionsSettled
  <2> SUFFICES ASSUME Init, NEW i \in DMs PROVE Settled(session[i])
    BY Zenon DEF SessionsSettled
  <2>1. session[i] = NoSession
    BY DEF Init
  <2> QED BY <2>1 DEF NoSession, Settled
<1>2. SessionsSettled => ChoiceIsSettled
  <2> SUFFICES ASSUME SessionsSettled, NEW i \in DMs
               PROVE  /\ ~(session[i].approved /\ session[i].wait)
                      /\ session[i].required => ~session[i].approved /\ ~session[i].wait
    BY Zenon DEF ChoiceIsSettled
  <2> QED BY DEF SessionsSettled, Settled
<1> QED BY <1>1, <1>2, TypeInit, TypeStep, SettledStep, PTL DEF Spec

-----------------------------------------------------------------------------
(***************************************************************************)
(* What an attempt has looked at.  An attempt that is past the consent     *)
(* check met the floor with the tier of its pass; and while the user has   *)
(* been in anonymous mode since the attempt began, it is neither at the    *)
(* direct path nor at the relay without the hidden transport.              *)
(***************************************************************************)
PastTheFloor == {"hidden", "route", "direct", "deposit", "store", "tor", "rns"}
WeakPassIsWeak == "weakPass" \in held => ~w.tierOk
FloorHeld == w.at \in PastTheFloor => w.tierOk
AnonymousStays ==
  "anonAttempt" \in held => /\ On("anon")
                            /\ w.at # "direct"
                            /\ w.at = "deposit" => w.hidden
AttemptInv == WeakPassIsWeak /\ FloorHeld /\ AnonymousStays

LEMMA AttemptInit == Init => AttemptInv
<1>1. Stopped.at = "stopped"
  BY DEF Stopped
<1> QED BY <1>1
        DEF Init, AttemptInv, WeakPassIsWeak, FloorHeld, AnonymousStays, PastTheFloor

\* Messages leave only from where the worker hands them to a carrier.
LEMMA WhereSent ==
  ASSUME [Next]_vars
  PROVE  \/ UNCHANGED sends
         \/ Carry(w.item) /\ w.at \in {"direct", "deposit", "tor", "rns"}
<1>h. UNCHANGED history => sends' = sends
  BY DEF history
<1>1. CASE WorkerStep
  <2>1. CASE StartPass \/ NextItem \/ EndPass
    BY <2>1, <1>h, Zenon DEF StartPass, NextItem, EndPass
  <2>2. CASE CheckFloor \/ CheckAnonymous \/ HoldForApproval \/ CheckAttestation
    <3>1. (\A s : Requeue(s) => UNCHANGED sends) /\ (\A l : Proceed(l) => UNCHANGED sends)
      BY <1>h DEF Requeue, Proceed
    <3> QED BY <2>2, <3>1
            DEF CheckFloor, CheckAnonymous, HoldForApproval, CheckAttestation
  <2>3. CASE ReadConsent \/ ReadHidden \/ ChooseRoute \/ StoreGate
    BY <2>3, <1>h DEF ReadConsent, ReadHidden, ChooseRoute, StoreGate
  <2>4. CASE SendDirect \/ Deposit
    BY <2>4 DEF SendDirect, Deposit
  <2>5. CASE PublishTor \/ PublishRns
    BY <2>5 DEF PublishTor, PublishRns
  <2>6. CASE SettleDelivered \/ SettleFailed
    BY <2>6, <1>h DEF SettleDelivered, SettleFailed
  <2>7. CASE MarkReleasing \/ CheckApproval
    BY <2>7, <1>h DEF MarkReleasing, CheckApproval
  <2> QED BY <1>1, <2>1, <2>2, <2>3, <2>4, <2>5, <2>6, <2>7 DEF WorkerStep
<1>2. CASE AttemptRaises \/ Resume \/ Crash
  BY <1>2, <1>h DEF AttemptRaises, Resume, Crash
<1>3. CASE UserStep
  BY <1>3, <1>h
     DEF UserStep, Enqueue, EnqueueFails, BeginChoice, ApproveRelay, KeepWaiting
<1>4. CASE EnvironmentStep
  BY <1>4, <1>h DEF EnvironmentStep, PolicyExpires, WindowElapses, Flip
<1>5. CASE UNCHANGED vars
  BY <1>5, <1>h DEF vars
<1> QED BY <1>1, <1>2, <1>3, <1>4, <1>5 DEF Next

LEMMA AttemptStep == TypeInv /\ AttemptInv /\ [Next]_vars => AttemptInv'
<1> SUFFICES ASSUME TypeInv, AttemptInv, [Next]_vars PROVE AttemptInv'
  OBVIOUS
<1>t. w \in Worker
  BY DEF TypeInv, TypeOK
<1>a. /\ "weakPass" \in held => ~w.tierOk
      /\ w.at \in PastTheFloor => w.tierOk
      /\ "anonAttempt" \in held => /\ On("anon") /\ w.at # "direct"
                                   /\ w.at = "deposit" => w.hidden
  BY DEF AttemptInv, WeakPassIsWeak, FloorHeld, AnonymousStays
<1> DEFINE NoNewWatch == held' \cap {"weakPass", "anonAttempt"} \subseteq held
\* The worker is not past the floor check afterwards.
<1>k. ASSUME UNCHANGED up, NoNewWatch, w'.tierOk => w.tierOk, w'.at \notin PastTheFloor
      PROVE  AttemptInv'
  BY <1>a, <1>k
     DEF AttemptInv, WeakPassIsWeak, FloorHeld, AnonymousStays, PastTheFloor, On
\* The worker is past it, and not where it sends a direct message.
<1>l. ASSUME UNCHANGED <<up, held>>, w'.tierOk = w.tierOk, w.tierOk,
             w'.at \notin {"direct", "deposit"}
      PROVE  AttemptInv'
  BY <1>a, <1>l
     DEF AttemptInv, WeakPassIsWeak, FloorHeld, AnonymousStays, PastTheFloor, On
<1>y. ASSUME UNCHANGED w, NoNewWatch, "anonAttempt" \in held' => On("anon")'
      PROVE  AttemptInv'
  BY <1>a, <1>y
     DEF AttemptInv, WeakPassIsWeak, FloorHeld, AnonymousStays, PastTheFloor, On
<1>o. UNCHANGED up => (On("anon")' <=> On("anon"))
  BY DEF On
<1>g. \A l \in Locations : Goto(l) => /\ w'.tierOk = w.tierOk /\ w'.hidden = w.hidden
                                      /\ w'.at = l
  BY <1>t, Moves DEF Goto, Worker
<1>r. \A r : Return(r) => w'.tierOk = w.tierOk /\ w'.at = "settle"
  BY <1>t DEF Return, Worker
<1>n. NextMessage => w'.tierOk = w.tierOk /\ w'.at = "scan"
  BY <1>t DEF NextMessage, Worker
<1>s. Stopped.tierOk = FALSE /\ Stopped.at = "stopped"
  BY DEF Stopped
<1>d. ThreadDies => ~w'.tierOk /\ w'.at = "stopped"
  BY <1>s DEF ThreadDies
<1>q. \A s : Requeue(s) => AttemptInv'
  BY <1>k, <1>n, <1>d DEF Requeue, PastTheFloor
<1>p. \A l \in Locations \ PastTheFloor : Proceed(l) => AttemptInv'
  BY <1>k, <1>g DEF Proceed
<1>1. CASE StartPass
  <2>1. w'.tierOk = On("strong") /\ w'.at = "scan"
    BY <1>1, <1>t DEF StartPass, Worker
  <2>2. "weakPass" \in held' => ~On("strong")
    BY <1>1 DEF StartPass, Starting
  <2>3. "anonAttempt" \notin held'
    BY <1>1 DEF StartPass, Starting
  <2> QED BY <2>1, <2>2, <2>3
          DEF AttemptInv, WeakPassIsWeak, FloorHeld, AnonymousStays, PastTheFloor
<1>2. CASE NextItem
  <2>1. w'.tierOk = w.tierOk /\ w'.at = "floor"
    BY <1>2, <1>t DEF NextItem, Worker
  <2>2. NoNewWatch
    BY <1>2 DEF NextItem, Starting
  <2> QED BY <1>2, <1>k, <2>1, <2>2 DEF NextItem, PastTheFloor
<1>3. CASE EndPass
  <2>1. ~w'.tierOk /\ w'.at = "idle"
    BY <1>3 DEF EndPass, Stopped
  <2> QED BY <1>3, <1>k, <2>1 DEF EndPass, PastTheFloor
<1>4. CASE CheckFloor \/ CheckAnonymous \/ HoldForApproval \/ CheckAttestation
  BY <1>4, <1>q, <1>p
     DEF CheckFloor, CheckAnonymous, HoldForApproval, CheckAttestation, Locations,
         PastTheFloor
<1>5. CASE CheckApproval
  BY <1>5, <1>k, <1>g DEF CheckApproval, Locations, PastTheFloor
<1>6. CASE MarkReleasing
  <2>1. CASE Goto("consent") /\ held' = held \cup Starting("anonAttempt", On("anon"))
    <3>1. w'.at = "consent" /\ w'.tierOk = w.tierOk /\ On("anon")' = On("anon")
      BY <1>6, <1>g, <2>1 DEF MarkReleasing, Locations, On
    <3>2. "weakPass" \in held' => "weakPass" \in held
      BY <2>1 DEF Starting
    <3>3. "anonAttempt" \in held' => On("anon")
      BY <1>a, <2>1 DEF Starting
    <3> QED BY <1>a, <3>1, <3>2, <3>3
            DEF AttemptInv, WeakPassIsWeak, FloorHeld, AnonymousStays, PastTheFloor
  <2>2. CASE ThreadDies /\ UNCHANGED held
    BY <1>6, <1>k, <1>d, <2>2 DEF MarkReleasing, PastTheFloor
  <2> QED BY <1>6, <2>1, <2>2 DEF MarkReleasing
\* The floor is checked again on the way past it.
<1>7. CASE ReadConsent
  <2>1. CASE Return("retry")
    BY <1>7, <1>k, <1>r, <2>1 DEF ReadConsent, PastTheFloor
  <2>2. CASE FloorMet(w.tierOk)
             /\ w' = [w EXCEPT !.at = "hidden", !.consent = RelayConsent(w.item)]
    <3>1. w'.at = "hidden" /\ w'.tierOk = w.tierOk /\ w.tierOk
      BY <1>t, <2>2 DEF Worker, FloorMet
    <3> QED BY <1>7, <1>l, <3>1 DEF ReadConsent
  <2>3. CASE FloorMet(w.tierOk) /\ Goto("store")
    <3>1. w'.at = "store" /\ w'.tierOk = w.tierOk /\ w.tierOk
      BY <1>g, <2>3 DEF Locations, FloorMet
    <3> QED BY <1>7, <1>l, <3>1 DEF ReadConsent
  <2> QED BY <1>7, <2>1, <2>2, <2>3 DEF ReadConsent
<1>8. CASE ReadHidden
  <2>1. w'.at = "route" /\ w'.tierOk = w.tierOk /\ w.tierOk
    BY <1>8, <1>a, <1>t DEF ReadHidden, Worker, PastTheFloor
  <2> QED BY <1>8, <1>l, <2>1 DEF ReadHidden
\* In anonymous mode an attempt goes on only when it saw the hidden transport.
<1>9. CASE ChooseRoute
  <2>1. w.tierOk /\ UNCHANGED <<up, held>>
    BY <1>9, <1>a DEF ChooseRoute, PastTheFloor
  <2>2. CASE Return("retry") \/ Return("fallback")
    BY <1>k, <1>r, <2>1, <2>2 DEF PastTheFloor
  <2>3. CASE ~AnonymousWaits /\ ~w.hidden /\ Goto("direct")
    <3>1. w'.at = "direct" /\ w'.tierOk = w.tierOk /\ "anonAttempt" \notin held
      BY <1>a, <1>g, <2>3 DEF Locations, AnonymousWaits
    <3> QED BY <1>a, <2>1, <3>1
            DEF AttemptInv, WeakPassIsWeak, FloorHeld, AnonymousStays, PastTheFloor
  <2>4. CASE ~AnonymousWaits /\ Goto("deposit")
    <3>1. w'.at = "deposit" /\ w'.tierOk = w.tierOk /\ w'.hidden = w.hidden
      BY <1>g, <2>4 DEF Locations
    <3>2. On("anon") => w.hidden
      BY <2>4 DEF AnonymousWaits
    <3> QED BY <1>a, <1>o, <2>1, <3>1, <3>2
            DEF AttemptInv, WeakPassIsWeak, FloorHeld, AnonymousStays, PastTheFloor
  <2> QED BY <1>9, <2>2, <2>3, <2>4 DEF ChooseRoute
<1>10. CASE SendDirect
  <2>1. w.tierOk /\ UNCHANGED <<up, held>> /\ "anonAttempt" \notin held
    BY <1>10, <1>a DEF SendDirect, PastTheFloor
  <2>2. CASE Return("retry") \/ Return("ok") \/ Return("fallback")
    BY <1>k, <1>r, <2>1, <2>2 DEF PastTheFloor
  <2>3. CASE Goto("deposit")
    <3>1. w'.tierOk = w.tierOk
      BY <1>g, <2>3 DEF Locations
    <3> QED BY <1>a, <2>1, <3>1
            DEF AttemptInv, WeakPassIsWeak, FloorHeld, AnonymousStays, PastTheFloor
  <2> QED BY <1>10, <2>2, <2>3 DEF SendDirect
<1>11. CASE Deposit
  BY <1>11, <1>k, <1>r DEF Deposit, PastTheFloor
<1>12. CASE StoreGate
  <2>1. w'.at = "tor" /\ w'.tierOk = w.tierOk /\ w.tierOk
    BY <1>12, <1>a, <1>g DEF StoreGate, Locations, PastTheFloor
  <2> QED BY <1>12, <1>l, <2>1 DEF StoreGate
<1>13. CASE PublishTor \/ PublishRns
  <2>1. w.tierOk /\ UNCHANGED <<up, held>>
    BY <1>13, <1>a DEF PublishTor, PublishRns, PastTheFloor
  <2>2. CASE Return("ok")
    BY <1>k, <1>r, <2>1, <2>2 DEF PastTheFloor
  <2>3. CASE Goto("rns")
    BY <1>l, <1>g, <2>1, <2>3 DEF Locations
  <2> QED BY <1>13, <2>2, <2>3 DEF PublishTor, PublishRns
<1>14. CASE SettleDelivered \/ SettleFailed
  BY <1>14, <1>k, <1>n, <1>d DEF SettleDelivered, SettleFailed, PastTheFloor
<1>15. CASE AttemptRaises
  BY <1>15, <1>k, <1>r DEF AttemptRaises, PastTheFloor
<1>16. ASSUME w' = Started, UNCHANGED <<up, held>> PROVE AttemptInv'
  <2>1. CASE w.at = "stopped"
    <3>1. w'.at = "idle" /\ w'.tierOk = w.tierOk
      BY <1>16, <1>t, <2>1 DEF Started, Worker
    <3> QED BY <1>16, <1>k, <3>1 DEF PastTheFloor
  <2>2. CASE w.at # "stopped"
    BY <1>16, <1>y, <1>a, <1>o, <2>2 DEF Started
  <2> QED BY <2>1, <2>2
<1>17. CASE Resume
  BY <1>17, <1>16 DEF Resume
<1>18. CASE UserStep
  <2>1. CASE \E i \in Items : Enqueue(i)
    BY <2>1, <1>16 DEF Enqueue
  <2>2. CASE UNCHANGED <<up, w, held>>
    BY <1>y, <1>a, <1>o, <2>2
  <2> QED BY <1>18, <2>1, <2>2
          DEF UserStep, EnqueueFails, BeginChoice, ApproveRelay, KeepWaiting
<1>19. CASE EnvironmentStep
  <2>1. CASE UNCHANGED <<up, w, held>>
    BY <1>y, <1>a, <1>o, <2>1
  <2>2. ASSUME NEW c \in Conditions, Flip(c) PROVE AttemptInv'
    <3>1. CASE c = "anon"
      <4>1. "anonAttempt" \notin held' /\ NoNewWatch
        BY <2>2, <3>1 DEF Flip, WatchedWhile
      <4> QED BY <2>2, <1>y, <4>1 DEF Flip
    <3>2. CASE c # "anon"
      <4>1. On("anon")' <=> On("anon")
        BY <2>2, <3>2 DEF Flip, On
      <4> QED BY <2>2, <1>y, <1>a, <4>1 DEF Flip
    <3> QED BY <3>1, <3>2
  <2> QED BY <1>19, <2>1, <2>2 DEF EnvironmentStep, PolicyExpires, WindowElapses
<1>20. CASE Crash
  BY <1>20, <1>k, <1>s DEF Crash, PastTheFloor
<1>21. CASE UNCHANGED vars
  BY <1>21, <1>y, <1>a, <1>o DEF vars
<1> QED
  BY <1>1, <1>2, <1>3, <1>4, <1>5, <1>6, <1>7, <1>8, <1>9, <1>10, <1>11, <1>12,
     <1>13, <1>14, <1>15, <1>17, <1>18, <1>19, <1>20, <1>21 DEF Next, WorkerStep

\* No message leaves in a pass through which the tier was below the floor.
THEOREM FloorHolds == Spec => NothingBelowFloorAllPass
<1>1. AttemptInv /\ [Next]_vars => [sends' # sends => "weakPass" \notin held]_vars
  <2> SUFFICES ASSUME AttemptInv, [Next]_vars, sends' # sends
               PROVE  "weakPass" \notin held
    OBVIOUS
  <2> QED BY WhereSent DEF AttemptInv, WeakPassIsWeak, FloorHeld, PastTheFloor
<1> QED BY <1>1, TypeInit, TypeStep, AttemptInit, AttemptStep, PTL
        DEF Spec, NothingBelowFloorAllPass

\* A user in anonymous mode since the attempt began: a DM leaves only by the relay,
\* and only when the attempt saw the hidden transport up.
THEOREM AnonymityHolds == Spec => AnonymousNeverDirect
<1>1. TypeInv /\ AttemptInv /\ [Next]_vars
        => [\A i \in DMs : sends'[i] # sends[i] /\ "anonAttempt" \in held
              => w.at = "deposit" /\ w.hidden]_vars
  <2> SUFFICES ASSUME TypeInv, AttemptInv, [Next]_vars, NEW i \in DMs,
                      sends'[i] # sends[i], "anonAttempt" \in held
               PROVE  w.at = "deposit" /\ w.hidden
    OBVIOUS
  <2>1. Carry(w.item) /\ w.at \in {"direct", "deposit", "tor", "rns"}
    BY WhereSent
  <2>2. w.item = i
    BY <2>1 DEF Carry, TypeInv, TypeOK
  <2>3. w.at \notin GateOnly
    BY <2>2, ConstantsAssumption DEF TypeInv, WorkerWellPlaced
  <2> QED BY <2>1, <2>3 DEF AttemptInv, AnonymousStays, GateOnly
<1> QED BY <1>1, TypeInit, TypeStep, AttemptInit, AttemptStep, PTL
        DEF Spec, AnonymousNeverDirect

-----------------------------------------------------------------------------
(***************************************************************************)
(* The pipeline delivers direct messages as SealedDelivery promises.       *)
(*                                                                         *)
(* A DM is reported only by mark_delivered, which follows an attempt whose *)
(* result is "ok"; that a carrier took the DM by then is the invariant     *)
(* SentBefore.  What else the pipeline writes into a release state moves   *)
(* it between "queued" and "releasing", both of them "pending".            *)
(***************************************************************************)
SentBefore == w.result = "ok" /\ w.item \in DMs => sends[w.item] > 0

\* An attempt of a DM ends with "ok" only in the step that hands it over.
LEMMA WhereOk ==
  ASSUME TypeInv, [Next]_vars, w'.result = "ok"
  PROVE  /\ w'.item = w.item
         /\ w.result = "ok" \/ Carry(w.item) \/ w.item \in Gates
<1>t. w \in Worker
  BY DEF TypeInv, TypeOK
<1>g. \A l : Goto(l) => w'.item = w.item /\ w'.result = w.result
  BY <1>t DEF Goto, Worker
<1>r. \A r : Return(r) => w'.item = w.item /\ w'.result = r
  BY <1>t DEF Return, Worker
<1>n. ~NextMessage
  BY <1>t DEF NextMessage, Worker
<1>d. ~ThreadDies
  BY DEF ThreadDies, Stopped
<1>q. \A s : ~Requeue(s)
  BY <1>n, <1>d DEF Requeue
<1>p. \A l : Proceed(l) => w'.item = w.item /\ w'.result = w.result
  BY <1>g DEF Proceed
<1>i. /\ w.at # "settle" => w.result = "none"
      /\ w.at \in GateOnly => w.item \in Gates
  BY DEF TypeInv, WorkerWellPlaced
<1>1. ~StartPass /\ ~NextItem /\ ~EndPass
  <2>1. ~StartPass
    <3>1. StartPass => w'.result = w.result /\ w.at = "idle"
      BY <1>t DEF StartPass, Worker
    <3> QED BY <1>i, <3>1
  <2>2. ASSUME NextItem PROVE FALSE
    <3>1. PICK i \in w.todo : w' = [w EXCEPT !.at = "floor", !.item = i, !.todo = @ \ {i}]
      BY <2>2, Zenon DEF NextItem
    <3>2. w'.result = w.result
      BY <1>t, <3>1 DEF Worker
    <3>3. w.at = "scan"
      BY <2>2 DEF NextItem
    <3> QED BY <1>i, <3>2, <3>3
  <2>3. ~EndPass
    BY DEF EndPass, Stopped
  <2> QED BY <2>1, <2>2, <2>3
<1>2. CASE CheckFloor \/ CheckAnonymous \/ HoldForApproval \/ CheckAttestation
  BY <1>2, <1>q, <1>p
     DEF CheckFloor, CheckAnonymous, HoldForApproval, CheckAttestation
<1>3. CASE CheckApproval \/ MarkReleasing
  BY <1>3, <1>g, <1>d DEF CheckApproval, MarkReleasing
<1>4. CASE ReadConsent \/ ReadHidden
  <2>1. w'.item = w.item /\ (w'.result = w.result \/ w'.result = "retry")
    BY <1>4, <1>t, <1>g, <1>r DEF ReadConsent, ReadHidden, Worker
  <2> QED BY <2>1
<1>5. CASE ChooseRoute \/ StoreGate \/ AttemptRaises
  BY <1>5, <1>g, <1>r DEF ChooseRoute, StoreGate, AttemptRaises
<1>6. CASE SendDirect \/ Deposit
  BY <1>6, <1>g, <1>r DEF SendDirect, Deposit
<1>7. CASE PublishTor \/ PublishRns
  BY <1>7, <1>g, <1>r, <1>i DEF PublishTor, PublishRns, GateOnly
<1>8. ~SettleDelivered /\ ~SettleFailed
  BY <1>n, <1>d DEF SettleDelivered, SettleFailed
<1>9. CASE w' = Started
  BY <1>9, <1>t DEF Started, Worker
<1>10. CASE Resume \/ UserStep
  BY <1>9, <1>10
     DEF Resume, UserStep, Enqueue, EnqueueFails, BeginChoice, ApproveRelay, KeepWaiting
<1>11. CASE EnvironmentStep
  BY <1>11 DEF EnvironmentStep, PolicyExpires, WindowElapses, Flip
<1>12. ~Crash
  BY DEF Crash, Stopped
<1>13. CASE UNCHANGED vars
  BY <1>13 DEF vars
<1> QED
  BY <1>1, <1>2, <1>3, <1>4, <1>5, <1>6, <1>7, <1>8, <1>10, <1>11, <1>12, <1>13
     DEF Next, WorkerStep

LEMMA SentInit == Init => SentBefore
BY DEF Init, SentBefore, Stopped

LEMMA SentStep == TypeInv /\ SentBefore /\ [Next]_vars => SentBefore'
<1> SUFFICES ASSUME TypeInv, SentBefore, [Next]_vars,
                    w'.result = "ok", w'.item \in DMs
             PROVE  sends'[w'.item] > 0
  BY DEF SentBefore
<1>1. sends \in [Items -> Nat] /\ w.item = w'.item /\ w.item \in Items \ Gates
  BY WhereOk, ConstantsAssumption DEF TypeInv, TypeOK, Items
<1>2. Carry(w.item) => sends'[w.item] = sends[w.item] + 1
  BY <1>1 DEF Carry
<1>3. w.result = "ok" \/ Carry(w.item)
  BY <1>1, WhereOk
<1>4. UNCHANGED sends \/ Carry(w.item)
  BY WhereSent
<1>5. CASE Carry(w.item)
  BY <1>1, <1>2, <1>5
<1>6. CASE UNCHANGED sends /\ w.result = "ok"
  BY <1>1, <1>6 DEF SentBefore
<1> QED BY <1>3, <1>4, <1>5, <1>6

Reported(i) == IF rel[i] \in {"queued", "releasing"} THEN "pending" ELSE rel[i]

\* What a step does to the state a message is reported in.
LEMMA WhatIsReported ==
  ASSUME TypeInv, SendInv, [Next]_vars
  PROVE  \/ \A i \in Items : Reported(i)' = Reported(i)
         \/ \E i \in Items : /\ rel[i] = "absent"
                             /\ rel' = [rel EXCEPT ![i] = "queued"]
                             /\ UNCHANGED sends
         \/ /\ w.result = "ok" /\ w.item \in Items
            /\ rel' = [rel EXCEPT ![w.item] = "delivered"]
            /\ UNCHANGED sends
<1>t. rel \in [Items -> ReleaseStates]
  BY DEF TypeInv, TypeOK
<1>u. /\ UNCHANGED outbox => rel' = rel
      /\ UNCHANGED history => sends' = sends
  BY DEF outbox, history
<1>i. w.at \notin BetweenMessages => w.item \in Items /\ Reported(w.item) = "pending"
  <2>1. w.at \notin BetweenMessages => w.item \in Items
    BY DEF TypeInv, TypeOK, WorkerWellPlaced, Worker
  <2> QED BY <2>1 DEF SendInv, InHand, Undelivered, Reported
<1> DEFINE Same == \A i \in Items : Reported(i)' = Reported(i)
<1>k. rel' = rel => Same
  BY DEF Reported
\* The message in hand stays pending.
<1>h. ASSUME NEW s \in {"queued", "releasing"}, rel' = [rel EXCEPT ![w.item] = s],
             w.at \notin BetweenMessages
      PROVE  Same
  BY <1>t, <1>i, <1>h DEF Reported
<1>q. \A s : Requeue(s) /\ w.at \notin BetweenMessages => Same
  BY <1>h, <1>k DEF Requeue
<1>p. \A l : Proceed(l) => Same
  BY <1>k, <1>u DEF Proceed
<1>1. CASE StartPass \/ NextItem \/ EndPass
  <2>1. rel' = rel
    BY <1>1, <1>u, Zenon DEF StartPass, NextItem, EndPass
  <2> QED BY <1>k, <2>1
<1>2. CASE CheckFloor \/ CheckAnonymous \/ HoldForApproval \/ CheckAttestation
  <2>1. w.at \notin BetweenMessages
    BY <1>2 DEF CheckFloor, CheckAnonymous, HoldForApproval, CheckAttestation,
                BetweenMessages
  <2> QED BY <1>2, <1>q, <1>p, <2>1
          DEF CheckFloor, CheckAnonymous, HoldForApproval, CheckAttestation
<1>3. CASE CheckApproval \/ ReadConsent \/ ReadHidden \/ ChooseRoute
  <2>1. rel' = rel
    BY <1>3, <1>u DEF CheckApproval, ReadConsent, ReadHidden, ChooseRoute
  <2> QED BY <1>k, <2>1
<1>4. CASE MarkReleasing
  BY <1>4, <1>h, <1>k DEF MarkReleasing, BetweenMessages
<1>5. CASE SendDirect \/ Deposit \/ StoreGate
  <2>1. rel' = rel
    BY <1>5, <1>u DEF SendDirect, Deposit, StoreGate
  <2> QED BY <1>k, <2>1
<1>6. CASE PublishTor \/ PublishRns \/ AttemptRaises \/ Resume
  <2>1. rel' = rel
    BY <1>6, <1>u DEF PublishTor, PublishRns, AttemptRaises, Resume
  <2> QED BY <1>k, <2>1
<1>7. CASE SettleDelivered
  BY <1>7, <1>i, <1>k, <1>u DEF SettleDelivered, BetweenMessages
<1>8. CASE SettleFailed
  BY <1>8, <1>h, <1>k DEF SettleFailed, BetweenMessages
<1>9. CASE \E i \in Items : Enqueue(i)
  BY <1>9, <1>k, <1>u DEF Enqueue
<1>10. CASE (\E i \in Items : EnqueueFails(i)) \/ (\E i \in DMs : BeginChoice(i))
            \/ ApproveRelay \/ KeepWaiting
  <2>1. rel' = rel
    BY <1>10, <1>u DEF EnqueueFails, BeginChoice, ApproveRelay, KeepWaiting
  <2> QED BY <1>k, <2>1
<1>11. CASE EnvironmentStep
  <2>1. rel' = rel
    BY <1>11, <1>u DEF EnvironmentStep, PolicyExpires, WindowElapses, Flip
  <2> QED BY <1>k, <2>1
<1>12. CASE Crash
  BY <1>12, <1>t DEF Crash, Reported
<1>13. CASE UNCHANGED vars
  BY <1>13, <1>k, <1>u DEF vars
<1> QED
  BY <1>1, <1>2, <1>3, <1>4, <1>5, <1>6, <1>7, <1>8, <1>9, <1>10, <1>11, <1>12, <1>13
     DEF Next, WorkerStep, UserStep

LEMMA DeliveryInit == Init => Delivery!Init
<1> SUFFICES ASSUME Init PROVE Delivery!Init
  OBVIOUS
<1>1. ASSUME NEW i \in DMs PROVE rel[i] = "absent" /\ sends[i] = 0
  BY DEF Init, Items
<1> QED BY <1>1 DEF Delivery!Init

\* Each step of the pipeline is a step of SealedDelivery or leaves it unchanged.
LEMMA DeliveryStep ==
  TypeInv /\ SendInv /\ SentBefore /\ [Next]_vars
    => [Delivery!Next]_<<[i \in DMs |-> IF rel[i] \in {"queued", "releasing"}
                                        THEN "pending" ELSE rel[i]],
                         [i \in DMs |-> sends[i]]>>
<1> DEFINE status == [i \in DMs |-> IF rel[i] \in {"queued", "releasing"}
                                    THEN "pending" ELSE rel[i]]
           copies == [i \in DMs |-> sends[i]]
<1> SUFFICES ASSUME TypeInv, SendInv, SentBefore, [Next]_vars
             PROVE  Delivery!Next \/ (status' = status /\ copies' = copies)
  OBVIOUS
<1>t. /\ DMs \subseteq Items
      /\ rel \in [Items -> ReleaseStates] /\ sends \in [Items -> Nat]
  BY DEF TypeInv, TypeOK, Items
<1>s. (\A i \in Items : Reported(i)' = Reported(i)) => status' = status
  BY <1>t DEF Reported
<1>c. sends' = sends => copies' = copies
  OBVIOUS
<1>1. ASSUME \A i \in Items : Reported(i)' = Reported(i), ~UNCHANGED sends
      PROVE  Delivery!Next \/ (status' = status /\ copies' = copies)
  <2>1. Carry(w.item) /\ w.at \notin BetweenMessages
    BY <1>1, WhereSent DEF BetweenMessages
  <2>2. status' = status
    BY <1>1, <1>s
  <2>3. ASSUME NEW i \in DMs, i = w.item PROVE Delivery!Next
    <3>1. Undelivered(i)
      BY <1>t, <2>3 DEF SendInv, InHand
    <3>2. status[i] = "pending"
      BY <3>1 DEF Undelivered
    <3>3. copies' = [copies EXCEPT ![i] = @ + 1]
      BY <1>t, <2>1, <2>3 DEF Carry
    <3>4. Delivery!HandOver(i)
      BY <2>2, <3>2, <3>3 DEF Delivery!HandOver
    <3> QED BY <3>4 DEF Delivery!Next
  <2>4. CASE w.item \notin DMs
    <3>1. copies' = copies
      BY <1>t, <2>1, <2>4 DEF Carry
    <3> QED BY <2>2, <3>1
  <2> QED BY <2>3, <2>4
<1>2. ASSUME NEW i \in Items, rel[i] = "absent", rel' = [rel EXCEPT ![i] = "queued"],
             UNCHANGED sends
      PROVE  Delivery!Next \/ (status' = status /\ copies' = copies)
  <2>1. copies' = copies
    BY <1>2, <1>c
  <2>2. CASE i \in DMs
    <3>1. status[i] = "absent" /\ status' = [status EXCEPT ![i] = "pending"]
      BY <1>t, <1>2, <2>2
    <3>2. Delivery!Accept(i)
      BY <2>1, <3>1 DEF Delivery!Accept
    <3> QED BY <2>2, <3>2 DEF Delivery!Next
  <2>3. CASE i \notin DMs
    <3>1. status' = status
      BY <1>t, <1>2, <2>3
    <3> QED BY <2>1, <3>1
  <2> QED BY <2>2, <2>3
<1>3. ASSUME w.result = "ok", w.item \in Items, rel' = [rel EXCEPT ![w.item] = "delivered"],
             UNCHANGED sends
      PROVE  Delivery!Next \/ (status' = status /\ copies' = copies)
  <2>1. copies' = copies
    BY <1>3, <1>c
  <2>2. ASSUME NEW i \in DMs, i = w.item PROVE Delivery!Next
    <3>1. Undelivered(i) /\ sends[i] > 0
      BY <1>t, <1>3, <2>2 DEF SendInv, InHand, SentBefore
    <3>2. status[i] = "pending" /\ copies[i] > 0
      BY <3>1 DEF Undelivered
    <3>3. status' = [status EXCEPT ![i] = "delivered"]
      BY <1>t, <1>3, <2>2
    <3>4. Delivery!Report(i)
      BY <2>1, <3>2, <3>3 DEF Delivery!Report
    <3> QED BY <3>4 DEF Delivery!Next
  <2>3. CASE w.item \notin DMs
    <3>1. status' = status
      BY <1>t, <1>3, <2>3
    <3> QED BY <2>1, <3>1
  <2> QED BY <2>2, <2>3
<1>4. CASE (\A i \in Items : Reported(i)' = Reported(i)) /\ UNCHANGED sends
  BY <1>4, <1>s, <1>c
<1> QED BY <1>1, <1>2, <1>3, <1>4, WhatIsReported

\* The pipeline implements SealedDelivery for its direct messages.
THEOREM PipelineDelivers == Spec => DeliveryImplemented
BY TypeInit, TypeStep, SendInit, SendStep, SentInit, SentStep, DeliveryInit,
   DeliveryStep, PTL DEF Spec, DeliveryImplemented, Delivery!Spec
=============================================================================
