----------------------------- MODULE SosProofs -----------------------------
(***************************************************************************)
(* Proofs about Sos: its type invariant, its safety invariants and the     *)
(* refinement of SosPromise, for any dialogs, calls, contacts and bounds.  *)
(***************************************************************************)
EXTENDS Sos, TLAPS

Unsent == {"idle", "prelocating", "locating", "adding"}

(* A call that has started belongs to a dialog that has been opened. *)
CallsHaveDialog ==
  /\ \A t \in Alerts : pc[t] # "idle" => dlg[t] \in opened
  /\ \A d \in Dialogs : Mounted(d) \/ d \in triggering => d \in opened

(* Who may be tracked, shown or being cancelled: calls that are done. *)
OnlyDone ==
  /\ \A a \in Alerts : timer = a \/ Mounted(a) \/ cancels[a] > 0 => pc[a] = "done"
  /\ \A a \in Alerts : activeAlertId = a => pc[a] \notin Unsent

(* What a cancellation, pending or recorded, excludes. *)
Forgotten ==
  \A a \in Alerts :
    cancels[a] > 0 \/ status[a] = "cancelled" =>
      /\ pc[a] = "done"
      /\ timer # a
      /\ activeAlertId # a

(* How far a call is and what it has written. *)
Progressed ==
  \A t \in Alerts :
    /\ pc[t] \in Unsent => status[t] = "absent"
    /\ pc[t] \in {"recorded", "done"} => idx[t] > NumContacts

(* The contacts a call reached are marked on the objects of its dialog. *)
Marked ==
  \A t \in Alerts :
    /\ pc[t] = "idle" => launched[t] = {}
    /\ pc[t] # "idle" => launched[t] \subseteq sent[dlg[t]]

IInv ==
  /\ TypeOK
  /\ CallsHaveDialog
  /\ OnlyDone
  /\ Forgotten
  /\ Progressed
  /\ Marked
  /\ ReachedIsRecorded
  /\ SpinnerHasCall

-----------------------------------------------------------------------------
(* Types are kept; a call's contacts are those of an opened dialog. *)
LEMMA TypeStep ==
  ASSUME TypeOK, CallsHaveDialog, [Next]_vars
  PROVE  TypeOK'
<1> USE ConstantsAssumption DEF serviceVars, storeVars, callVars, awaitVars, screenVars,
              dialogVars, contactVars, Screens, Sending, Suspended, Ended, Stored,
              TypeOK, CallsHaveDialog, Contacts
<1>1. ASSUME NEW t \in Alerts, NEW d \in Dialogs, SendSOS(t, d) PROVE TypeOK'
  BY <1>1 DEF SendSOS
<1>2. ASSUME NEW t \in Alerts, PreLocate(t) PROVE TypeOK'
  BY <1>2 DEF PreLocate
<1>3. ASSUME NEW t \in Alerts, Locate(t) PROVE TypeOK'
  BY <1>3 DEF Locate
<1>4. ASSUME NEW t \in Alerts, AddAlert(t) PROVE TypeOK'
  BY <1>4 DEF AddAlert, NotifiedContacts
<1>5. ASSUME NEW t \in Alerts, NotifyNext(t) PROVE TypeOK'
  BY <1>5 DEF NotifyNext, InLoop
<1>6. ASSUME NEW t \in Alerts, RecordNotified(t) PROVE TypeOK'
  BY <1>6 DEF RecordNotified, LoopOver, NotifiedContacts
<1>7. ASSUME NEW t \in Alerts, StartUpdates(t) PROVE TypeOK'
  <2>1. CASE Mounted(dlg[t])
    <3>1. page' \in BOOLEAN
      BY <1>7, <2>1, Zenon DEF StartUpdates
    <3>2. top' = t /\ closing' = closing \cup ({top} \ {None})
      BY <1>7, <2>1, Zenon DEF StartUpdates
    <3> QED BY <1>7, <2>1, <3>1, <3>2 DEF StartUpdates
  <2>2. CASE ~Mounted(dlg[t])
    BY <1>7, <2>2 DEF StartUpdates
  <2> QED BY <2>1, <2>2
<1>8. ASSUME NEW t \in Alerts, TriggerFails(t) PROVE TypeOK'
  BY <1>8 DEF TriggerFails, LoopOver, SpinnerAfterFailure
<1>9. ASSUME NEW a \in Alerts, Tick(a) PROVE TypeOK'
  BY <1>9 DEF Tick
<1>10. ASSUME NEW a \in Alerts, CallbackEnds(a) PROVE TypeOK'
  BY <1>10 DEF CallbackEnds
<1>11. ASSUME NEW a \in Alerts, CancelSOS(a) PROVE TypeOK'
  BY <1>11 DEF CancelSOS, StopTracking
<1>12. ASSUME NEW a \in Alerts, CancelReturns(a) PROVE TypeOK'
  <2>1. top' \in Screens \cup {None} /\ closing' \in SUBSET Screens /\ page' \in BOOLEAN
    <3>1. CASE Mounted(a)
      <4>1. \/ PopTop
            \/ UNCHANGED <<top, closing, page>>
        BY <1>12, <3>1, Zenon DEF CancelReturns
      <4>2. PopTop => page' \in BOOLEAN
        BY Zenon DEF PopTop
      <4> QED BY <4>1, <4>2 DEF PopTop
    <3>2. CASE ~Mounted(a)
      BY <1>12, <3>2 DEF CancelReturns
    <3> QED BY <3>1, <3>2
  <2>2. status' \in [Alerts -> {"absent", "active", "cancelled", "resolved"}]
    BY <1>12 DEF CancelReturns
  <2>3. cancels' \in [Alerts -> 0 .. MaxCancels]
    BY <1>12 DEF CancelReturns
  <2> QED BY <1>12, <2>1, <2>2, <2>3 DEF CancelReturns
<1>13. ASSUME NEW a \in Alerts, ResolveSOS(a) PROVE TypeOK'
  BY <1>13 DEF ResolveSOS, StopTracking
<1>14. ASSUME NEW d \in Dialogs, OpenDialog(d) PROVE TypeOK'
  BY <1>14 DEF OpenDialog
<1>15. ASSUME NEW d \in Dialogs, InitLocated(d) PROVE TypeOK'
  BY <1>15 DEF InitLocated
<1>16. ASSUME NEW s \in Screens, Unmount(s) PROVE TypeOK'
  BY <1>16 DEF Unmount
<1>17. CASE Dismiss
  BY <1>17 DEF Dismiss, PopTop
<1>18. CASE DeleteQuery
  BY <1>18 DEF DeleteQuery
<1>19. CASE DeleteCommit
  BY <1>19 DEF DeleteCommit
<1>20. CASE AppKilled
  BY <1>20 DEF AppKilled
<1>21. CASE UNCHANGED vars
  BY <1>21 DEF vars
<1> QED
  BY <1>1, <1>2, <1>3, <1>4, <1>5, <1>6, <1>7, <1>8, <1>9, <1>10, <1>11,
     <1>12, <1>13, <1>14, <1>15, <1>16, <1>17, <1>18, <1>19, <1>20, <1>21
  DEF Next, CallProgress, AlertStep

(* Calls stay with their dialog, and only an opened dialog is ever mounted. *)
LEMMA DialogStep ==
  ASSUME TypeOK, CallsHaveDialog, [Next]_vars
  PROVE  CallsHaveDialog'
<1> USE ConstantsAssumption DEF serviceVars, storeVars, callVars, awaitVars, screenVars,
              dialogVars, contactVars, Screens, Sending, Suspended, Ended, Stored,
              TypeOK, CallsHaveDialog, Mounted
<1>1. ASSUME NEW t \in Alerts, NEW d \in Dialogs, SendSOS(t, d) PROVE CallsHaveDialog'
  BY <1>1 DEF SendSOS
<1>2. ASSUME NEW t \in Alerts, PreLocate(t) PROVE CallsHaveDialog'
  BY <1>2 DEF PreLocate
<1>3. ASSUME NEW t \in Alerts, Locate(t) PROVE CallsHaveDialog'
  BY <1>3 DEF Locate
<1>4. ASSUME NEW t \in Alerts, AddAlert(t) PROVE CallsHaveDialog'
  BY <1>4 DEF AddAlert, NotifiedContacts
<1>5. ASSUME NEW t \in Alerts, NotifyNext(t) PROVE CallsHaveDialog'
  BY <1>5 DEF NotifyNext, InLoop
<1>6. ASSUME NEW t \in Alerts, RecordNotified(t) PROVE CallsHaveDialog'
  BY <1>6 DEF RecordNotified, LoopOver, NotifiedContacts
<1>7. ASSUME NEW t \in Alerts, StartUpdates(t) PROVE CallsHaveDialog'
  BY <1>7 DEF StartUpdates
<1>8. ASSUME NEW t \in Alerts, TriggerFails(t) PROVE CallsHaveDialog'
  BY <1>8 DEF TriggerFails, LoopOver, SpinnerAfterFailure
<1>9. ASSUME NEW a \in Alerts, Tick(a) PROVE CallsHaveDialog'
  BY <1>9 DEF Tick
<1>10. ASSUME NEW a \in Alerts, CallbackEnds(a) PROVE CallsHaveDialog'
  BY <1>10 DEF CallbackEnds
<1>11. ASSUME NEW a \in Alerts, CancelSOS(a) PROVE CallsHaveDialog'
  BY <1>11 DEF CancelSOS, StopTracking
<1>12. ASSUME NEW a \in Alerts, CancelReturns(a) PROVE CallsHaveDialog'
  BY <1>12 DEF CancelReturns, PopTop
<1>13. ASSUME NEW a \in Alerts, ResolveSOS(a) PROVE CallsHaveDialog'
  BY <1>13 DEF ResolveSOS, StopTracking
<1>14. ASSUME NEW d \in Dialogs, OpenDialog(d) PROVE CallsHaveDialog'
  BY <1>14 DEF OpenDialog
<1>15. ASSUME NEW d \in Dialogs, InitLocated(d) PROVE CallsHaveDialog'
  BY <1>15 DEF InitLocated
<1>16. ASSUME NEW s \in Screens, Unmount(s) PROVE CallsHaveDialog'
  BY <1>16 DEF Unmount
<1>17. CASE Dismiss
  BY <1>17 DEF Dismiss, PopTop
<1>18. CASE DeleteQuery
  BY <1>18 DEF DeleteQuery
<1>19. CASE DeleteCommit
  BY <1>19 DEF DeleteCommit
<1>20. CASE AppKilled
  BY <1>20 DEF AppKilled
<1>21. CASE UNCHANGED vars
  BY <1>21 DEF vars
<1> QED
  BY <1>1, <1>2, <1>3, <1>4, <1>5, <1>6, <1>7, <1>8, <1>9, <1>10, <1>11,
     <1>12, <1>13, <1>14, <1>15, <1>16, <1>17, <1>18, <1>19, <1>20, <1>21
  DEF Next, CallProgress, AlertStep

(* The tracker, the screen and the cancellations agree on which calls are done. *)
LEMMA ForgottenStep ==
  ASSUME TypeOK, OnlyDone, Forgotten, Progressed, [Next]_vars
  PROVE  OnlyDone' /\ Forgotten'
<1> USE ConstantsAssumption DEF serviceVars, storeVars, callVars, awaitVars, screenVars,
              dialogVars, contactVars, Screens, Sending, Suspended, Ended, Stored,
              TypeOK, OnlyDone, Forgotten, Progressed, Mounted, Unsent
<1>1. ASSUME NEW t \in Alerts, NEW d \in Dialogs, SendSOS(t, d) PROVE OnlyDone' /\ Forgotten'
  BY <1>1 DEF SendSOS
<1>2. ASSUME NEW t \in Alerts, PreLocate(t) PROVE OnlyDone' /\ Forgotten'
  BY <1>2 DEF PreLocate
<1>3. ASSUME NEW t \in Alerts, Locate(t) PROVE OnlyDone' /\ Forgotten'
  BY <1>3 DEF Locate
<1>4. ASSUME NEW t \in Alerts, AddAlert(t) PROVE OnlyDone' /\ Forgotten'
  BY <1>4 DEF AddAlert, NotifiedContacts
<1>5. ASSUME NEW t \in Alerts, NotifyNext(t) PROVE OnlyDone' /\ Forgotten'
  BY <1>5 DEF NotifyNext, InLoop
<1>6. ASSUME NEW t \in Alerts, RecordNotified(t) PROVE OnlyDone' /\ Forgotten'
  BY <1>6 DEF RecordNotified, LoopOver, NotifiedContacts
<1>7. ASSUME NEW t \in Alerts, StartUpdates(t) PROVE OnlyDone' /\ Forgotten'
  BY <1>7 DEF StartUpdates
<1>8. ASSUME NEW t \in Alerts, TriggerFails(t) PROVE OnlyDone' /\ Forgotten'
  BY <1>8 DEF TriggerFails, LoopOver, SpinnerAfterFailure
<1>9. ASSUME NEW a \in Alerts, Tick(a) PROVE OnlyDone' /\ Forgotten'
  BY <1>9 DEF Tick
<1>10. ASSUME NEW a \in Alerts, CallbackEnds(a) PROVE OnlyDone' /\ Forgotten'
  BY <1>10 DEF CallbackEnds
<1>11. ASSUME NEW a \in Alerts, CancelSOS(a) PROVE OnlyDone' /\ Forgotten'
  BY <1>11 DEF CancelSOS, StopTracking
<1>12. ASSUME NEW a \in Alerts, CancelReturns(a) PROVE OnlyDone' /\ Forgotten'
  BY <1>12 DEF CancelReturns, PopTop
<1>13. ASSUME NEW a \in Alerts, ResolveSOS(a) PROVE OnlyDone' /\ Forgotten'
  BY <1>13 DEF ResolveSOS, StopTracking
<1>14. ASSUME NEW d \in Dialogs, OpenDialog(d) PROVE OnlyDone' /\ Forgotten'
  BY <1>14 DEF OpenDialog
<1>15. ASSUME NEW d \in Dialogs, InitLocated(d) PROVE OnlyDone' /\ Forgotten'
  BY <1>15 DEF InitLocated
<1>16. ASSUME NEW s \in Screens, Unmount(s) PROVE OnlyDone' /\ Forgotten'
  BY <1>16 DEF Unmount
<1>17. CASE Dismiss
  BY <1>17 DEF Dismiss, PopTop
<1>18. CASE DeleteQuery
  BY <1>18 DEF DeleteQuery
<1>19. CASE DeleteCommit
  BY <1>19 DEF DeleteCommit
<1>20. CASE AppKilled
  BY <1>20 DEF AppKilled
<1>21. CASE UNCHANGED vars
  BY <1>21 DEF vars
<1> QED
  BY <1>1, <1>2, <1>3, <1>4, <1>5, <1>6, <1>7, <1>8, <1>9, <1>10, <1>11,
     <1>12, <1>13, <1>14, <1>15, <1>16, <1>17, <1>18, <1>19, <1>20, <1>21
  DEF Next, CallProgress, AlertStep

(* Writes follow the position of the call. *)
LEMMA ProgressedStep ==
  ASSUME TypeOK, OnlyDone, Progressed, [Next]_vars
  PROVE  Progressed'
<1> USE ConstantsAssumption DEF serviceVars, storeVars, callVars, awaitVars, screenVars,
              dialogVars, contactVars, Screens, Sending, Suspended, Ended, Stored,
              TypeOK, Progressed, Unsent, OnlyDone
<1>1. ASSUME NEW t \in Alerts, NEW d \in Dialogs, SendSOS(t, d) PROVE Progressed'
  BY <1>1 DEF SendSOS
<1>2. ASSUME NEW t \in Alerts, PreLocate(t) PROVE Progressed'
  BY <1>2 DEF PreLocate
<1>3. ASSUME NEW t \in Alerts, Locate(t) PROVE Progressed'
  BY <1>3 DEF Locate
<1>4. ASSUME NEW t \in Alerts, AddAlert(t) PROVE Progressed'
  BY <1>4 DEF AddAlert, NotifiedContacts
<1>5. ASSUME NEW t \in Alerts, NotifyNext(t) PROVE Progressed'
  BY <1>5 DEF NotifyNext, InLoop
<1>6. ASSUME NEW t \in Alerts, RecordNotified(t) PROVE Progressed'
  BY <1>6 DEF RecordNotified, LoopOver, NotifiedContacts
<1>7. ASSUME NEW t \in Alerts, StartUpdates(t) PROVE Progressed'
  BY <1>7 DEF StartUpdates
<1>8. ASSUME NEW t \in Alerts, TriggerFails(t) PROVE Progressed'
  BY <1>8 DEF TriggerFails, LoopOver, SpinnerAfterFailure
<1>9. ASSUME NEW a \in Alerts, Tick(a) PROVE Progressed'
  BY <1>9 DEF Tick
<1>10. ASSUME NEW a \in Alerts, CallbackEnds(a) PROVE Progressed'
  BY <1>10 DEF CallbackEnds
<1>11. ASSUME NEW a \in Alerts, CancelSOS(a) PROVE Progressed'
  BY <1>11 DEF CancelSOS, StopTracking
<1>12. ASSUME NEW a \in Alerts, CancelReturns(a) PROVE Progressed'
  BY <1>12 DEF CancelReturns, PopTop
<1>13. ASSUME NEW a \in Alerts, ResolveSOS(a) PROVE Progressed'
  BY <1>13 DEF ResolveSOS, StopTracking
<1>14. ASSUME NEW d \in Dialogs, OpenDialog(d) PROVE Progressed'
  BY <1>14 DEF OpenDialog
<1>15. ASSUME NEW d \in Dialogs, InitLocated(d) PROVE Progressed'
  BY <1>15 DEF InitLocated
<1>16. ASSUME NEW s \in Screens, Unmount(s) PROVE Progressed'
  BY <1>16 DEF Unmount
<1>17. CASE Dismiss
  BY <1>17 DEF Dismiss, PopTop
<1>18. CASE DeleteQuery
  BY <1>18 DEF DeleteQuery
<1>19. CASE DeleteCommit
  BY <1>19 DEF DeleteCommit
<1>20. CASE AppKilled
  BY <1>20 DEF AppKilled
<1>21. CASE UNCHANGED vars
  BY <1>21 DEF vars
<1> QED
  BY <1>1, <1>2, <1>3, <1>4, <1>5, <1>6, <1>7, <1>8, <1>9, <1>10, <1>11,
     <1>12, <1>13, <1>14, <1>15, <1>16, <1>17, <1>18, <1>19, <1>20, <1>21
  DEF Next, CallProgress, AlertStep

(* Marks are never taken back, and what is recorded last is what is marked. *)
LEMMA MarkedStep ==
  ASSUME TypeOK, CallsHaveDialog, Marked, ReachedIsRecorded, [Next]_vars
  PROVE  Marked' /\ ReachedIsRecorded'
<1> USE ConstantsAssumption DEF serviceVars, storeVars, callVars, awaitVars, screenVars,
              dialogVars, contactVars, Screens, Sending, Suspended, Ended, Stored,
              TypeOK, CallsHaveDialog, Marked, ReachedIsRecorded
<1>1. ASSUME NEW t \in Alerts, NEW d \in Dialogs, SendSOS(t, d)
      PROVE  Marked' /\ ReachedIsRecorded'
  BY <1>1 DEF SendSOS
<1>2. ASSUME NEW t \in Alerts, PreLocate(t) PROVE Marked' /\ ReachedIsRecorded'
  BY <1>2 DEF PreLocate
<1>3. ASSUME NEW t \in Alerts, Locate(t) PROVE Marked' /\ ReachedIsRecorded'
  BY <1>3 DEF Locate
<1>4. ASSUME NEW t \in Alerts, AddAlert(t) PROVE Marked' /\ ReachedIsRecorded'
  BY <1>4 DEF AddAlert, NotifiedContacts
<1>5. ASSUME NEW t \in Alerts, NotifyNext(t) PROVE Marked' /\ ReachedIsRecorded'
  BY <1>5 DEF NotifyNext, InLoop
<1>6. ASSUME NEW t \in Alerts, RecordNotified(t) PROVE Marked' /\ ReachedIsRecorded'
  BY <1>6 DEF RecordNotified, LoopOver, NotifiedContacts
<1>7. ASSUME NEW t \in Alerts, StartUpdates(t) PROVE Marked' /\ ReachedIsRecorded'
  BY <1>7 DEF StartUpdates
<1>8. ASSUME NEW t \in Alerts, TriggerFails(t) PROVE Marked' /\ ReachedIsRecorded'
  BY <1>8 DEF TriggerFails, LoopOver, SpinnerAfterFailure
<1>9. ASSUME NEW a \in Alerts, Tick(a) PROVE Marked' /\ ReachedIsRecorded'
  BY <1>9 DEF Tick
<1>10. ASSUME NEW a \in Alerts, CallbackEnds(a) PROVE Marked' /\ ReachedIsRecorded'
  BY <1>10 DEF CallbackEnds
<1>11. ASSUME NEW a \in Alerts, CancelSOS(a) PROVE Marked' /\ ReachedIsRecorded'
  BY <1>11 DEF CancelSOS, StopTracking
<1>12. ASSUME NEW a \in Alerts, CancelReturns(a) PROVE Marked' /\ ReachedIsRecorded'
  BY <1>12 DEF CancelReturns, PopTop
<1>13. ASSUME NEW a \in Alerts, ResolveSOS(a) PROVE Marked' /\ ReachedIsRecorded'
  BY <1>13 DEF ResolveSOS, StopTracking
<1>14. ASSUME NEW d \in Dialogs, OpenDialog(d) PROVE Marked' /\ ReachedIsRecorded'
  BY <1>14 DEF OpenDialog
<1>15. ASSUME NEW d \in Dialogs, InitLocated(d) PROVE Marked' /\ ReachedIsRecorded'
  BY <1>15 DEF InitLocated
<1>16. ASSUME NEW s \in Screens, Unmount(s) PROVE Marked' /\ ReachedIsRecorded'
  BY <1>16 DEF Unmount
<1>17. CASE Dismiss
  BY <1>17 DEF Dismiss, PopTop
<1>18. CASE DeleteQuery
  BY <1>18 DEF DeleteQuery
<1>19. CASE DeleteCommit
  BY <1>19 DEF DeleteCommit
<1>20. CASE AppKilled
  BY <1>20 DEF AppKilled
<1>21. CASE UNCHANGED vars
  BY <1>21 DEF vars
<1> QED
  BY <1>1, <1>2, <1>3, <1>4, <1>5, <1>6, <1>7, <1>8, <1>9, <1>10, <1>11,
     <1>12, <1>13, <1>14, <1>15, <1>16, <1>17, <1>18, <1>19, <1>20, <1>21
  DEF Next, CallProgress, AlertStep

(* The spinner goes with the call that set it. *)
LEMMA SpinnerStep ==
  ASSUME TypeOK, CallsHaveDialog, SpinnerHasCall, [Next]_vars
  PROVE  SpinnerHasCall'
<1> USE ConstantsAssumption DEF serviceVars, storeVars, callVars, awaitVars, screenVars,
              dialogVars, contactVars, Screens, Sending, Suspended, Ended, Stored,
              TypeOK, CallsHaveDialog, SpinnerHasCall, Mounted
<1>1. ASSUME NEW t \in Alerts, NEW d \in Dialogs, SendSOS(t, d) PROVE SpinnerHasCall'
  BY <1>1 DEF SendSOS
<1>2. ASSUME NEW t \in Alerts, PreLocate(t) PROVE SpinnerHasCall'
  BY <1>2 DEF PreLocate
<1>3. ASSUME NEW t \in Alerts, Locate(t) PROVE SpinnerHasCall'
  BY <1>3 DEF Locate
<1>4. ASSUME NEW t \in Alerts, AddAlert(t) PROVE SpinnerHasCall'
  BY <1>4 DEF AddAlert, NotifiedContacts
<1>5. ASSUME NEW t \in Alerts, NotifyNext(t) PROVE SpinnerHasCall'
  BY <1>5 DEF NotifyNext, InLoop
<1>6. ASSUME NEW t \in Alerts, RecordNotified(t) PROVE SpinnerHasCall'
  BY <1>6 DEF RecordNotified, LoopOver, NotifiedContacts
<1>7. ASSUME NEW t \in Alerts, StartUpdates(t) PROVE SpinnerHasCall'
  BY <1>7 DEF StartUpdates
<1>8. ASSUME NEW t \in Alerts, TriggerFails(t) PROVE SpinnerHasCall'
  BY <1>8 DEF TriggerFails, LoopOver, SpinnerAfterFailure
<1>9. ASSUME NEW a \in Alerts, Tick(a) PROVE SpinnerHasCall'
  BY <1>9 DEF Tick
<1>10. ASSUME NEW a \in Alerts, CallbackEnds(a) PROVE SpinnerHasCall'
  BY <1>10 DEF CallbackEnds
<1>11. ASSUME NEW a \in Alerts, CancelSOS(a) PROVE SpinnerHasCall'
  BY <1>11 DEF CancelSOS, StopTracking
<1>12. ASSUME NEW a \in Alerts, CancelReturns(a) PROVE SpinnerHasCall'
  BY <1>12 DEF CancelReturns, PopTop
<1>13. ASSUME NEW a \in Alerts, ResolveSOS(a) PROVE SpinnerHasCall'
  BY <1>13 DEF ResolveSOS, StopTracking
<1>14. ASSUME NEW d \in Dialogs, OpenDialog(d) PROVE SpinnerHasCall'
  BY <1>14 DEF OpenDialog
<1>15. ASSUME NEW d \in Dialogs, InitLocated(d) PROVE SpinnerHasCall'
  BY <1>15 DEF InitLocated
<1>16. ASSUME NEW s \in Screens, Unmount(s) PROVE SpinnerHasCall'
  BY <1>16 DEF Unmount
<1>17. CASE Dismiss
  BY <1>17 DEF Dismiss, PopTop
<1>18. CASE DeleteQuery
  BY <1>18 DEF DeleteQuery
<1>19. CASE DeleteCommit
  BY <1>19 DEF DeleteCommit
<1>20. CASE AppKilled
  BY <1>20 DEF AppKilled
<1>21. CASE UNCHANGED vars
  BY <1>21 DEF vars
<1> QED
  BY <1>1, <1>2, <1>3, <1>4, <1>5, <1>6, <1>7, <1>8, <1>9, <1>10, <1>11,
     <1>12, <1>13, <1>14, <1>15, <1>16, <1>17, <1>18, <1>19, <1>20, <1>21
  DEF Next, CallProgress, AlertStep

-----------------------------------------------------------------------------
(* The parts together: the invariant that the safety properties follow from. *)
LEMMA Inductive == Spec => []IInv
<1>1. Init => IInv
  BY ConstantsAssumption, Zenon, SMT
  DEF Init, IInv, TypeOK, CallsHaveDialog, OnlyDone, Forgotten, Progressed, Marked,
      ReachedIsRecorded, SpinnerHasCall, Mounted, Screens, Contacts, Suspended, Unsent
<1>2. IInv /\ [Next]_vars => IInv'
  BY TypeStep, DialogStep, ForgottenStep, ProgressedStep, MarkedStep, SpinnerStep
  DEF IInv
<1> QED BY <1>1, <1>2, PTL DEF Spec

(* Every reachable state is well typed. *)
THEOREM TypeCorrect == Spec => []TypeOK
<1>1. IInv => TypeOK
  BY DEF IInv
<1> QED BY <1>1, Inductive, PTL

(* A cancelled alert is neither tracked nor the active alert of the service. *)
THEOREM CancelForgets == Spec => []CancelledIsForgotten
<1>1. IInv => CancelledIsForgotten
  BY DEF IInv, Forgotten, CancelledIsForgotten
<1> QED BY <1>1, Inductive, PTL

(* The document of a call past its write-back names every contact it reached,
   however many contacts there are and calls share their dialog. *)
THEOREM WriteBackComplete == Spec => []ReachedIsRecorded
<1>1. IInv => ReachedIsRecorded
  BY DEF IInv
<1> QED BY <1>1, Inductive, PTL

(* SOS Active is shown only for a call that tried every contact. *)
THEOREM ActiveAfterContacts == Spec => []ActiveMeansAttempted
<1>1. IInv => ActiveMeansAttempted
  BY DEF IInv, OnlyDone, Progressed, Mounted, ActiveMeansAttempted
<1> QED BY <1>1, Inductive, PTL

(* A dialog that shows the spinner has a call that will take it away. *)
THEOREM SpinnerJustified == Spec => []SpinnerHasCall
<1>1. IInv => SpinnerHasCall
  BY DEF IInv
<1> QED BY <1>1, Inductive, PTL

(* What the report of a failure leaves behind: the alert may be on record, but
   its location is never updated and no dialog for it is shown, so that nothing
   on the screen can cancel it. *)
THEOREM FailedIsUntracked ==
  Spec => [](\A t \in Alerts : pc[t] = "failed" => timer # t /\ ~Mounted(t) /\ cancels[t] = 0)
<1> DEFINE Untracked ==
      \A t \in Alerts : pc[t] = "failed" => timer # t /\ ~Mounted(t) /\ cancels[t] = 0
<1>1. IInv => Untracked
  BY DEF IInv, TypeOK, OnlyDone
<1> QED BY <1>1, Inductive, PTL

-----------------------------------------------------------------------------
(* The refinement.  Pending is what Promise substitutes for pending. *)
Pending == {t \in Alerts : pc[t] \in {"idle", "prelocating", "locating", "adding"}}

(* Each step of Sos is a step of SosPromise or changes nothing it sees. *)
LEMMA PromiseStep ==
  ASSUME IInv, [Next]_vars
  PROVE  [Promise!Next]_(Promise!vars)
<1> USE DEF IInv, TypeOK
<1>1. ASSUME NEW t \in Alerts, NEW d \in Dialogs, SendSOS(t, d)
      PROVE  [Promise!Next]_(Promise!vars)
  BY <1>1 DEF SendSOS, serviceVars, storeVars, callVars, Promise!vars
<1>2. ASSUME NEW t \in Alerts, PreLocate(t)
      PROVE  [Promise!Next]_(Promise!vars)
  <2>1. Pending' \subseteq Pending /\ timer' \in {timer, None} /\ status' = status
    BY <1>2
    DEF PreLocate, dialogVars, serviceVars, storeVars, callVars, Pending, Suspended, Sending
  <2>2. Promise!Fail
    BY <2>1 DEF Promise!Fail, Pending
  <2> QED BY <2>2 DEF Promise!Next
<1>3. ASSUME NEW t \in Alerts, Locate(t)
      PROVE  [Promise!Next]_(Promise!vars)
  BY <1>3 DEF Locate, serviceVars, storeVars, callVars, Promise!vars
<1>4. ASSUME NEW t \in Alerts, AddAlert(t)
      PROVE  [Promise!Next]_(Promise!vars)
  <2>1. t \in Pending /\ Pending' = Pending \ {t} /\ timer' = timer
    BY <1>4 DEF AddAlert, Pending
  <2>2. status' = [status EXCEPT ![t] = "active"]
    BY <1>4 DEF AddAlert
  <2>3. Promise!Raise(t)
    BY <2>1, <2>2 DEF Promise!Raise, Pending
  <2> QED BY <2>3 DEF Promise!Next
<1>5. ASSUME NEW t \in Alerts, NotifyNext(t)
      PROVE  [Promise!Next]_(Promise!vars)
  BY <1>5 DEF NotifyNext, serviceVars, storeVars, callVars, Promise!vars
<1>6. ASSUME NEW t \in Alerts, RecordNotified(t)
      PROVE  [Promise!Next]_(Promise!vars)
  BY <1>6
  DEF RecordNotified, LoopOver, serviceVars, storeVars, callVars, Promise!vars
<1>7. ASSUME NEW t \in Alerts, StartUpdates(t)
      PROVE  [Promise!Next]_(Promise!vars)
  <2>1. t \notin Pending /\ Pending' = Pending /\ timer' = t /\ status' = status
    BY <1>7 DEF StartUpdates, serviceVars, storeVars, callVars, Pending
  <2>2. status[t] # "cancelled"
    BY <1>7 DEF StartUpdates, Forgotten
  <2>3. Promise!Track(t)
    BY <2>1, <2>2 DEF Promise!Track, Pending
  <2> QED BY <2>3 DEF Promise!Next
<1>8. ASSUME NEW t \in Alerts, TriggerFails(t)
      PROVE  [Promise!Next]_(Promise!vars)
  <2>1. Pending' \subseteq Pending /\ timer' \in {timer, None} /\ status' = status
    BY <1>8
    DEF TriggerFails, serviceVars, storeVars, callVars, Pending, Suspended, Sending
  <2>2. Promise!Fail
    BY <2>1 DEF Promise!Fail, Pending
  <2> QED BY <2>2 DEF Promise!Next
<1>9. ASSUME NEW a \in Alerts, Tick(a)
      PROVE  [Promise!Next]_(Promise!vars)
  BY <1>9 DEF Tick, serviceVars, storeVars, callVars, Promise!vars
<1>10. ASSUME NEW a \in Alerts, CallbackEnds(a)
      PROVE  [Promise!Next]_(Promise!vars)
  BY <1>10 DEF CallbackEnds, serviceVars, storeVars, callVars, Promise!vars
<1>11. ASSUME NEW a \in Alerts, CancelSOS(a)
      PROVE  [Promise!Next]_(Promise!vars)
  <2>1. Pending' \subseteq Pending /\ timer' \in {timer, None} /\ status' = status
    BY <1>11
    DEF CancelSOS, StopTracking, serviceVars, storeVars, callVars, Pending, Suspended, Sending
  <2>2. Promise!Fail
    BY <2>1 DEF Promise!Fail, Pending
  <2> QED BY <2>2 DEF Promise!Next
<1>12. ASSUME NEW a \in Alerts, CancelReturns(a)
      PROVE  [Promise!Next]_(Promise!vars)
  <2>1. Pending' = Pending /\ timer' = timer /\ a \notin Pending /\ timer # a
    BY <1>12 DEF CancelReturns, serviceVars, storeVars, callVars, Pending, Forgotten
  <2>2. CASE UNCHANGED status
    BY <2>1, <2>2 DEF Promise!vars, Pending
  <2>3. CASE Stored(a) /\ status' = [status EXCEPT ![a] = "cancelled"]
    <3>1. Promise!Cancel(a)
      BY <2>1, <2>3 DEF Promise!Cancel, Pending, Stored
    <3> QED BY <3>1 DEF Promise!Next
  <2> QED BY <1>12, <2>2, <2>3 DEF CancelReturns
<1>13. ASSUME NEW a \in Alerts, ResolveSOS(a)
      PROVE  [Promise!Next]_(Promise!vars)
  <2>1. Pending' = Pending /\ timer' = None /\ a \notin Pending /\ Stored(a)
    BY <1>13
    DEF ResolveSOS, StopTracking, serviceVars, storeVars, callVars, Pending, Stored, Progressed, Unsent
  <2>2. CASE UNCHANGED status
    <3>1. Promise!Fail
      BY <2>1, <2>2 DEF Promise!Fail, Pending
    <3> QED BY <3>1 DEF Promise!Next
  <2>3. CASE status' = [status EXCEPT ![a] = "resolved"]
    <3>1. Promise!Resolve(a)
      BY <2>1, <2>3 DEF Promise!Resolve, Pending, Stored
    <3> QED BY <3>1 DEF Promise!Next
  <2> QED BY <1>13, <2>2, <2>3 DEF ResolveSOS, StopTracking
<1>14. ASSUME NEW d \in Dialogs, OpenDialog(d)
      PROVE  [Promise!Next]_(Promise!vars)
  BY <1>14 DEF OpenDialog, serviceVars, storeVars, callVars, Promise!vars
<1>15. ASSUME NEW d \in Dialogs, InitLocated(d)
      PROVE  [Promise!Next]_(Promise!vars)
  BY <1>15 DEF InitLocated, serviceVars, storeVars, callVars, Promise!vars
<1>16. ASSUME NEW s \in Screens, Unmount(s)
      PROVE  [Promise!Next]_(Promise!vars)
  BY <1>16 DEF Unmount, serviceVars, storeVars, callVars, Promise!vars
<1>17. CASE Dismiss
  BY <1>17 DEF Dismiss, serviceVars, storeVars, callVars, Promise!vars
<1>18. CASE DeleteQuery
  BY <1>18 DEF DeleteQuery, serviceVars, storeVars, callVars, Promise!vars
<1>19. CASE DeleteCommit
  <2>1. Pending' = Pending /\ timer' = timer
    BY <1>19 DEF DeleteCommit, serviceVars, storeVars, callVars, Pending
  <2>2. CASE UNCHANGED status
    BY <2>1, <2>2 DEF Promise!vars, Pending
  <2>3. CASE status' = [a \in Alerts |-> IF a \in doomed THEN "absent" ELSE status[a]]
    <3>1. Promise!Delete(doomed)
      BY <2>1, <2>3 DEF Promise!Delete, Pending
    <3> QED BY <3>1 DEF Promise!Next
  <2> QED BY <1>19, <2>2, <2>3 DEF DeleteCommit
<1>20. CASE AppKilled
  <2>1. Pending' \subseteq Pending /\ timer' \in {timer, None} /\ status' = status
    BY <1>20
    DEF AppKilled, serviceVars, storeVars, callVars, Pending, Suspended, Sending
  <2>2. Promise!Fail
    BY <2>1 DEF Promise!Fail, Pending
  <2> QED BY <2>2 DEF Promise!Next
<1>21. CASE UNCHANGED vars
  BY <1>21 DEF vars, serviceVars, storeVars, callVars, Promise!vars
<1> QED
  BY <1>1, <1>2, <1>3, <1>4, <1>5, <1>6, <1>7, <1>8, <1>9, <1>10, <1>11,
     <1>12, <1>13, <1>14, <1>15, <1>16, <1>17, <1>18, <1>19, <1>20, <1>21
  DEF Next, CallProgress, AlertStep

(* The service and its dialogs keep the promise of SosPromise: an alert is
   raised at most once, and never tracked once its cancellation is on record. *)
THEOREM Implements == Spec => PromiseKept
<1>1. Init => Promise!Init
  BY DEF Init, Promise!Init
<1>2. IInv /\ [Next]_vars => [Promise!Next]_(Promise!vars)
  BY PromiseStep
<1> QED BY <1>1, <1>2, Inductive, PTL DEF Spec, PromiseKept, Promise!Spec
=============================================================================
