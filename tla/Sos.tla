-------------------------------- MODULE Sos --------------------------------
(***************************************************************************)
(* The emergency alert: SOSService (lib/services/sos_service.dart) and the *)
(* two dialogs that drive it (lib/widgets/sos_dialog.dart).                *)
(*                                                                         *)
(* Dart runs one event at a time, so an action is the code between two     *)
(* awaits.  A call of triggerSOS creates at most one document, so the call *)
(* and the document share one identifier.                                  *)
(***************************************************************************)
EXTENDS Naturals, FiniteSets

CONSTANTS
  Dialogs,       \* instances of SOSDialog the user may open
  Alerts,        \* calls of triggerSOS, and the alert each one may create
  NumContacts,   \* length of _emergencyContacts
  MaxCallbacks,  \* bound: timer callbacks of one alert in flight at once
  MaxCancels,    \* bound: cancelSOS calls of one alert in flight at once
  None           \* null

ASSUME ConstantsAssumption ==
  /\ NumContacts \in Nat
  /\ MaxCallbacks \in Nat
  /\ MaxCancels \in Nat
  /\ None \notin Dialogs \cup Alerts
  /\ Dialogs \cap Alerts = {}

VARIABLES
  timer,         \* alert whose periodic timer runs, or None
  activeAlertId, \* SOSService._activeAlertId
  status,        \* status field of each document; "absent": no document
  recorded,      \* contacts whose notificationSent is true in the document
  doomed,        \* result of the query of deleteAllUserSosAlerts, not yet deleted
  pc,            \* where each call of _triggerSOS / triggerSOS is suspended
  dlg,           \* the dialog that made the call
  idx,           \* next contact of the notification loop
  callbacks,     \* timer callbacks not finished yet, per alert
  cancels,       \* cancelSOS calls not finished yet, per alert
  top,           \* dialog on the screen: an SOSDialog, an alert's, or None
  closing,       \* dialogs popped but still mounted (exit transition)
  page,          \* the map page is still under the dialogs
  opened,        \* SOSDialogs opened so far
  located,       \* dialogs with _currentLocation # null
  triggering,    \* dialogs with _isTriggering
  sent,          \* notificationSent of the dialog's contact objects
  launched       \* contacts a call really opened the phone or SMS app for

serviceVars == <<timer, activeAlertId>>
storeVars   == <<status, recorded, doomed>>
callVars    == <<pc, dlg, idx>>
awaitVars   == <<callbacks, cancels>>
screenVars  == <<top, closing, page, opened>>
dialogVars  == <<located, triggering>>
contactVars == <<sent, launched>>

vars == <<timer, activeAlertId, status, recorded, doomed, pc, dlg, idx,
          callbacks, cancels, top, closing, page, opened, located, triggering,
          sent, launched>>

Contacts == 1 .. NumContacts
Screens  == Dialogs \cup Alerts

(* Suspension points of a call, in the order the code passes them. *)
Sending   == {"locating", "adding", "notifying", "recorded"}
Suspended == {"prelocating"} \cup Sending
Ended     == {"done", "failed", "refused", "lost"}

Stored(a) == status[a] # "absent"

(* State.mounted: a popped dialog stays mounted during its exit transition. *)
Mounted(s) == top = s \/ s \in closing

TypeOK ==
  /\ timer \in Alerts \cup {None}
  /\ activeAlertId \in Alerts \cup {None}
  /\ status \in [Alerts -> {"absent", "active", "cancelled", "resolved"}]
  /\ recorded \in [Alerts -> SUBSET Contacts]
  /\ doomed \in SUBSET Alerts
  /\ pc \in [Alerts -> {"idle"} \cup Suspended \cup Ended]
  /\ dlg \in [Alerts -> Dialogs \cup {None}]
  /\ idx \in [Alerts -> 1 .. NumContacts + 1]
  /\ callbacks \in [Alerts -> 0 .. MaxCallbacks]
  /\ cancels \in [Alerts -> 0 .. MaxCancels]
  /\ top \in Screens \cup {None}
  /\ closing \in SUBSET Screens
  /\ page \in BOOLEAN
  /\ opened \in SUBSET Dialogs
  /\ located \in SUBSET Dialogs
  /\ triggering \in SUBSET Dialogs
  /\ sent \in [Dialogs -> SUBSET Contacts]
  /\ launched \in [Alerts -> SUBSET Contacts]

Init ==
  /\ timer = None
  /\ activeAlertId = None
  /\ status = [a \in Alerts |-> "absent"]
  /\ recorded = [a \in Alerts |-> {}]
  /\ doomed = {}
  /\ pc = [a \in Alerts |-> "idle"]
  /\ dlg = [a \in Alerts |-> None]
  /\ idx = [a \in Alerts |-> 1]
  /\ callbacks = [a \in Alerts |-> 0]
  /\ cancels = [a \in Alerts |-> 0]
  /\ top = None
  /\ closing = {}
  /\ page = TRUE
  /\ opened = {}
  /\ located = {}
  /\ triggering = {}
  /\ sent = [d \in Dialogs |-> {}]
  /\ launched = [a \in Alerts |-> {}]

-----------------------------------------------------------------------------
(* SOSDialog: opening, locating and leaving it. *)

(* The SOS button; it is under the modal barrier while a dialog is up. *)
OpenDialog(d) ==
  /\ top = None
  /\ page
  /\ d \notin opened
  /\ top' = d
  /\ opened' = opened \cup {d}
  /\ UNCHANGED <<serviceVars, storeVars, callVars, awaitVars, closing, page,
                 dialogVars, contactVars>>

(* _getCurrentLocation started by initState answers; setState on a dialog
   that is gone throws and is caught. *)
InitLocated(d) ==
  /\ Mounted(d)
  /\ d \notin located
  /\ located' = located \cup {d}
  /\ UNCHANGED <<serviceVars, storeVars, callVars, awaitVars, screenVars,
                 triggering, contactVars>>

(* Navigator.pop: takes whatever is on top, the map page if no dialog is. *)
PopTop ==
  /\ top' = None
  /\ closing' = closing \cup ({top} \ {None})
  /\ page' = (page /\ top # None)

(* CANCEL button, disabled while triggering, or the system back button, which
   neither dialog intercepts. *)
Dismiss ==
  /\ top # None
  /\ PopTop
  /\ UNCHANGED <<serviceVars, storeVars, callVars, awaitVars, opened,
                 dialogVars, contactVars>>

(* The exit transition of a popped dialog ends and its State is disposed. *)
Unmount(s) ==
  /\ s \in closing
  /\ closing' = closing \ {s}
  /\ UNCHANGED <<serviceVars, storeVars, callVars, awaitVars, top, page, opened,
                 dialogVars, contactVars>>

-----------------------------------------------------------------------------
(* One call of _triggerSOS: the dialog's part, then SOSService.triggerSOS. *)

(* SEND SOS.  _isTriggering is set only after the location is known. *)
SendSOS(t, d) ==
  /\ top = d
  /\ d \notin triggering
  /\ pc[t] = "idle"
  /\ dlg' = [dlg EXCEPT ![t] = d]
  /\ pc' = [pc EXCEPT ![t] = IF d \in located THEN "locating" ELSE "prelocating"]
  /\ triggering' = triggering \cup ({d} \cap located)
  /\ UNCHANGED <<serviceVars, storeVars, idx, awaitVars, screenVars, located,
                 contactVars>>

(* The dialog's own await _getCurrentLocation() returns.  Once the dialog is
   unmounted the setState before the call throws, so nothing is sent. *)
PreLocate(t) ==
  LET d == dlg[t] IN
  /\ pc[t] = "prelocating"
  /\ \E found \in BOOLEAN :
       IF Mounted(d) /\ (found \/ d \in located)
       THEN /\ pc' = [pc EXCEPT ![t] = "locating"]
            /\ located' = located \cup {d}
            /\ triggering' = triggering \cup {d}
       ELSE /\ pc' = [pc EXCEPT ![t] = "refused"]
            /\ UNCHANGED dialogVars
  /\ UNCHANGED <<serviceVars, storeVars, dlg, idx, awaitVars, screenVars,
                 contactVars>>

(* triggerSOS has its position; getCurrentUserId and the anonymous sign-in
   that replaces it never throw. *)
Locate(t) ==
  /\ pc[t] = "locating"
  /\ pc' = [pc EXCEPT ![t] = "adding"]
  /\ UNCHANGED <<serviceVars, storeVars, dlg, idx, awaitVars, screenVars,
                 dialogVars, contactVars>>

(* Mutant: the status is read from the document instead. *)
NotifiedContactsUnread(t) == recorded[t]

(* notifiedContacts as a document stores it: read from the contact objects,
   which all calls of one dialog share. *)
NotifiedContacts(t) == sent[dlg[t]]

(* Mutant: add is retried although an earlier one was already applied. *)
AddAlertRetried(t) ==
  /\ pc[t] \in {"adding", "notifying"}
  /\ status' = [status EXCEPT ![t] = "active"]
  /\ recorded' = [recorded EXCEPT ![t] = NotifiedContacts(t)]
  /\ activeAlertId' = t
  /\ pc' = [pc EXCEPT ![t] = "notifying"]
  /\ UNCHANGED <<timer, doomed, dlg, idx, awaitVars, screenVars, dialogVars,
                 contactVars>>

(* The server acknowledges the new document. *)
AddAlert(t) ==
  /\ pc[t] = "adding"
  /\ status' = [status EXCEPT ![t] = "active"]
  /\ recorded' = [recorded EXCEPT ![t] = NotifiedContacts(t)]
  /\ activeAlertId' = t
  /\ pc' = [pc EXCEPT ![t] = "notifying"]
  /\ UNCHANGED <<timer, doomed, dlg, idx, awaitVars, screenVars, dialogVars,
                 contactVars>>

(* Mutant: the loop stops one contact too early. *)
LoopOverTooSoon(t) == pc[t] = "notifying" /\ idx[t] >= NumContacts

(* Bounds of the loop over the contacts. *)
InLoop(t)   == pc[t] = "notifying" /\ idx[t] <= NumContacts
LoopOver(t) == pc[t] = "notifying" /\ idx[t] > NumContacts

(* One turn of the loop of _notifyEmergencyContacts.  The app opens; or
   canLaunchUrl is false and the contact is marked all the same; or the
   launch throws and the loop goes on. *)
NotifyNext(t) ==
  LET c == idx[t]
      d == dlg[t]
  IN
  /\ InLoop(t)
  /\ \/ /\ launched' = [launched EXCEPT ![t] = @ \cup {c}]
        /\ sent' = [sent EXCEPT ![d] = @ \cup {c}]
     \/ /\ sent' = [sent EXCEPT ![d] = @ \cup {c}]
        /\ UNCHANGED launched
     \/ UNCHANGED contactVars
  /\ idx' = [idx EXCEPT ![t] = c + 1]
  /\ UNCHANGED <<serviceVars, storeVars, pc, dlg, awaitVars, screenVars,
                 dialogVars>>

(* The loop is over and the notification status is written back; update
   needs the document to exist. *)
RecordNotified(t) ==
  /\ LoopOver(t)
  /\ Stored(t)
  /\ recorded' = [recorded EXCEPT ![t] = NotifiedContacts(t)]
  /\ pc' = [pc EXCEPT ![t] = "recorded"]
  /\ UNCHANGED <<serviceVars, status, doomed, dlg, idx, awaitVars, screenVars,
                 dialogVars, contactVars>>

(* _startLocationUpdates replaces whatever timer runs, and the dialog, if it
   is still mounted, pops the top route and shows the SOS Active dialog. *)
StartUpdates(t) ==
  LET d == dlg[t] IN
  /\ pc[t] = "recorded"
  /\ timer' = t
  /\ pc' = [pc EXCEPT ![t] = "done"]
  /\ IF Mounted(d)
     THEN /\ top' = t
          /\ closing' = closing \cup ({top} \ {None})
          /\ page' = (page /\ top # None)
          /\ triggering' = triggering \ {d}
     ELSE UNCHANGED <<top, closing, page, triggering>>
  /\ UNCHANGED <<activeAlertId, storeVars, dlg, idx, awaitVars, opened,
                 located, contactVars>>

(* Mutant: the reset is not in the finally block. *)
SpinnerKept(d) == triggering

(* _isTriggering after a failed call: finally resets it while mounted. *)
SpinnerAfterFailure(d) ==
  IF Mounted(d) THEN triggering \ {d} ELSE triggering

(* An await of triggerSOS throws: no position, or a write is refused.  What
   the earlier steps did is not undone; the dialog reports the failure. *)
TriggerFails(t) ==
  /\ pc[t] \in {"locating", "adding"} \/ LoopOver(t)
  /\ pc' = [pc EXCEPT ![t] = "failed"]
  /\ triggering' = SpinnerAfterFailure(dlg[t])
  /\ UNCHANGED <<serviceVars, storeVars, dlg, idx, awaitVars, screenVars,
                 located, contactVars>>

-----------------------------------------------------------------------------
(* Location updates. *)

(* The periodic timer fires; its callback waits for a position. *)
Tick(a) ==
  /\ timer = a
  /\ callbacks[a] < MaxCallbacks
  /\ callbacks' = [callbacks EXCEPT ![a] = @ + 1]
  /\ UNCHANGED <<serviceVars, storeVars, callVars, cancels, screenVars,
                 dialogVars, contactVars>>

(* The callback ends: the position is written, whatever the alert's status
   is by then, or an exception is logged.  Nothing but the location, which is
   not modelled, changes. *)
CallbackEnds(a) ==
  /\ callbacks[a] > 0
  /\ callbacks' = [callbacks EXCEPT ![a] = @ - 1]
  /\ UNCHANGED <<serviceVars, storeVars, callVars, cancels, screenVars,
                 dialogVars, contactVars>>

-----------------------------------------------------------------------------
(* Closing and deleting alerts. *)

(* Mutant: the timer is forgotten, not cancelled. *)
TrackingLeft ==
  /\ UNCHANGED timer
  /\ activeAlertId' = None

(* First statements of cancelSOS and resolveSOS: they stop the only timer,
   whichever alert it serves. *)
StopTracking ==
  /\ timer' = None
  /\ activeAlertId' = None

(* I'M SAFE on the alert's dialog, which stays up until the write is
   acknowledged, so it can be pressed again. *)
CancelSOS(a) ==
  /\ top = a
  /\ cancels[a] < MaxCancels
  /\ StopTracking
  /\ cancels' = [cancels EXCEPT ![a] = @ + 1]
  /\ UNCHANGED <<storeVars, callVars, callbacks, screenVars, dialogVars,
                 contactVars>>

(* The write of cancelSOS is acknowledged and the dialog, while it is mounted,
   pops the top route; or the write is refused and the dialog stays. *)
CancelReturns(a) ==
  /\ cancels[a] > 0
  /\ cancels' = [cancels EXCEPT ![a] = @ - 1]
  /\ \/ /\ Stored(a)
        /\ status' = [status EXCEPT ![a] = "cancelled"]
        /\ IF Mounted(a) THEN PopTop ELSE UNCHANGED <<top, closing, page>>
     \/ UNCHANGED <<status, top, closing, page>>
  /\ UNCHANGED <<serviceVars, recorded, doomed, callVars, callbacks, opened,
                 dialogVars, contactVars>>

(* resolveSOS, which no screen calls, of any stored alert. *)
ResolveSOS(a) ==
  /\ Stored(a)
  /\ StopTracking
  /\ \/ status' = [status EXCEPT ![a] = "resolved"]
     \/ UNCHANGED status
  /\ UNCHANGED <<recorded, doomed, callVars, awaitVars, screenVars, dialogVars,
                 contactVars>>

(* deleteAllUserSosAlerts, from the settings screen: the query ... *)
DeleteQuery ==
  /\ top = None
  /\ doomed = {}
  /\ doomed' = {a \in Alerts : Stored(a)}
  /\ doomed' # {}
  /\ UNCHANGED <<serviceVars, status, recorded, callVars, awaitVars,
                 screenVars, dialogVars, contactVars>>

(* ... and the batch, which is applied as a whole or refused. *)
DeleteCommit ==
  /\ doomed # {}
  /\ doomed' = {}
  /\ \/ status' = [a \in Alerts |-> IF a \in doomed THEN "absent" ELSE status[a]]
     \/ UNCHANGED status
  /\ UNCHANGED <<serviceVars, recorded, callVars, awaitVars, screenVars,
                 dialogVars, contactVars>>

(* The process is killed: static fields, calls and dialogs are gone, the
   documents stay.  Nothing looks for them at the next start. *)
AppKilled ==
  /\ timer' = None
  /\ activeAlertId' = None
  /\ doomed' = {}
  /\ pc' = [a \in Alerts |-> IF pc[a] \in Suspended THEN "lost" ELSE pc[a]]
  /\ callbacks' = [a \in Alerts |-> 0]
  /\ cancels' = [a \in Alerts |-> 0]
  /\ top' = None
  /\ closing' = {}
  /\ page' = TRUE
  /\ UNCHANGED <<status, recorded, dlg, idx, opened, dialogVars, contactVars>>

-----------------------------------------------------------------------------
(* What a call does once it has been started. *)
CallProgress(t) ==
  \/ PreLocate(t)
  \/ Locate(t)
  \/ AddAlert(t)
  \/ NotifyNext(t)
  \/ RecordNotified(t)
  \/ StartUpdates(t)
  \/ TriggerFails(t)

AlertStep(a) ==
  \/ Tick(a)
  \/ CallbackEnds(a)
  \/ CancelSOS(a)
  \/ CancelReturns(a)
  \/ ResolveSOS(a)

Next ==
  \/ \E t \in Alerts : \E d \in Dialogs : SendSOS(t, d)
  \/ \E t \in Alerts : CallProgress(t)
  \/ \E a \in Alerts : AlertStep(a)
  \/ \E d \in Dialogs : OpenDialog(d)
  \/ \E d \in Dialogs : InitLocated(d)
  \/ \E s \in Screens : Unmount(s)
  \/ Dismiss
  \/ DeleteQuery
  \/ DeleteCommit
  \/ AppKilled

Spec == Init /\ [][Next]_vars

(* The platform returns positions, launches apps and runs transitions, and
   the server answers: what every await of the service assumes. *)
FairSpec ==
  /\ Spec
  /\ \A t \in Alerts : WF_vars(CallProgress(t))
  /\ \A a \in Alerts : WF_vars(CallbackEnds(a)) /\ WF_vars(CancelReturns(a))

-----------------------------------------------------------------------------
(* Properties. *)

(* An alert whose cancellation the server holds is neither tracked nor the
   service's active alert, although cancelSOS stops the tracker first and
   writes later, while other calls start trackers of their own. *)
CancelledIsForgotten ==
  \A a \in Alerts :
    status[a] = "cancelled" => timer # a /\ activeAlertId # a

(* Once _notifyEmergencyContacts has written back, the document names every
   contact the call really reached, even when the calls of one dialog run
   together and mark the same contact objects. *)
ReachedIsRecorded ==
  \A t \in Alerts : pc[t] \in {"recorded", "done"} => launched[t] \subseteq recorded[t]

(* The SOS Active dialog is only ever shown for a call that has tried every
   contact, whatever was dismissed, retried or deleted meanwhile. *)
ActiveMeansAttempted ==
  \A t \in Alerts : top = t => pc[t] = "done" /\ idx[t] > NumContacts

(* The SENDING... spinner, which disables both buttons of a dialog that has no
   other way out on most platforms, never outlives the calls it stands for. *)
SpinnerHasCall ==
  \A d \in Dialogs :
    Mounted(d) /\ d \in triggering => \E t \in Alerts : dlg[t] = d /\ pc[t] \in Sending

(* A dialog that shows SENDING... does not do so for ever. *)
SpinnerStops ==
  \A d \in Dialogs : (top = d /\ d \in triggering) ~> ~(top = d /\ d \in triggering)

(* After a cancellation the location callbacks of that alert die out for good:
   no late trigger or retry ever starts its timer again. *)
CancelStopsUpdates ==
  \A a \in Alerts : [](status[a] = "cancelled" => <>[](callbacks[a] = 0))

(* The alert's life as the rest of the system may rely on it. *)
Promise == INSTANCE SosPromise WITH
  tracked <- timer,
  pending <- {t \in Alerts : pc[t] \in {"idle", "prelocating", "locating", "adding"}}

(* Every step of the service and its dialogs is a step of SosPromise or none:
   an alert is raised once, never tracked once cancelled, and never reopened. *)
PromiseKept == Promise!Spec

-----------------------------------------------------------------------------
(* What a text of the program says, and the code does not do. *)

(* sos_service.dart:67 and sos_dialog.dart:205: "Failed to send SOS" means no
   alert was sent. *)
FailureMeansNotSent ==
  \A t \in Alerts : pc[t] = "failed" => ~Stored(t)
=============================================================================
