----------------------------- MODULE SosPromise -----------------------------
(***************************************************************************)
(* What SOSService promises about the documents of sos_alerts, whatever    *)
(* dialogs, timers and failures are behind it.  Sos implements it.         *)
(***************************************************************************)
CONSTANTS
  Alerts,  \* alerts that may ever be raised
  None     \* no alert

VARIABLES
  status,   \* status field of each document; "absent": no document
  tracked,  \* the alert whose location is being updated, or None
  pending   \* alerts that may still be raised

vars == <<status, tracked, pending>>

Init ==
  /\ status = [a \in Alerts |-> "absent"]
  /\ tracked = None
  /\ pending = Alerts

(* An alert is raised at most once. *)
Raise(a) ==
  /\ a \in pending
  /\ status' = [status EXCEPT ![a] = "active"]
  /\ pending' = pending \ {a}
  /\ UNCHANGED tracked

(* Only an alert that was raised, and is not cancelled, becomes tracked. *)
Track(a) ==
  /\ a \notin pending
  /\ status[a] # "cancelled"
  /\ tracked' = a
  /\ UNCHANGED <<status, pending>>

(* Tracking is over before the cancellation is on record. *)
Cancel(a) ==
  /\ a \notin pending
  /\ tracked # a
  /\ status[a] # "absent"
  /\ status' = [status EXCEPT ![a] = "cancelled"]
  /\ UNCHANGED <<tracked, pending>>

Resolve(a) ==
  /\ a \notin pending
  /\ status[a] # "absent"
  /\ status' = [status EXCEPT ![a] = "resolved"]
  /\ tracked' = None
  /\ UNCHANGED pending

(* Documents disappear; nothing is raised in their place. *)
Delete(S) ==
  /\ status' = [a \in Alerts |-> IF a \in S THEN "absent" ELSE status[a]]
  /\ UNCHANGED <<tracked, pending>>

(* A call fails, tracking stops, or the process dies. *)
Fail ==
  /\ pending' \in SUBSET pending
  /\ tracked' \in {tracked, None}
  /\ UNCHANGED status

Next ==
  \/ \E a \in Alerts : Raise(a) \/ Track(a) \/ Cancel(a) \/ Resolve(a)
  \/ \E S \in SUBSET Alerts : Delete(S)
  \/ Fail

Spec == Init /\ [][Next]_vars
=============================================================================
