-------------------------- MODULE PointerProtocol --------------------------
(***************************************************************************)
(* What the framework is promised of the pointer events it is given        *)
(* (packages/flutter/lib/src/gestures/binding.dart and                     *)
(* rendering/mouse_tracker.dart, dart:ui's PointerData): one action per    *)
(* event, whose guard is the promise.                                      *)
(***************************************************************************)
EXTENDS Naturals

CONSTANTS
  Devices,  \* pointing devices
  Views,    \* views there may be
  Places    \* positions

VARIABLES
  phase,    \* per device
  at,       \* its last position
  pointer,  \* the identifier of its last contact or gesture, 0 before
  newest,   \* the last identifier given out
  home,     \* the view it was added in
  views     \* the views that exist

vars == <<phase, at, pointer, newest, home, views>>

Init ==
  /\ phase = [d \in Devices |-> "absent"]
  /\ at \in [Devices -> Places]
  /\ pointer = [d \in Devices |-> 0] /\ newest = 0
  /\ home \in [Devices -> Views]
  /\ views \in SUBSET Views

Enter(d, p) == phase' = [phase EXCEPT ![d] = p]

(* An Added can only follow a Removed. *)
Added(d) ==
  /\ phase[d] = "absent" /\ Enter(d, "up")
  /\ \E l \in Places : at' = [at EXCEPT ![d] = l]
  /\ \E v \in views : home' = [home EXCEPT ![d] = v]
  /\ UNCHANGED <<pointer, newest, views>>

(* Position changes come with a hover while up, or a move while down. *)
Moved(d) ==
  /\ phase[d] # "absent"
  /\ \E l \in Places : at' = [at EXCEPT ![d] = l]
  /\ UNCHANGED <<phase, pointer, newest, home, views>>

(* A contact, or a gesture of a trackpad, begins where the pointer was last, *)
(* under an identifier never used before.                                    *)
Begun(d, p) ==
  /\ phase[d] = "up" /\ Enter(d, p)
  /\ newest' = newest + 1 /\ pointer' = [pointer EXCEPT ![d] = newest']
  /\ UNCHANGED <<at, home, views>>

Ended(d, p) ==
  /\ phase[d] = p /\ Enter(d, "up")
  /\ UNCHANGED <<at, pointer, newest, home, views>>

(* A contact is cancelled where it was, or where the pointer is removed. *)
Cancelled(d) ==
  /\ phase[d] = "down" /\ Enter(d, "up")
  /\ \E l \in Places : at' = [at EXCEPT ![d] = l]
  /\ UNCHANGED <<pointer, newest, home, views>>

(* A pointer is removed where it was; in contact only if its view is gone. *)
Removed(d) ==
  /\ phase[d] # "absent" /\ (phase[d] = "down" => home[d] \notin views)
  /\ Enter(d, "absent")
  /\ UNCHANGED <<at, pointer, newest, home, views>>

ViewsChange ==
  /\ views' \in SUBSET Views
  /\ UNCHANGED <<phase, at, pointer, newest, home>>

Next ==
  \/ ViewsChange
  \/ \E d \in Devices :
       \/ Added(d) \/ Moved(d) \/ Cancelled(d) \/ Removed(d)
       \/ \E p \in {"down", "panning"} : Begun(d, p) \/ Ended(d, p)

Spec == Init /\ [][Next]_vars
=============================================================================
