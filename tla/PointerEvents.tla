---------------------------- MODULE PointerEvents ----------------------------
(***************************************************************************)
(* The engine's clean-up of pointer events                                 *)
(* (lib/ui/window/pointer_data_packet_converter.cc): embedders send events *)
(* as their platforms do, the framework is given a well-formed sequence.   *)
(* A packet is converted and dispatched in one task of the UI thread       *)
(* (RuntimeController::DispatchPointerDataPacket), so converting the events *)
(* of a packet one by one and delivering each result before the next gives *)
(* the framework the same sequence.  Deltas, buttons and the values of a   *)
(* pan or zoom are left out.                                               *)
(***************************************************************************)
EXTENDS Naturals, Sequences

CONSTANTS
  Devices,      \* pointing devices
  Views,        \* ids of views
  Places,       \* physical positions
  MaxPointers,  \* bound: contacts and gestures begun
  None          \* no state kept of a device

ASSUME PointersAssumption == MaxPointers \in Nat

VARIABLES
  views,      \* the views the runtime controller knows
  states,     \* the converter's states_, per device
  pointer,    \* its counter, pointer_
  sent,       \* the embedder's idea of each device
  cur,        \* the view the embedder sends its events for
  converted,  \* the converted events not yet delivered
  told,       \* what the framework knows of each device
  newest,     \* the identifier it was last told of
  hitTests,   \* identifiers it keeps a hit test result for
  active,     \* contacts a Navigator holds to be down, _activePointers
  cancelled   \* history: contacts going on that it has cancelled itself

converter == <<states, pointer>>
embedder  == <<sent, cur>>
framework == <<told, newest, hitTests, active, cancelled>>
vars == <<views, converter, embedder, converted, framework>>

Changes == {"add", "remove", "hover", "down", "move", "up", "cancel",
            "panStart", "panUpdate", "panEnd", "signal"}
Starts == {"down", "panStart"}
Ends   == {"up", "cancel", "panEnd"}
Events == [change : Changes, device : Devices, view : Views, at : Places,
           pointer : 0..MaxPointers]
(* What may be sent when n identifiers are given out. *)
Issued(n) == {e \in Events : e.pointer <= n /\ (e.change \in Starts => e.pointer > 0)}
States == [view : Views, at : Places, down : BOOLEAN, panning : BOOLEAN,
           pointer : 0..MaxPointers]
ASSUME NoneAssumption == None \notin States

Known  == [phase : {"absent", "up", "down", "panning"}, at : Places,
           pointer : 0..MaxPointers, home : Views]

Init ==
  /\ views \in SUBSET Views
  /\ states = [d \in Devices |-> None] /\ pointer = 0
  /\ sent = [d \in Devices |-> "new"] /\ cur \in [Devices -> Views]
  /\ converted = <<>>
  /\ \E l \in Places, v \in Views :
       told = [d \in Devices |-> [phase |-> "absent", at |-> l, pointer |-> 0, home |-> v]]
  /\ newest = 0 /\ hitTests = {} /\ active = {} /\ cancelled = {}

-----------------------------------------------------------------------------
(* The converter's helpers. *)

As(e, c) == [e EXCEPT !.change = c]

(* EnsurePointerState *)
Fresh(e) == [view |-> e.view, at |-> e.at, down |-> FALSE, panning |-> FALSE, pointer |-> 0]

StateOf(e) == IF states[e.device] = None THEN Fresh(e) ELSE states[e.device]

(* The add that is synthesized for a device that sends without one. *)
Adding(e) == IF states[e.device] = None THEN <<As(e, "add")>> ELSE <<>>

(* LocationNeedsUpdate: the event of kind c that brings the pointer to e. *)
Sync(e, s, c) == IF e.at # s.at THEN <<As(e, c)>> ELSE <<>>

At(s, e) == [s EXCEPT !.at = e.at]

(* Mutant: the devices count their contacts apart. *)
Number_PerDevice(s, start) == IF start THEN s.pointer + 1 ELSE s.pointer

(* UpdatePointerIdentifier: a new identifier is that of the counter, raised. *)
Number(s, start) == IF start THEN pointer + 1 ELSE s.pointer

(* Mutant: the event keeps the identifier of the embedder, which sends none. *)
Identify_Not(e, s) == e

Identify(e, s) == [e EXCEPT !.pointer = Number(s, FALSE)]

(* Mutant: the device stays down. *)
Lifted_Never(s) == s

Lifted(s) == [s EXCEPT !.down = FALSE]

Keep(e, s, events) ==
  /\ states' = [states EXCEPT ![e.device] = s]
  /\ converted' = events

-----------------------------------------------------------------------------
(* ConvertPointerData, one operator per kind of event. *)

(* Mutant: always the view the pointer was added in. *)
RemoveIn_Old(e, s) == s.view

(* The view a remove synthesized on behalf of e is sent for. *)
RemoveIn(e, s) == IF s.view \in views THEN s.view ELSE e.view

(* An add on an added device: it is cancelled and removed first, where it was. *)
ConvertAdd(e) ==
  LET s == states[e.device]
      gone == [e EXCEPT !.view = RemoveIn(e, s), !.at = s.at]
      cancel == IF s.down /\ s.view \in views THEN <<Identify(As(gone, "cancel"), s)>> ELSE <<>>
      removal == IF s = None THEN <<>> ELSE cancel \o <<As(gone, "remove")>>
  IN  Keep(e, Fresh(e), removal \o <<e>>) /\ UNCHANGED pointer

(* A remove for a view the device was not added in is ignored. *)
ConvertRemove(e) ==
  LET s == states[e.device]
      cancel == IF s.down THEN <<Identify(As(e, "cancel"), s)>> ELSE <<>>
  IN  IF s.view # e.view
      THEN UNCHANGED <<converter, converted>>
      ELSE Keep(e, None, cancel \o Sync(e, s, "hover") \o <<e>>) /\ UNCHANGED pointer

(* A hover is passed on only when it moves the pointer. *)
ConvertHover(e) ==
  LET s == StateOf(e)
  IN  Keep(e, At(s, e), Adding(e) \o Sync(e, s, "hover")) /\ UNCHANGED pointer

(* A contact or a gesture begins, under a new identifier. *)
Begin(e, s) ==
  /\ pointer' = pointer + 1
  /\ Keep(e, [At(s, e) EXCEPT !.pointer = Number(s, TRUE)],
          Adding(e) \o Sync(e, StateOf(e), "hover") \o <<[e EXCEPT !.pointer = Number(s, TRUE)]>>)

ConvertDown(e)     == Begin(e, [StateOf(e) EXCEPT !.down = TRUE])
ConvertPanStart(e) == Begin(e, [StateOf(e) EXCEPT !.panning = TRUE])

(* A move, or an update of a gesture. *)
ConvertMove(e) ==
  LET s == states[e.device]
  IN  Keep(e, At(s, e), <<Identify(e, s)>>) /\ UNCHANGED pointer

(* An up or an end of gesture, which leaves t; c brings the pointer there. *)
Finish(e, t, c) ==
  LET i == Identify(e, states[e.device])
  IN  Keep(e, At(t, e), Sync(i, states[e.device], c) \o <<i>>) /\ UNCHANGED pointer

ConvertUp(e)     == Finish(e, Lifted(states[e.device]), "move")
ConvertPanEnd(e) == Finish(e, [states[e.device] EXCEPT !.panning = FALSE], "panUpdate")

(* A cancel for a device never added is dropped. *)
ConvertCancel(e) ==
  IF states[e.device] = None
  THEN UNCHANGED <<converter, converted>>
  ELSE Finish(e, Lifted(states[e.device]), "move")

(* A scroll or scale signal: the event that brings the pointer there is a *)
(* move when it is down, without the identifier of the contact.           *)
ConvertSignal(e) ==
  LET s == StateOf(e)
  IN  /\ Keep(e, At(s, e),
              Adding(e) \o Sync(e, s, IF s.down THEN "move" ELSE "hover") \o <<e>>)
      /\ UNCHANGED pointer

-----------------------------------------------------------------------------
(* The embedder (embedder.h, FlutterPointerPhase): a device sends its      *)
(* events for one view, between an add and a remove.  It may leave out the *)
(* add; and once its view is destroyed its next event for a living view is *)
(* an add (what it sends for the dead view the converter drops).  A remove *)
(* for another view, where it was before an add, may be late.              *)

Event(c, d, v, l) == [change |-> c, device |-> d, view |-> v, at |-> l, pointer |-> 0]

(* The device sends c from one of the phases and is then in phase `to'. *)
Sends(d, v, from, to) ==
  /\ converted = <<>> /\ v \in views
  /\ sent[d] \in from /\ (sent[d] # "new" => v = cur[d])
  /\ sent' = [sent EXCEPT ![d] = to] /\ cur' = [cur EXCEPT ![d] = v]
  /\ UNCHANGED <<views, framework>>

Add(d, v, l) ==
  /\ converted = <<>> /\ v \in views
  /\ sent' = [sent EXCEPT ![d] = "up"] /\ cur' = [cur EXCEPT ![d] = v]
  /\ ConvertAdd(Event("add", d, v, l))
  /\ UNCHANGED <<views, framework>>

Remove(d, v, l) ==
  /\ Sends(d, v, {"up", "down", "panning"}, "new")
  /\ ConvertRemove(Event("remove", d, v, l))

LateRemove(d, v, l) ==
  /\ converted = <<>> /\ v \in views
  /\ sent[d] \in {"up", "down", "panning"} /\ v # cur[d]
  /\ ConvertRemove(Event("remove", d, v, l))
  /\ UNCHANGED <<views, embedder, framework>>

Hover(d, v, l) ==
  Sends(d, v, {"new", "up"}, "up") /\ ConvertHover(Event("hover", d, v, l))

Down(d, v, l) ==
  /\ pointer < MaxPointers
  /\ Sends(d, v, {"new", "up"}, "down") /\ ConvertDown(Event("down", d, v, l))

PanStart(d, v, l) ==
  /\ pointer < MaxPointers
  /\ Sends(d, v, {"new", "up"}, "panning") /\ ConvertPanStart(Event("panStart", d, v, l))

Move(d, v, l) ==
  Sends(d, v, {"down"}, "down") /\ ConvertMove(Event("move", d, v, l))

PanUpdate(d, v, l) ==
  Sends(d, v, {"panning"}, "panning") /\ ConvertMove(Event("panUpdate", d, v, l))

Up(d, v, l) ==
  Sends(d, v, {"down"}, "up") /\ ConvertUp(Event("up", d, v, l))

PanEnd(d, v, l) ==
  Sends(d, v, {"panning"}, "up") /\ ConvertPanEnd(Event("panEnd", d, v, l))

(* Android's three finger gesture cancels a device it never added. *)
Cancel(d, v, l) ==
  \/ Sends(d, v, {"down"}, "up") /\ ConvertCancel(Event("cancel", d, v, l))
  \/ Sends(d, v, {"new"}, "new") /\ ConvertCancel(Event("cancel", d, v, l))

Signal(d, v, l) ==
  /\ \/ sent[d] = "new" /\ Sends(d, v, {"new"}, "up")
     \/ Sends(d, v, {"up", "down", "panning"}, sent[d])
  /\ ConvertSignal(Event("signal", d, v, l))

(* RuntimeController::AddView *)
AddView(v) ==
  /\ converted = <<>> /\ v \notin views
  /\ views' = views \union {v}
  /\ UNCHANGED <<converter, embedder, converted, framework>>

(* RuntimeController::RemoveView: nothing tells the converter. *)
RemoveView(v) ==
  /\ converted = <<>> /\ v \in views
  /\ views' = views \ {v}
  /\ sent' = [d \in Devices |-> IF cur[d] = v /\ sent[d] # "new" THEN "gone" ELSE sent[d]]
  /\ UNCHANGED <<converter, cur, converted, framework>>

-----------------------------------------------------------------------------
(* The framework handles the next event; it skips one for a view it does   *)
(* not have.  Contacts and gestures find their target when they begin.     *)

Phase(c, p) ==
  CASE c = "remove"                   -> "absent"
    [] c \in {"add", "up", "cancel", "panEnd"} -> "up"
    [] c = "down"                     -> "down"
    [] c = "panStart"                 -> "panning"
    [] OTHER                          -> p

Handle(e) ==
  /\ told' = [told EXCEPT ![e.device] =
                [phase   |-> Phase(e.change, @.phase),
                 at      |-> e.at,
                 pointer |-> IF e.change \in Starts THEN e.pointer ELSE @.pointer,
                 home    |-> IF e.change = "add" THEN e.view ELSE @.home]]
  /\ newest' = IF e.change \in Starts THEN e.pointer ELSE newest
  /\ hitTests' = CASE e.change \in Starts -> hitTests \union {e.pointer}
                   [] e.change \in Ends   -> hitTests \ {e.pointer}
                   [] OTHER               -> hitTests
  /\ active' = CASE e.change = "down"   -> active \union {e.pointer}
                 [] e.change \in Ends   -> active \ {e.pointer}
                 [] OTHER               -> active
  /\ cancelled' = IF e.change \in Ends THEN cancelled \ {e.pointer} ELSE cancelled

Deliver ==
  /\ converted # <<>>
  /\ converted' = Tail(converted)
  /\ IF Head(converted).view \in views
     THEN Handle(Head(converted))
     ELSE UNCHANGED framework
  /\ UNCHANGED <<views, converter, embedder>>

(* A Navigator that has gone to another route cancels the contacts it holds *)
(* to be down (_cancelActivePointers): GestureBinding handles a cancel of   *)
(* its own for each before any other event, while the engine's go on.       *)
CancelActivePointers(pointers) ==
  /\ pointers \subseteq active /\ pointers # {}
  /\ hitTests' = hitTests \ pointers /\ active' = active \ pointers
  /\ cancelled' = cancelled \union pointers
  /\ UNCHANGED <<views, converter, embedder, converted, told, newest>>

-----------------------------------------------------------------------------
Next ==
  \/ Deliver
  \/ \E pointers \in SUBSET active : CancelActivePointers(pointers)
  \/ \E v \in Views : AddView(v) \/ RemoveView(v)
  \/ \E d \in Devices, v \in Views, l \in Places :
       \/ Add(d, v, l) \/ Remove(d, v, l) \/ LateRemove(d, v, l) \/ Hover(d, v, l)
       \/ Down(d, v, l) \/ Move(d, v, l) \/ Up(d, v, l) \/ Cancel(d, v, l)
       \/ PanStart(d, v, l) \/ PanUpdate(d, v, l) \/ PanEnd(d, v, l)
       \/ Signal(d, v, l)

Spec == Init /\ [][Next]_vars

-----------------------------------------------------------------------------
(* Types; in particular no event carries an identifier not yet given out. *)
TypeOK ==
  /\ views \subseteq Views
  /\ states \in [Devices -> States \union {None}]
  /\ \A d \in Devices : states[d] # None => states[d].pointer <= pointer
  /\ pointer \in 0..MaxPointers
  /\ sent \in [Devices -> {"new", "up", "down", "panning", "gone"}]
  /\ cur \in [Devices -> Views]
  /\ converted \in Seq(Issued(pointer))
  /\ told \in [Devices -> Known]
  /\ newest \in 0..pointer
  /\ hitTests \subseteq 1..pointer
  /\ active \subseteq 1..pointer /\ cancelled \subseteq 1..pointer

(* A converter's state s agrees with an embedder in phase p in view v. *)
Agrees(s, p, v) ==
  /\ p = "new" => s = None
  /\ p \in {"up", "down", "panning"} =>
       s # None /\ s.down = (p = "down") /\ s.panning = (p = "panning") /\ s.view = v

(* The checks ConvertPointerData makes of its states, all at once: whatever *)
(* devices and views did before, a device the embedder holds to be down,    *)
(* panning, up or removed is so for the converter when its event arrives.   *)
ChecksHold == \A d \in Devices : Agrees(states[d], sent[d], cur[d])

(* The assertion of GestureBinding: an event that makes a hit test of its  *)
(* own finds none kept under its identifier, not even one of a pointer     *)
(* that was removed without being cancelled.                               *)
HitTestIsNew ==
  converted # <<>> /\ Head(converted).change \in Starts \union {"hover", "signal"} =>
    Head(converted).pointer \notin hitTests

(* What follows the beginning of a contact or a gesture is dispatched to   *)
(* the target found then; but for the move before a scroll signal, and for *)
(* what comes of a contact, never of a gesture, after a Navigator has      *)
(* cancelled it under its own identifier.                                  *)
TargetIsFound ==
  converted # <<>> /\ Head(converted).change \in Ends \union {"move", "panUpdate"} =>
    \/ Head(converted).pointer \in hitTests
    \/ Head(converted).change \notin {"panUpdate", "panEnd"} /\ Head(converted).pointer \in cancelled
    \/ Len(converted) = 2 /\ converted[2].change = "signal"

(* dart:ui's PointerData: the identifier, used to determine the hit test   *)
(* result, changes only with a new down event: a move carries that of the  *)
(* contact it is part of.                                                  *)
MoveHasContact ==
  converted # <<>> /\ Head(converted).change = "move" =>
    Head(converted).pointer = told[Head(converted).device].pointer

Promise == INSTANCE PointerProtocol WITH
  phase   <- [d \in Devices |-> told[d].phase],
  at      <- [d \in Devices |-> told[d].at],
  pointer <- [d \in Devices |-> told[d].pointer],
  home    <- [d \in Devices |-> told[d].home]

(* The framework is given what it is promised: an add only after a remove, *)
(* contacts and gestures that begin where the pointer is and under new     *)
(* identifiers, and no remove while in contact unless the view is gone.    *)
ImplementsProtocol == Promise!Spec
=============================================================================
