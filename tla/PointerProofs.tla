---------------------------- MODULE PointerProofs ----------------------------
(***************************************************************************)
(* Proofs about PointerEvents: the types, the checks the converter makes   *)
(* of its states, the targets the framework keeps, and the promise of      *)
(* PointerProtocol, for any devices, views and positions.                  *)
(***************************************************************************)
EXTENDS PointerEvents, TLAPS, SequenceTheorems

-----------------------------------------------------------------------------
(* Sequences of events. *)

(* Sequences over a set are closed under what the converter does to them. *)
LEMMA SeqClosed ==
  ASSUME NEW S
  PROVE  /\ <<>> \in Seq(S)
         /\ \A x \in S : <<x>> \in Seq(S)
         /\ \A s, t \in Seq(S) : s \o t \in Seq(S)
         /\ \A s \in Seq(S) : s # <<>> => Head(s) \in S /\ Tail(s) \in Seq(S)
  OBVIOUS

(* What the embedder sends. *)
Raw == {e \in Events : e.pointer = 0}

LEMMA EventIsRaw ==
  ASSUME NEW c \in Changes, NEW d \in Devices, NEW v \in Views, NEW l \in Places
  PROVE  /\ Event(c, d, v, l) \in Raw
         /\ Event(c, d, v, l).change = c /\ Event(c, d, v, l).device = d
         /\ Event(c, d, v, l).view = v /\ Event(c, d, v, l).at = l
  BY PointersAssumption DEF Event, Raw, Events

(* An event without an identifier may be sent when it begins nothing. *)
LEMMA RawIssued ==
  ASSUME NEW n \in Nat, NEW e \in Raw, e.change \notin Starts
  PROVE  e \in Issued(n)
  BY DEF Raw, Issued, Events

LEMMA AsRaw ==
  ASSUME NEW e \in Raw, NEW c \in Changes
  PROVE  /\ As(e, c) \in Raw /\ As(e, c).change = c
         /\ As(e, c).device = e.device /\ As(e, c).view = e.view /\ As(e, c).at = e.at
  BY DEF Raw, As, Events

(* An event given an identifier already given out may be sent. *)
LEMMA NumberedIssued ==
  ASSUME NEW n \in 0..MaxPointers, NEW e \in Raw, NEW i \in 0..n,
         e.change \in Starts => i > 0
  PROVE  [e EXCEPT !.pointer = i] \in Issued(n)
  <1> DEFINE f == [e EXCEPT !.pointer = i]
  <1>1. f \in Events /\ f.pointer = i /\ f.change = e.change
    BY PointersAssumption DEF Raw, Events
  <1>2. i <= n /\ (e.change \in Starts => i > 0)
    BY PointersAssumption
  <1> HIDE DEF f
  <1>3. f \in Issued(n)
    BY <1>1, <1>2 DEF Issued
  <1>4. QED  BY <1>3 DEF f

(* What may be sent goes on to be. *)
LEMMA IssuedGrows ==
  ASSUME NEW n \in Nat, NEW m \in Nat, n <= m
  PROVE  Issued(n) \subseteq Issued(m)
  BY PointersAssumption DEF Issued, Events

(* A synchronising event may be sent. *)
LEMMA SyncIssued ==
  ASSUME NEW n \in Nat, NEW e \in Raw, NEW s, NEW c \in Changes \ Starts
  PROVE  Sync(e, s, c) \in Seq(Issued(n))
  <1>1. As(e, c) \in Issued(n)
    <2>1. As(e, c) \in Raw /\ As(e, c).change = c
      BY AsRaw
    <2>2. QED  BY <2>1, RawIssued
  <1>2. <<>> \in Seq(Issued(n)) /\ <<As(e, c)>> \in Seq(Issued(n))
    BY <1>1, SeqClosed
  <1>3. QED  BY <1>2 DEF Sync

LEMMA AddingIssued ==
  ASSUME NEW n \in Nat, NEW e \in Raw
  PROVE  Adding(e) \in Seq(Issued(n))
  <1>1. As(e, "add") \in Issued(n)
    <2>1. As(e, "add") \in Raw /\ As(e, "add").change = "add"
      BY AsRaw DEF Changes
    <2>2. QED  BY <2>1, RawIssued DEF Starts
  <1>2. <<>> \in Seq(Issued(n)) /\ <<As(e, "add")>> \in Seq(Issued(n))
    BY <1>1, SeqClosed
  <1>3. QED  BY <1>2 DEF Adding

-----------------------------------------------------------------------------
(* The converter. *)

(* The types of what the converter keeps and emits. *)
ConverterOK ==
  /\ pointer \in 0..MaxPointers
  /\ states \in [Devices -> States \union {None}]
  /\ \A d \in Devices : states[d] # None => states[d].pointer <= pointer

LEMMA FreshType ==
  ASSUME NEW e \in Raw
  PROVE  /\ Fresh(e) \in States /\ Fresh(e).pointer = 0 /\ Fresh(e).view = e.view
         /\ Fresh(e).down = FALSE /\ Fresh(e).panning = FALSE
  BY PointersAssumption DEF Fresh, Raw, Events, States

(* A state kept is one, and its identifier is given out. *)
LEMMA KeptType ==
  ASSUME ConverterOK, NEW d \in Devices, states[d] # None
  PROVE  states[d] \in States /\ states[d].pointer \in 0..pointer
  BY PointersAssumption DEF ConverterOK, States

LEMMA StateOfType ==
  ASSUME ConverterOK, NEW e \in Raw
  PROVE  StateOf(e) \in States /\ StateOf(e).pointer \in 0..pointer
  <1>1. e.device \in Devices /\ pointer \in Nat
    BY PointersAssumption DEF Raw, Events, ConverterOK
  <1>2. CASE states[e.device] = None
    <2>1. StateOf(e) = Fresh(e)
      BY <1>2 DEF StateOf
    <2>2. Fresh(e) \in States /\ Fresh(e).pointer = 0
      BY FreshType
    <2>3. 0 \in 0..pointer
      BY <1>1
    <2>4. QED  BY <2>1, <2>2, <2>3
  <1>3. CASE states[e.device] # None
    BY <1>1, <1>3, KeptType DEF StateOf
  <1>4. QED  BY <1>2, <1>3

(* Moving a state, ending its contact and ending its gesture. *)
LEMMA AtType ==
  ASSUME NEW e \in Raw, NEW s \in States
  PROVE  /\ At(s, e) \in States /\ At(s, e).pointer = s.pointer /\ At(s, e).view = s.view
         /\ At(s, e).down = s.down /\ At(s, e).panning = s.panning
  BY DEF At, Raw, Events, States

LEMMA LiftedType ==
  ASSUME NEW s \in States
  PROVE  /\ Lifted(s) \in States /\ Lifted(s).pointer = s.pointer
         /\ Lifted(s).view = s.view /\ Lifted(s).down = FALSE /\ Lifted(s).panning = s.panning
  BY DEF Lifted, States

(* Keep stores one state. *)
LEMMA KeepType ==
  ASSUME ConverterOK, pointer' \in pointer..MaxPointers,
         NEW e \in Raw, NEW s, NEW events, Keep(e, s, events),
         s = None \/ (s \in States /\ s.pointer <= pointer')
  PROVE  ConverterOK' /\ states'[e.device] = s /\ e.device \in Devices
         /\ \A d \in Devices \ {e.device} : states'[d] = states[d]
  <1>1. e.device \in Devices
    BY DEF Raw, Events
  <1>2. states' = [states EXCEPT ![e.device] = s] /\ states \in [Devices -> States \union {None}]
    BY DEF Keep, ConverterOK
  <1>3. /\ states' \in [Devices -> States \union {None}]
        /\ states'[e.device] = s
        /\ \A d \in Devices \ {e.device} : states'[d] = states[d]
    BY <1>1, <1>2
  <1>4. pointer' \in 0..MaxPointers /\ pointer <= pointer'
    BY PointersAssumption DEF ConverterOK
  <1>5. \A d \in Devices : states'[d] # None => states'[d].pointer <= pointer'
    <2> SUFFICES ASSUME NEW d \in Devices, states'[d] # None
                 PROVE  states'[d].pointer <= pointer'
      OBVIOUS
    <2>1. CASE d = e.device
      BY <1>3, <2>1
    <2>2. CASE d # e.device
      <3>1. states'[d] = states[d] /\ states[d] # None
        BY <1>3, <2>2
      <3>2. states[d].pointer \in 0..pointer
        BY <3>1, KeptType
      <3>3. QED  BY <3>1, <3>2, <1>4, PointersAssumption DEF ConverterOK
    <2>3. QED  BY <2>1, <2>2
  <1>6. QED  BY <1>1, <1>3, <1>4, <1>5 DEF ConverterOK

(* What is stored and emitted for a state s, kept with its own identifier. *)
LEMMA KeepsOK ==
  ASSUME ConverterOK, UNCHANGED pointer, NEW e \in Raw,
         NEW s \in States \union {None}, s # None => s.pointer <= pointer,
         NEW events, Keep(e, s, events),
         events \in Seq(Issued(pointer))
  PROVE  /\ ConverterOK' /\ converted' \in Seq(Issued(pointer')) /\ pointer <= pointer'
         /\ states'[e.device] = s
         /\ \A d \in Devices \ {e.device} : states'[d] = states[d]
  <1>1. pointer' \in pointer..MaxPointers /\ pointer' = pointer
    BY PointersAssumption DEF ConverterOK
  <1>2. s = None \/ (s \in States /\ s.pointer <= pointer')
    BY <1>1
  <1>3. converted' = events
    BY DEF Keep
  <1>4. ConverterOK' /\ states'[e.device] = s /\ \A d \in Devices \ {e.device} : states'[d] = states[d]
    BY <1>1, <1>2, KeepType
  <1>5. pointer <= pointer'
    BY <1>1, PointersAssumption DEF ConverterOK
  <1>6. QED  BY <1>1, <1>3, <1>4, <1>5

(* An event identified by a state that is kept may be sent. *)
LEMMA IdentifyIssued ==
  ASSUME ConverterOK, NEW e \in Raw, NEW s, s.pointer \in 0..pointer, e.change \notin Starts
  PROVE  Identify(e, s) \in Issued(pointer)
  <1>1. pointer \in 0..MaxPointers /\ Identify(e, s) = [e EXCEPT !.pointer = s.pointer]
    BY DEF ConverterOK, Identify, Number
  <1>2. QED  BY <1>1, NumberedIssued

(* The same, after it is made to move the pointer. *)
LEMMA IdentifySync ==
  ASSUME ConverterOK, NEW e \in Raw, NEW s, s.pointer \in 0..pointer, NEW c \in Changes \ Starts
  PROVE  Sync(Identify(e, s), s, c) \in Seq(Issued(pointer))
  <1> DEFINE i == Identify(e, s)
  <1>1. i = [e EXCEPT !.pointer = s.pointer]
    BY DEF Identify, Number
  <1>2. As(i, c) = Identify(As(e, c), s)
    BY <1>1 DEF As, Identify, Number, Raw, Events
  <1>3. As(e, c) \in Raw /\ As(e, c).change = c
    BY AsRaw
  <1>4. As(i, c) \in Issued(pointer)
    BY <1>2, <1>3, IdentifyIssued
  <1>5. <<>> \in Seq(Issued(pointer)) /\ <<As(i, c)>> \in Seq(Issued(pointer))
    BY <1>4, SeqClosed
  <1>6. QED  BY <1>5 DEF Sync

(* Outcome(e, t): the converter's types hold after e, and it keeps t. *)
Outcome(e, t) ==
  /\ ConverterOK' /\ converted' \in Seq(Issued(pointer')) /\ pointer <= pointer'
  /\ states'[e.device] = t
  /\ \A d \in Devices \ {e.device} : states'[d] = states[d]

LEMMA AddOutcome ==
  ASSUME ConverterOK, NEW e \in Raw, e.change = "add", ConvertAdd(e)
  PROVE  Outcome(e, Fresh(e))
  <1> DEFINE s == states[e.device]
             gone == [e EXCEPT !.view = RemoveIn(e, s), !.at = s.at]
             cancel == IF s.down /\ s.view \in views
                       THEN <<Identify(As(gone, "cancel"), s)>> ELSE <<>>
             removal == IF s = None THEN <<>> ELSE cancel \o <<As(gone, "remove")>>
  <1>1. e.device \in Devices /\ pointer \in Nat /\ e \in Issued(pointer)
    BY RawIssued, PointersAssumption DEF ConverterOK, Raw, Events, Starts
  <1>2. ASSUME s # None
        PROVE  gone \in Raw
    <2>1. s \in States
      BY <1>1, <1>2, KeptType
    <2>2. RemoveIn(e, s) \in Views /\ s.at \in Places
      BY <2>1 DEF RemoveIn, States, Raw, Events
    <2>3. QED  BY <2>2 DEF Raw, Events
  <1>3. removal \in Seq(Issued(pointer))
    <2>1. CASE s = None
      BY <2>1, SeqClosed
    <2>2. CASE s # None
      <3>1. gone \in Raw
        BY <1>2, <2>2
      <3> HIDE DEF gone
      <3>2. /\ As(gone, "cancel") \in Raw /\ As(gone, "cancel").change = "cancel"
            /\ As(gone, "remove") \in Raw /\ As(gone, "remove").change = "remove"
        BY <3>1, AsRaw DEF Changes
      <3>3. s.pointer \in 0..pointer
        BY <1>1, <2>2, KeptType
      <3>4. Identify(As(gone, "cancel"), s) \in Issued(pointer)
        BY <3>2, <3>3, IdentifyIssued DEF Starts
      <3>5. As(gone, "remove") \in Issued(pointer)
        BY <1>1, <3>2, RawIssued DEF Starts
      <3>6. cancel \in Seq(Issued(pointer)) /\ <<As(gone, "remove")>> \in Seq(Issued(pointer))
        BY <3>4, <3>5, SeqClosed
      <3> HIDE DEF cancel
      <3>7. cancel \o <<As(gone, "remove")>> \in Seq(Issued(pointer))
        BY <3>6, SeqClosed
      <3>8. QED  BY <2>2, <3>7
    <2>3. QED  BY <2>1, <2>2
  <1>4. Keep(e, Fresh(e), removal \o <<e>>) /\ UNCHANGED pointer
    BY DEF ConvertAdd
  <1> HIDE DEF removal
  <1>5. removal \o <<e>> \in Seq(Issued(pointer))
    BY <1>1, <1>3, SeqClosed
  <1>6. Fresh(e) \in States /\ Fresh(e).pointer <= pointer
    <2>1. Fresh(e) \in States /\ Fresh(e).pointer = 0
      BY FreshType
    <2>2. 0 <= pointer
      BY <1>1
    <2>3. QED  BY <2>1, <2>2
  <1>7. QED  BY <1>4, <1>5, <1>6, KeepsOK DEF Outcome

LEMMA RemoveOutcome ==
  ASSUME ConverterOK, NEW e \in Raw, e.change = "remove", states[e.device] # None,
         states[e.device].view = e.view, ConvertRemove(e)
  PROVE  Outcome(e, None)
  <1> DEFINE s == states[e.device]
             cancel == IF s.down THEN <<Identify(As(e, "cancel"), s)>> ELSE <<>>
  <1>1. e.device \in Devices /\ pointer \in Nat /\ e \in Issued(pointer)
    BY RawIssued, PointersAssumption DEF ConverterOK, Raw, Events, Starts
  <1>2. As(e, "cancel") \in Raw /\ As(e, "cancel").change = "cancel"
    BY AsRaw DEF Changes
  <1>3. s.pointer \in 0..pointer
    BY <1>1, KeptType
  <1>4. Identify(As(e, "cancel"), s) \in Issued(pointer)
    BY <1>2, <1>3, IdentifyIssued DEF Starts
  <1>5. cancel \in Seq(Issued(pointer))
    BY <1>4, SeqClosed
  <1>6. Sync(e, s, "hover") \in Seq(Issued(pointer))
    BY <1>1, SyncIssued DEF Changes, Starts
  <1>7. Keep(e, None, cancel \o Sync(e, s, "hover") \o <<e>>) /\ UNCHANGED pointer
    BY DEF ConvertRemove
  <1> HIDE DEF cancel
  <1>8. cancel \o Sync(e, s, "hover") \o <<e>> \in Seq(Issued(pointer))
    BY <1>1, <1>5, <1>6, SeqClosed
  <1> DEFINE events == cancel \o Sync(e, s, "hover") \o <<e>>
  <1>9. Keep(e, None, events) /\ events \in Seq(Issued(pointer))
    BY <1>7, <1>8
  <1> HIDE DEF events
  <1>10. None \in States \union {None}
    OBVIOUS
  <1>11. QED  BY <1>7, <1>9, <1>10, KeepsOK DEF Outcome

LEMMA HoverOutcome ==
  ASSUME ConverterOK, NEW e \in Raw, e.change = "hover", ConvertHover(e)
  PROVE  Outcome(e, At(StateOf(e), e))
  <1>1. pointer \in Nat
    BY PointersAssumption DEF ConverterOK
  <1>2. /\ Adding(e) \in Seq(Issued(pointer))
        /\ Sync(e, StateOf(e), "hover") \in Seq(Issued(pointer))
    BY <1>1, AddingIssued, SyncIssued DEF Changes, Starts
  <1>3. Adding(e) \o Sync(e, StateOf(e), "hover") \in Seq(Issued(pointer))
    BY <1>2, SeqClosed
  <1>4. At(StateOf(e), e) \in States /\ At(StateOf(e), e).pointer <= pointer
    <2>1. StateOf(e) \in States /\ StateOf(e).pointer \in 0..pointer
      BY StateOfType
    <2>2. QED  BY <1>1, <2>1, AtType
  <1>5. QED  BY <1>3, <1>4, KeepsOK DEF ConvertHover, Outcome

(* A contact or gesture that begins from a state like the one of e. *)
LEMMA BeginOutcome ==
  ASSUME ConverterOK, pointer < MaxPointers, NEW e \in Raw, e.change \in Starts,
         NEW s \in States, Begin(e, s)
  PROVE  Outcome(e, [At(s, e) EXCEPT !.pointer = pointer + 1])
  <1> DEFINE n == pointer + 1
             t == [At(s, e) EXCEPT !.pointer = n]
             b == [e EXCEPT !.pointer = n]
             before == Adding(e) \o Sync(e, StateOf(e), "hover")
  <1>1. /\ pointer \in Nat /\ n \in Nat /\ n \in 0..MaxPointers /\ pointer <= n /\ n > 0
        /\ n \in 0..n /\ n \in pointer..MaxPointers
    BY PointersAssumption DEF ConverterOK
  <1>2. pointer' = n /\ Keep(e, t, before \o <<b>>)
    BY DEF Begin, Number
  <1>3. At(s, e) \in States
    BY AtType
  <1>4. t \in States /\ t.pointer = n
    BY <1>1, <1>3 DEF States
  <1>5. /\ Adding(e) \in Seq(Issued(n))
        /\ Sync(e, StateOf(e), "hover") \in Seq(Issued(n))
    BY <1>1, AddingIssued, SyncIssued DEF Changes, Starts
  <1>6. before \in Seq(Issued(n))
    BY <1>5, SeqClosed
  <1>7. b \in Issued(n)
    BY <1>1, NumberedIssued
  <1> HIDE DEF before, b, t
  <1>8. before \o <<b>> \in Seq(Issued(n))
    BY <1>6, <1>7, SeqClosed
  <1> DEFINE events == before \o <<b>>
  <1>9. Keep(e, t, events) /\ events \in Seq(Issued(n)) /\ converted' = events
    BY <1>2, <1>8 DEF Keep
  <1> HIDE DEF events, n
  <1>10. pointer' \in pointer..MaxPointers
    BY <1>1, <1>2
  <1>11. t.pointer <= pointer'
    BY <1>1, <1>2, <1>4
  <1>12. ConverterOK' /\ states'[e.device] = t /\ \A d \in Devices \ {e.device} : states'[d] = states[d]
    BY <1>4, <1>9, <1>10, <1>11, KeepType
  <1>13. converted' \in Seq(Issued(pointer')) /\ pointer <= pointer'
    BY <1>1, <1>2, <1>9
  <1>14. QED  BY <1>12, <1>13 DEF Outcome, n, t

LEMMA MoveOutcome ==
  ASSUME ConverterOK, NEW e \in Raw, e.change \notin Starts, states[e.device] # None,
         ConvertMove(e)
  PROVE  Outcome(e, At(states[e.device], e))
  <1> DEFINE s == states[e.device]
             t == At(s, e)
             events == <<Identify(e, s)>>
  <1>1. e.device \in Devices /\ pointer \in Nat
    BY PointersAssumption DEF Raw, Events, ConverterOK
  <1>2. s \in States /\ s.pointer \in 0..pointer
    BY <1>1, KeptType
  <1>3. Keep(e, t, events) /\ UNCHANGED pointer
    BY DEF ConvertMove
  <1>4. events \in Seq(Issued(pointer))
    <2>1. Identify(e, s) \in Issued(pointer)
      BY <1>2, IdentifyIssued
    <2>2. QED  BY <2>1, SeqClosed
  <1>5. t \in States /\ t.pointer <= pointer
    BY <1>1, <1>2, AtType
  <1> HIDE DEF t, events
  <1>6. Outcome(e, t)
    BY <1>3, <1>4, <1>5, KeepsOK DEF Outcome
  <1>7. QED  BY <1>6 DEF t

LEMMA FinishOutcome ==
  ASSUME ConverterOK, NEW e \in Raw, e.change \notin Starts, states[e.device] # None,
         NEW r \in States, r.pointer = states[e.device].pointer,
         NEW c \in Changes \ Starts, Finish(e, r, c)
  PROVE  Outcome(e, At(r, e))
  <1> DEFINE s == states[e.device]
             t == At(r, e)
             i == Identify(e, s)
             sync == Sync(i, s, c)
             events == sync \o <<i>>
  <1>1. e.device \in Devices /\ pointer \in Nat
    BY PointersAssumption DEF Raw, Events, ConverterOK
  <1>2. s \in States /\ s.pointer \in 0..pointer
    BY <1>1, KeptType
  <1>3. Keep(e, t, events) /\ UNCHANGED pointer
    BY DEF Finish
  <1>4. i \in Issued(pointer) /\ sync \in Seq(Issued(pointer))
    BY <1>2, IdentifyIssued, IdentifySync
  <1>5. t \in States /\ t.pointer <= pointer
    BY <1>1, <1>2, AtType
  <1> HIDE DEF t, i, sync
  <1>6. events \in Seq(Issued(pointer))
    BY <1>4, SeqClosed
  <1> HIDE DEF events
  <1>7. Outcome(e, t)
    BY <1>3, <1>5, <1>6, KeepsOK DEF Outcome
  <1>8. QED  BY <1>7 DEF t

LEMMA SignalOutcome ==
  ASSUME ConverterOK, NEW e \in Raw, e.change = "signal", ConvertSignal(e)
  PROVE  Outcome(e, At(StateOf(e), e))
  <1> DEFINE s == StateOf(e)
             t == At(s, e)
             sync == Sync(e, s, IF s.down THEN "move" ELSE "hover")
             events == Adding(e) \o sync \o <<e>>
  <1>1. pointer \in Nat /\ e \in Issued(pointer)
    BY RawIssued, PointersAssumption DEF ConverterOK, Starts
  <1>2. s \in States /\ s.pointer \in 0..pointer
    BY StateOfType
  <1>3. Keep(e, t, events) /\ UNCHANGED pointer
    BY DEF ConvertSignal
  <1>4. Adding(e) \in Seq(Issued(pointer)) /\ sync \in Seq(Issued(pointer))
    <2>1. (IF s.down THEN "move" ELSE "hover") \in Changes \ Starts
      BY DEF Changes, Starts
    <2>2. QED  BY <1>1, <2>1, AddingIssued, SyncIssued
  <1>5. t \in States /\ t.pointer <= pointer
    BY <1>1, <1>2, AtType
  <1> HIDE DEF s, t, sync
  <1>6. events \in Seq(Issued(pointer))
    BY <1>1, <1>4, SeqClosed
  <1> HIDE DEF events
  <1>7. Outcome(e, t)
    BY <1>3, <1>5, <1>6, KeepsOK DEF Outcome
  <1>8. QED  BY <1>7 DEF t, s

-----------------------------------------------------------------------------
(* The types and the checks are inductive together. *)

EmbedderOK ==
  /\ sent \in [Devices -> {"new", "up", "down", "panning", "gone"}]
  /\ cur \in [Devices -> Views]

FrameworkOK ==
  /\ told \in [Devices -> Known]
  /\ newest \in 0..pointer
  /\ hitTests \subseteq 1..pointer
  /\ active \subseteq 1..pointer /\ cancelled \subseteq 1..pointer

IInv ==
  /\ views \subseteq Views
  /\ ConverterOK /\ EmbedderOK /\ FrameworkOK
  /\ converted \in Seq(Issued(pointer))
  /\ ChecksHold

(* One device goes to phase p in the view of e, where its new state agrees. *)
LEMMA AgreeStep ==
  ASSUME EmbedderOK, ChecksHold, NEW e \in Raw, NEW t, Outcome(e, t),
         NEW p \in {"new", "up", "down", "panning", "gone"},
         sent' = [sent EXCEPT ![e.device] = p], cur' = [cur EXCEPT ![e.device] = e.view],
         Agrees(t, p, e.view)
  PROVE  EmbedderOK' /\ ChecksHold'
  <1>1. e.device \in Devices /\ e.view \in Views
    BY DEF Raw, Events
  <1>2. EmbedderOK'
    BY <1>1 DEF EmbedderOK
  <1>3. ASSUME NEW d \in Devices
        PROVE  Agrees(states'[d], sent'[d], cur'[d])
    <2>1. CASE d = e.device
      <3>1. states'[d] = t /\ sent'[d] = p /\ cur'[d] = e.view
        BY <1>1, <2>1 DEF EmbedderOK, Outcome
      <3>2. QED  BY <3>1
    <2>2. CASE d # e.device
      <3>1. states'[d] = states[d] /\ sent'[d] = sent[d] /\ cur'[d] = cur[d]
        BY <2>2 DEF EmbedderOK, Outcome
      <3>2. Agrees(states[d], sent[d], cur[d])
        BY DEF ChecksHold
      <3>3. QED  BY <3>1, <3>2
    <2>3. QED  BY <2>1, <2>2
  <1>4. QED  BY <1>2, <1>3 DEF ChecksHold

(* The state an event is converted from agrees with the embedder's phase. *)
LEMMA StateOfAgrees ==
  ASSUME ConverterOK, ChecksHold, NEW e \in Raw,
         sent[e.device] \in {"new", "up", "down", "panning"},
         sent[e.device] # "new" => e.view = cur[e.device]
  PROVE  /\ StateOf(e) \in States /\ StateOf(e).view = e.view
         /\ StateOf(e).down = (sent[e.device] = "down")
         /\ StateOf(e).panning = (sent[e.device] = "panning")
         /\ sent[e.device] # "new" => states[e.device] # None /\ StateOf(e) = states[e.device]
  <1>1. e.device \in Devices
    BY DEF Raw, Events
  <1>2. Agrees(states[e.device], sent[e.device], cur[e.device])
    BY <1>1 DEF ChecksHold
  <1>3. StateOf(e) \in States
    BY StateOfType
  <1>4. CASE sent[e.device] = "new"
    <2>1. StateOf(e) = Fresh(e)
      BY <1>2, <1>4 DEF Agrees, StateOf
    <2>2. Fresh(e).view = e.view /\ Fresh(e).down = FALSE /\ Fresh(e).panning = FALSE
      BY FreshType
    <2>3. QED  BY <1>3, <1>4, <2>1, <2>2
  <1>5. CASE sent[e.device] # "new"
    <2>1. /\ states[e.device] # None
          /\ states[e.device].down = (sent[e.device] = "down")
          /\ states[e.device].panning = (sent[e.device] = "panning")
          /\ states[e.device].view = cur[e.device]
      BY <1>2, <1>5 DEF Agrees
    <2>2. StateOf(e) = states[e.device]
      BY <2>1 DEF StateOf
    <2>3. QED  BY <1>3, <1>5, <2>1, <2>2
  <1>6. QED  BY <1>4, <1>5

(* What an event of the embedder leaves true. *)
Kept ==
  /\ ConverterOK' /\ EmbedderOK' /\ ChecksHold'
  /\ converted' \in Seq(Issued(pointer')) /\ pointer <= pointer'
  /\ UNCHANGED <<views, framework>>

LEMMA SendsKept ==
  ASSUME IInv, NEW e \in Raw, NEW t, Outcome(e, t), NEW from,
         NEW to \in {"new", "up", "down", "panning"},
         Sends(e.device, e.view, from, to), Agrees(t, to, e.view)
  PROVE  Kept
  <1>1. sent' = [sent EXCEPT ![e.device] = to] /\ cur' = [cur EXCEPT ![e.device] = e.view]
    BY DEF Sends
  <1>2. EmbedderOK' /\ ChecksHold'
    BY <1>1, AgreeStep DEF IInv
  <1>3. QED  BY <1>2 DEF Sends, Outcome, Kept

(* An event sent finds a state that agrees with the phase it is sent from. *)
LEMMA SendsState ==
  ASSUME IInv, NEW e \in Raw, NEW from \in SUBSET {"new", "up", "down", "panning"}, NEW to,
         Sends(e.device, e.view, from, to)
  PROVE  /\ sent[e.device] \in from
         /\ StateOf(e) \in States /\ StateOf(e).view = e.view
         /\ StateOf(e).down = (sent[e.device] = "down")
         /\ StateOf(e).panning = (sent[e.device] = "panning")
         /\ sent[e.device] # "new" => states[e.device] # None /\ StateOf(e) = states[e.device]
  <1>1. sent[e.device] \in from /\ (sent[e.device] # "new" => e.view = cur[e.device])
    BY DEF Sends
  <1>2. QED  BY <1>1, StateOfAgrees DEF IInv

LEMMA AddKept ==
  ASSUME IInv, NEW d \in Devices, NEW v \in Views, NEW l \in Places, Add(d, v, l)
  PROVE  Kept
  <1> DEFINE e == Event("add", d, v, l)
  <1>1. e \in Raw /\ e.change = "add" /\ e.device = d /\ e.view = v
    BY EventIsRaw DEF Changes
  <1> HIDE DEF e
  <1>2. ConvertAdd(e) /\ sent' = [sent EXCEPT ![d] = "up"] /\ cur' = [cur EXCEPT ![d] = v]
    BY DEF Add, e
  <1>3. Outcome(e, Fresh(e))
    BY <1>1, <1>2, AddOutcome DEF IInv
  <1>4. Agrees(Fresh(e), "up", v)
    <2>1. /\ Fresh(e) \in States /\ Fresh(e).view = v
          /\ Fresh(e).down = FALSE /\ Fresh(e).panning = FALSE
      BY <1>1, FreshType
    <2>2. QED  BY <2>1, NoneAssumption DEF Agrees
  <1>5. EmbedderOK' /\ ChecksHold'
    BY <1>1, <1>2, <1>3, <1>4, AgreeStep DEF IInv
  <1>6. QED  BY <1>3, <1>5 DEF Add, Outcome, Kept

LEMMA RemoveKept ==
  ASSUME IInv, NEW d \in Devices, NEW v \in Views, NEW l \in Places, Remove(d, v, l)
  PROVE  Kept
  <1> DEFINE e == Event("remove", d, v, l)
  <1>1. e \in Raw /\ e.change = "remove" /\ e.device = d /\ e.view = v
    BY EventIsRaw DEF Changes
  <1> HIDE DEF e
  <1>2. ConvertRemove(e) /\ Sends(e.device, e.view, {"up", "down", "panning"}, "new")
    BY <1>1 DEF Remove, e
  <1>3. states[e.device] # None /\ states[e.device].view = e.view
    BY <1>1, <1>2, SendsState
  <1>4. Outcome(e, None)
    BY <1>1, <1>2, <1>3, RemoveOutcome DEF IInv
  <1>5. Agrees(None, "new", e.view)
    BY DEF Agrees
  <1>6. QED  BY <1>1, <1>2, <1>4, <1>5, SendsKept

(* An event that only moves the pointer keeps what agreed. *)
LEMMA AgreesMoved ==
  ASSUME NEW e \in Raw, NEW s \in States, NEW p \in {"up", "down", "panning"},
         s.down = (p = "down"), s.panning = (p = "panning"), s.view = e.view
  PROVE  Agrees(At(s, e), p, e.view)
  <1>1. /\ At(s, e) \in States /\ At(s, e).view = s.view
        /\ At(s, e).down = s.down /\ At(s, e).panning = s.panning
    BY AtType
  <1>2. At(s, e) # None
    BY <1>1, NoneAssumption
  <1>3. QED  BY <1>1, <1>2 DEF Agrees

LEMMA HoverKept ==
  ASSUME IInv, NEW d \in Devices, NEW v \in Views, NEW l \in Places, Hover(d, v, l)
  PROVE  Kept
  <1> DEFINE e == Event("hover", d, v, l)
  <1>1. e \in Raw /\ e.change = "hover" /\ e.device = d /\ e.view = v
    BY EventIsRaw DEF Changes
  <1> HIDE DEF e
  <1>2. ConvertHover(e) /\ Sends(e.device, e.view, {"new", "up"}, "up")
    BY <1>1 DEF Hover, e
  <1>3. Outcome(e, At(StateOf(e), e))
    BY <1>1, <1>2, HoverOutcome DEF IInv
  <1>4. /\ StateOf(e) \in States /\ StateOf(e).view = e.view
        /\ sent[e.device] \in {"new", "up"}
        /\ StateOf(e).down = (sent[e.device] = "down")
        /\ StateOf(e).panning = (sent[e.device] = "panning")
    BY <1>1, <1>2, SendsState
  <1>5. Agrees(At(StateOf(e), e), "up", e.view)
    BY <1>1, <1>4, AgreesMoved
  <1>6. QED  BY <1>1, <1>2, <1>3, <1>5, SendsKept

LEMMA DownKept ==
  ASSUME IInv, NEW d \in Devices, NEW v \in Views, NEW l \in Places, Down(d, v, l)
  PROVE  Kept
  <1> DEFINE e == Event("down", d, v, l)
             s == [StateOf(e) EXCEPT !.down = TRUE]
             t == [At(s, e) EXCEPT !.pointer = pointer + 1]
  <1>1. e \in Raw /\ e.change = "down" /\ e.device = d /\ e.view = v
    BY EventIsRaw DEF Changes
  <1>2. /\ Begin(e, s) /\ pointer < MaxPointers
        /\ Sends(e.device, e.view, {"new", "up"}, "down")
    BY <1>1 DEF Down, ConvertDown
  <1> HIDE DEF e
  <1>3. /\ StateOf(e) \in States /\ StateOf(e).view = e.view
        /\ sent[e.device] \in {"new", "up"}
        /\ StateOf(e).down = (sent[e.device] = "down")
        /\ StateOf(e).panning = (sent[e.device] = "panning")
    BY <1>1, <1>2, SendsState
  <1>4. s \in States /\ s.down = TRUE /\ s.panning = FALSE /\ s.view = e.view
    BY <1>3 DEF States
  <1> HIDE DEF s
  <1>5. Outcome(e, t)
    BY <1>1, <1>2, <1>4, BeginOutcome DEF IInv, Starts
  <1>6. Agrees(t, "down", e.view)
    <2>1. /\ At(s, e) \in States /\ At(s, e).down = TRUE /\ At(s, e).panning = FALSE
          /\ At(s, e).view = e.view
      BY <1>1, <1>4, AtType
    <2>2. pointer + 1 \in 0..MaxPointers
      BY <1>2, PointersAssumption DEF IInv, ConverterOK
    <2>3. /\ t \in States /\ t.down = TRUE /\ t.panning = FALSE /\ t.view = e.view
      BY <2>1, <2>2 DEF States
    <2>4. QED  BY <2>3, NoneAssumption DEF Agrees
  <1> HIDE DEF t
  <1>7. QED  BY <1>1, <1>2, <1>5, <1>6, SendsKept

LEMMA PanStartKept ==
  ASSUME IInv, NEW d \in Devices, NEW v \in Views, NEW l \in Places, PanStart(d, v, l)
  PROVE  Kept
  <1> DEFINE e == Event("panStart", d, v, l)
             s == [StateOf(e) EXCEPT !.panning = TRUE]
             t == [At(s, e) EXCEPT !.pointer = pointer + 1]
  <1>1. e \in Raw /\ e.change = "panStart" /\ e.device = d /\ e.view = v
    BY EventIsRaw DEF Changes
  <1>2. /\ Begin(e, s) /\ pointer < MaxPointers
        /\ Sends(e.device, e.view, {"new", "up"}, "panning")
    BY <1>1 DEF PanStart, ConvertPanStart
  <1> HIDE DEF e
  <1>3. /\ StateOf(e) \in States /\ StateOf(e).view = e.view
        /\ sent[e.device] \in {"new", "up"}
        /\ StateOf(e).down = (sent[e.device] = "down")
        /\ StateOf(e).panning = (sent[e.device] = "panning")
    BY <1>1, <1>2, SendsState
  <1>4. s \in States /\ s.panning = TRUE /\ s.down = FALSE /\ s.view = e.view
    BY <1>3 DEF States
  <1> HIDE DEF s
  <1>5. Outcome(e, t)
    BY <1>1, <1>2, <1>4, BeginOutcome DEF IInv, Starts
  <1>6. Agrees(t, "panning", e.view)
    <2>1. /\ At(s, e) \in States /\ At(s, e).panning = TRUE /\ At(s, e).down = FALSE
          /\ At(s, e).view = e.view
      BY <1>1, <1>4, AtType
    <2>2. pointer + 1 \in 0..MaxPointers
      BY <1>2, PointersAssumption DEF IInv, ConverterOK
    <2>3. /\ t \in States /\ t.panning = TRUE /\ t.down = FALSE /\ t.view = e.view
      BY <2>1, <2>2 DEF States
    <2>4. QED  BY <2>3, NoneAssumption DEF Agrees
  <1> HIDE DEF t
  <1>7. QED  BY <1>1, <1>2, <1>5, <1>6, SendsKept

LEMMA MoveKept ==
  ASSUME IInv, NEW d \in Devices, NEW v \in Views, NEW l \in Places, Move(d, v, l)
  PROVE  Kept
  <1> DEFINE e == Event("move", d, v, l)
  <1>1. e \in Raw /\ e.change = "move" /\ e.device = d /\ e.view = v
    BY EventIsRaw DEF Changes
  <1> HIDE DEF e
  <1>2. ConvertMove(e) /\ Sends(e.device, e.view, {"down"}, "down")
    BY <1>1 DEF Move, e
  <1>3. /\ StateOf(e) \in States /\ StateOf(e).view = e.view
        /\ sent[e.device] = "down"
        /\ StateOf(e).down = (sent[e.device] = "down")
        /\ StateOf(e).panning = (sent[e.device] = "panning")
        /\ states[e.device] # None /\ StateOf(e) = states[e.device]
    BY <1>1, <1>2, SendsState
  <1>4. Outcome(e, At(states[e.device], e))
    BY <1>1, <1>2, <1>3, MoveOutcome DEF IInv, Starts
  <1>5. Agrees(At(states[e.device], e), "down", e.view)
    BY <1>1, <1>3, AgreesMoved
  <1>6. QED  BY <1>1, <1>2, <1>4, <1>5, SendsKept

LEMMA PanUpdateKept ==
  ASSUME IInv, NEW d \in Devices, NEW v \in Views, NEW l \in Places, PanUpdate(d, v, l)
  PROVE  Kept
  <1> DEFINE e == Event("panUpdate", d, v, l)
  <1>1. e \in Raw /\ e.change = "panUpdate" /\ e.device = d /\ e.view = v
    BY EventIsRaw DEF Changes
  <1> HIDE DEF e
  <1>2. ConvertMove(e) /\ Sends(e.device, e.view, {"panning"}, "panning")
    BY <1>1 DEF PanUpdate, e
  <1>3. /\ StateOf(e) \in States /\ StateOf(e).view = e.view
        /\ sent[e.device] = "panning"
        /\ StateOf(e).down = (sent[e.device] = "down")
        /\ StateOf(e).panning = (sent[e.device] = "panning")
        /\ states[e.device] # None /\ StateOf(e) = states[e.device]
    BY <1>1, <1>2, SendsState
  <1>4. Outcome(e, At(states[e.device], e))
    BY <1>1, <1>2, <1>3, MoveOutcome DEF IInv, Starts
  <1>5. Agrees(At(states[e.device], e), "panning", e.view)
    BY <1>1, <1>3, AgreesMoved
  <1>6. QED  BY <1>1, <1>2, <1>4, <1>5, SendsKept

(* A contact that ends, at an event e of kind up or cancel. *)
LEMMA LiftKept ==
  ASSUME IInv, NEW e \in Raw, e.change \notin Starts,
         Sends(e.device, e.view, {"down"}, "up"),
         Finish(e, Lifted(states[e.device]), "move")
  PROVE  Kept
  <1> DEFINE s == states[e.device]
             r == Lifted(s)
  <1>1. /\ StateOf(e) \in States /\ StateOf(e).view = e.view
        /\ sent[e.device] = "down"
        /\ StateOf(e).panning = (sent[e.device] = "panning")
        /\ states[e.device] # None /\ StateOf(e) = states[e.device]
    BY SendsState
  <1>2. /\ r \in States /\ r.pointer = s.pointer
        /\ r.view = e.view /\ r.down = FALSE /\ r.panning = FALSE
    BY <1>1, LiftedType
  <1>3. Finish(e, r, "move")
    OBVIOUS
  <1> HIDE DEF r
  <1>4. Outcome(e, At(r, e))
    BY <1>1, <1>2, <1>3, FinishOutcome DEF IInv, Changes, Starts
  <1>5. Agrees(At(r, e), "up", e.view)
    BY <1>2, AgreesMoved
  <1>6. QED  BY <1>4, <1>5, SendsKept

LEMMA UpKept ==
  ASSUME IInv, NEW d \in Devices, NEW v \in Views, NEW l \in Places, Up(d, v, l)
  PROVE  Kept
  <1> DEFINE e == Event("up", d, v, l)
  <1>1. e \in Raw /\ e.change = "up" /\ e.device = d /\ e.view = v
    BY EventIsRaw DEF Changes
  <1> HIDE DEF e
  <1>2. Finish(e, Lifted(states[e.device]), "move") /\ Sends(e.device, e.view, {"down"}, "up")
    BY <1>1 DEF Up, ConvertUp, e
  <1>3. QED  BY <1>1, <1>2, LiftKept DEF Starts

LEMMA PanEndKept ==
  ASSUME IInv, NEW d \in Devices, NEW v \in Views, NEW l \in Places, PanEnd(d, v, l)
  PROVE  Kept
  <1> DEFINE e == Event("panEnd", d, v, l)
             s == states[e.device]
             r == [s EXCEPT !.panning = FALSE]
  <1>1. e \in Raw /\ e.change = "panEnd" /\ e.device = d /\ e.view = v
    BY EventIsRaw DEF Changes
  <1>2. Finish(e, r, "panUpdate") /\ Sends(e.device, e.view, {"panning"}, "up")
    BY <1>1 DEF PanEnd, ConvertPanEnd
  <1> HIDE DEF e
  <1>3. /\ StateOf(e) \in States /\ StateOf(e).view = e.view
        /\ sent[e.device] = "panning"
        /\ StateOf(e).down = (sent[e.device] = "down")
        /\ states[e.device] # None /\ StateOf(e) = states[e.device]
    BY <1>1, <1>2, SendsState
  <1>4. /\ r \in States /\ r.pointer = s.pointer
        /\ r.view = e.view /\ r.down = FALSE /\ r.panning = FALSE
    BY <1>3 DEF States
  <1> HIDE DEF r
  <1>5. Outcome(e, At(r, e))
    BY <1>1, <1>2, <1>3, <1>4, FinishOutcome DEF IInv, Changes, Starts
  <1>6. Agrees(At(r, e), "up", e.view)
    BY <1>1, <1>4, AgreesMoved
  <1>7. QED  BY <1>1, <1>2, <1>5, <1>6, SendsKept

LEMMA CancelKept ==
  ASSUME IInv, NEW d \in Devices, NEW v \in Views, NEW l \in Places, Cancel(d, v, l)
  PROVE  Kept
  <1> DEFINE e == Event("cancel", d, v, l)
  <1>1. e \in Raw /\ e.change = "cancel" /\ e.device = d /\ e.view = v
    BY EventIsRaw DEF Changes
  <1> HIDE DEF e
  <1>2. CASE Sends(d, v, {"down"}, "up") /\ ConvertCancel(e)
    <2>1. Sends(e.device, e.view, {"down"}, "up")
      BY <1>1, <1>2
    <2>2. states[e.device] # None
      <3>1. /\ sent[e.device] \in {"down"}
            /\ sent[e.device] # "new" => states[e.device] # None
        BY <1>1, <2>1, SendsState
      <3>2. QED  BY <3>1
    <2>3. Finish(e, Lifted(states[e.device]), "move")
      BY <1>2, <2>2 DEF ConvertCancel
    <2>4. QED  BY <1>1, <2>1, <2>3, LiftKept DEF Starts
  <1>3. CASE Sends(d, v, {"new"}, "new") /\ ConvertCancel(e)
    <2>1. Sends(e.device, e.view, {"new"}, "new") /\ e.device \in Devices
      BY <1>1, <1>3
    <2>2. states[e.device] = None
      BY <2>1 DEF Sends, IInv, ChecksHold, Agrees
    <2>3. UNCHANGED <<states, pointer, converted>>
      BY <1>3, <2>2 DEF ConvertCancel, converter
    <2>4. pointer \in Nat
      BY PointersAssumption DEF IInv, ConverterOK
    <2>5. Outcome(e, None)
      BY <2>2, <2>3, <2>4 DEF Outcome, IInv, ConverterOK
    <2>6. Agrees(None, "new", e.view)
      BY DEF Agrees
    <2>7. QED  BY <1>1, <2>1, <2>5, <2>6, SendsKept
  <1>4. QED  BY <1>2, <1>3 DEF Cancel, e

LEMMA SignalKept ==
  ASSUME IInv, NEW d \in Devices, NEW v \in Views, NEW l \in Places, Signal(d, v, l)
  PROVE  Kept
  <1> DEFINE e == Event("signal", d, v, l)
  <1>1. e \in Raw /\ e.change = "signal" /\ e.device = d /\ e.view = v
    BY EventIsRaw DEF Changes
  <1> HIDE DEF e
  <1>2. PICK p \in {"up", "down", "panning"} :
          /\ ConvertSignal(e)
          /\ \/ p = "up" /\ Sends(e.device, e.view, {"new"}, p)
             \/ p = sent[e.device] /\ Sends(e.device, e.view, {"up", "down", "panning"}, p)
    BY <1>1 DEF Signal, Sends, e
  <1>3. Outcome(e, At(StateOf(e), e))
    BY <1>1, <1>2, SignalOutcome DEF IInv
  <1>4. /\ StateOf(e) \in States /\ StateOf(e).view = e.view
        /\ StateOf(e).down = (p = "down") /\ StateOf(e).panning = (p = "panning")
    <2>1. CASE p = "up" /\ Sends(e.device, e.view, {"new"}, p)
      <3>1. /\ sent[e.device] \in {"new"}
            /\ StateOf(e) \in States /\ StateOf(e).view = e.view
            /\ StateOf(e).down = (sent[e.device] = "down")
            /\ StateOf(e).panning = (sent[e.device] = "panning")
        BY <1>1, <2>1, SendsState
      <3>2. QED  BY <2>1, <3>1
    <2>2. CASE p = sent[e.device] /\ Sends(e.device, e.view, {"up", "down", "panning"}, p)
      <3>1. /\ sent[e.device] \in {"up", "down", "panning"}
            /\ StateOf(e) \in States /\ StateOf(e).view = e.view
            /\ StateOf(e).down = (sent[e.device] = "down")
            /\ StateOf(e).panning = (sent[e.device] = "panning")
        BY <1>1, <2>2, SendsState
      <3>2. QED  BY <2>2, <3>1
    <2>3. QED  BY <1>2, <2>1, <2>2
  <1>5. Agrees(At(StateOf(e), e), p, e.view)
    BY <1>1, <1>4, AgreesMoved
  <1>6. QED  BY <1>1, <1>2, <1>3, <1>5, SendsKept

LEMMA KeptStep ==
  ASSUME IInv, Kept
  PROVE  IInv'
  <1>1. FrameworkOK'
    <2>1. pointer \in Nat /\ pointer' \in Nat /\ pointer <= pointer'
      BY PointersAssumption DEF IInv, Kept, ConverterOK
    <2>2. UNCHANGED <<told, newest, hitTests, active, cancelled>>
      BY DEF Kept, framework
    <2>3. QED  BY <2>1, <2>2 DEF IInv, FrameworkOK
  <1>2. QED  BY <1>1 DEF IInv, Kept

LEMMA AddViewStep ==
  ASSUME IInv, NEW v \in Views, AddView(v)
  PROVE  IInv'
  <1>1. /\ views' \subseteq Views
        /\ UNCHANGED <<states, pointer, sent, cur, converted, told, newest, hitTests, active,
                       cancelled>>
    BY DEF AddView, IInv, converter, embedder, framework
  <1>2. QED
    BY <1>1 DEF IInv, ConverterOK, EmbedderOK, FrameworkOK, ChecksHold

(* A device whose view is destroyed is held to nothing. *)
LEMMA RemoveViewStep ==
  ASSUME IInv, NEW v \in Views, RemoveView(v)
  PROVE  IInv'
  <1>1. /\ views' \subseteq Views
        /\ UNCHANGED <<states, pointer, cur, converted, told, newest, hitTests, active, cancelled>>
        /\ sent' = [d \in Devices |-> IF cur[d] = v /\ sent[d] # "new" THEN "gone" ELSE sent[d]]
    BY DEF RemoveView, IInv, converter, framework
  <1>2. EmbedderOK'
    BY <1>1 DEF IInv, EmbedderOK
  <1>3. ChecksHold'
    <2> SUFFICES ASSUME NEW d \in Devices
                 PROVE  Agrees(states[d], sent'[d], cur[d])
      BY <1>1 DEF ChecksHold
    <2>1. Agrees(states[d], sent[d], cur[d])
      BY DEF IInv, ChecksHold
    <2>2. sent'[d] = "gone" \/ sent'[d] = sent[d]
      BY <1>1
    <2>3. QED  BY <2>1, <2>2 DEF Agrees
  <1>4. QED  BY <1>1, <1>2, <1>3 DEF IInv, ConverterOK, FrameworkOK

LEMMA HandleType ==
  ASSUME pointer \in 0..MaxPointers, FrameworkOK, NEW e \in Issued(pointer), Handle(e)
  PROVE  /\ told' \in [Devices -> Known] /\ newest' \in 0..pointer
         /\ hitTests' \subseteq 1..pointer
         /\ active' \subseteq 1..pointer /\ cancelled' \subseteq 1..pointer
  <1>1. /\ e.device \in Devices /\ e.view \in Views /\ e.at \in Places
        /\ e.pointer \in 0..MaxPointers /\ e.pointer <= pointer
        /\ e.change \in Starts => e.pointer > 0
    BY DEF Issued, Events
  <1>2. told' \in [Devices -> Known]
    <2> DEFINE k == [phase   |-> Phase(e.change, told[e.device].phase),
                     at      |-> e.at,
                     pointer |-> IF e.change \in Starts THEN e.pointer ELSE told[e.device].pointer,
                     home    |-> IF e.change = "add" THEN e.view ELSE told[e.device].home]
    <2>1. told[e.device] \in Known
      BY <1>1 DEF FrameworkOK
    <2>2. Phase(e.change, told[e.device].phase) \in {"absent", "up", "down", "panning"}
      BY <2>1 DEF Phase, Known
    <2>3. k \in Known
      BY <1>1, <2>1, <2>2 DEF Known
    <2>4. told' = [told EXCEPT ![e.device] = k]
      BY DEF Handle
    <2> HIDE DEF k
    <2>5. QED  BY <1>1, <2>3, <2>4 DEF FrameworkOK
  <1>3. newest' \in 0..pointer
    BY <1>1, PointersAssumption DEF FrameworkOK, Handle
  <1>4. hitTests' \subseteq 1..pointer
    <2>1. CASE e.change \in Starts
      <3>1. hitTests' = hitTests \union {e.pointer}
        BY <2>1 DEF Handle, Starts, Ends
      <3>2. e.pointer \in 1..pointer
        BY <1>1, <2>1, PointersAssumption
      <3>3. QED  BY <3>1, <3>2 DEF FrameworkOK
    <2>2. CASE e.change \notin Starts
      <3>1. hitTests' = hitTests \ {e.pointer} \/ hitTests' = hitTests
        BY <2>2 DEF Handle
      <3>2. QED  BY <3>1 DEF FrameworkOK
    <2>3. QED  BY <2>1, <2>2
  <1>5. active' \subseteq 1..pointer
    <2>1. CASE e.change = "down"
      <3>1. active' = active \union {e.pointer}
        BY <2>1 DEF Handle, Ends
      <3>2. e.pointer \in 1..pointer
        BY <1>1, <2>1, PointersAssumption DEF Starts
      <3>3. QED  BY <3>1, <3>2 DEF FrameworkOK
    <2>2. CASE e.change # "down"
      <3>1. active' = active \ {e.pointer} \/ active' = active
        BY <2>2 DEF Handle
      <3>2. QED  BY <3>1 DEF FrameworkOK
    <2>3. QED  BY <2>1, <2>2
  <1>6. cancelled' \subseteq 1..pointer
    BY DEF Handle, FrameworkOK
  <1>7. QED  BY <1>2, <1>3, <1>4, <1>5, <1>6

LEMMA DeliverStep ==
  ASSUME IInv, Deliver
  PROVE  IInv'
  <1>1. UNCHANGED <<views, states, pointer, sent, cur>> /\ pointer \in 0..MaxPointers
    BY DEF Deliver, converter, embedder, IInv, ConverterOK
  <1>2. Head(converted) \in Issued(pointer) /\ converted' \in Seq(Issued(pointer))
    BY SeqClosed DEF Deliver, IInv
  <1>3. /\ told' \in [Devices -> Known] /\ newest' \in 0..pointer
        /\ hitTests' \subseteq 1..pointer
        /\ active' \subseteq 1..pointer /\ cancelled' \subseteq 1..pointer
    <2>1. CASE Head(converted).view \in views
      <3>1. Handle(Head(converted))
        BY <2>1 DEF Deliver
      <3>2. QED  BY <1>1, <1>2, <3>1, HandleType DEF IInv
    <2>2. CASE Head(converted).view \notin views
      BY <2>2 DEF Deliver, framework, IInv, FrameworkOK
    <2>3. QED  BY <2>1, <2>2
  <1>4. QED
    BY <1>1, <1>2, <1>3 DEF IInv, ConverterOK, EmbedderOK, FrameworkOK, ChecksHold

LEMMA CancelStep ==
  ASSUME IInv, NEW p, CancelActivePointers(p)
  PROVE  IInv'
  <1>1. /\ UNCHANGED <<views, states, pointer, sent, cur, converted, told, newest>>
        /\ hitTests' \subseteq hitTests /\ active' \subseteq active
        /\ cancelled' \subseteq cancelled \union active
    BY DEF CancelActivePointers, converter, embedder
  <1>2. FrameworkOK'
    BY <1>1 DEF IInv, FrameworkOK
  <1>3. QED
    BY <1>1, <1>2 DEF IInv, ConverterOK, EmbedderOK, ChecksHold

(* A remove for another view than the device's is ignored. *)
LEMMA LateRemoveStep ==
  ASSUME IInv, NEW d \in Devices, NEW v, NEW l, LateRemove(d, v, l)
  PROVE  UNCHANGED vars
  <1> DEFINE e == Event("remove", d, v, l)
  <1>1. e.device = d /\ e.view = v
    BY DEF Event
  <1>2. Agrees(states[d], sent[d], cur[d])
    BY DEF IInv, ChecksHold
  <1>3. states[d].view # v
    BY <1>2 DEF LateRemove, Agrees
  <1>4. ConvertRemove(e) /\ UNCHANGED <<views, embedder, framework>>
    BY DEF LateRemove
  <1> HIDE DEF e
  <1>5. UNCHANGED <<converter, converted>>
    BY <1>1, <1>3, <1>4 DEF ConvertRemove
  <1>6. QED  BY <1>4, <1>5 DEF vars

LEMMA InitIInv == Init => IInv
  <1> SUFFICES ASSUME Init PROVE IInv
    OBVIOUS
  <1>1. ConverterOK /\ EmbedderOK /\ ChecksHold
    BY PointersAssumption DEF Init, ConverterOK, EmbedderOK, ChecksHold, Agrees
  <1>2. FrameworkOK
    <2>1. PICK l \in Places, v \in Views :
            told = [d \in Devices |-> [phase |-> "absent", at |-> l, pointer |-> 0, home |-> v]]
      BY DEF Init
    <2>2. [phase |-> "absent", at |-> l, pointer |-> 0, home |-> v] \in Known
      BY PointersAssumption DEF Known
    <2>3. told \in [Devices -> Known]
      BY <2>1, <2>2
    <2>4. QED  BY <2>3 DEF Init, FrameworkOK
  <1>3. QED  BY <1>1, <1>2, SeqClosed DEF Init, IInv

LEMMA NextIInv == IInv /\ [Next]_vars => IInv'
  <1> SUFFICES ASSUME IInv, [Next]_vars PROVE IInv'
    OBVIOUS
  <1>1. CASE Deliver
    BY <1>1, DeliverStep
  <1>2. ASSUME NEW v \in Views, AddView(v) \/ RemoveView(v)
        PROVE  IInv'
    BY <1>2, AddViewStep, RemoveViewStep
  <1>3. ASSUME NEW d \in Devices, NEW v \in Views, NEW l \in Places,
               \/ Add(d, v, l) \/ Remove(d, v, l) \/ Hover(d, v, l)
               \/ Down(d, v, l) \/ Move(d, v, l) \/ Up(d, v, l) \/ Cancel(d, v, l)
               \/ PanStart(d, v, l) \/ PanUpdate(d, v, l) \/ PanEnd(d, v, l)
               \/ Signal(d, v, l)
        PROVE  IInv'
    <2>1. Kept
      BY <1>3, AddKept, RemoveKept, HoverKept, DownKept, MoveKept, UpKept,
         CancelKept, PanStartKept, PanUpdateKept, PanEndKept, SignalKept
    <2>2. QED  BY <2>1, KeptStep
  <1>4. CASE UNCHANGED vars
    BY <1>4 DEF vars, converter, embedder, framework, IInv, ConverterOK, EmbedderOK,
                FrameworkOK, ChecksHold
  <1>5. ASSUME NEW p, CancelActivePointers(p) PROVE IInv'
    BY <1>5, CancelStep
  <1>6. ASSUME NEW d \in Devices, NEW v \in Views, NEW l \in Places, LateRemove(d, v, l)
        PROVE  IInv'
    BY <1>4, <1>6, LateRemoveStep
  <1>7. QED  BY <1>1, <1>2, <1>3, <1>4, <1>5, <1>6 DEF Next

(* The types hold in every state: in particular every identifier sent,     *)
(* stored or kept by the framework is one the converter has given out.     *)
THEOREM TypeCorrect == Spec => []TypeOK
  <1>1. IInv => TypeOK
    BY DEF IInv, ConverterOK, EmbedderOK, FrameworkOK, TypeOK
  <1>2. QED  BY InitIInv, NextIInv, <1>1, PTL DEF Spec

(* The converter's own checks hold for any number of devices and views,    *)
(* however these come and go.                                              *)
THEOREM ChecksAlwaysHold == Spec => []ChecksHold
  <1>1. IInv => ChecksHold
    BY DEF IInv
  <1>2. QED  BY InitIInv, NextIInv, <1>1, PTL DEF Spec

-----------------------------------------------------------------------------
(* What the framework is given.  Between two events of the embedder it     *)
(* knows of each device what the converter keeps of it (Settled); while a  *)
(* conversion is delivered, the events that are left lead there, each      *)
(* legal for what the framework knows by then (Leads3; there are never     *)
(* more than three).                                                       *)

Active(k) == k.phase \in {"down", "panning"}

Settled(k, s) ==
  IF s = None
  THEN k.phase = "absent"
  ELSE /\ k.phase # "absent" /\ k.at = s.at /\ k.home = s.view
       /\ s.down = (k.phase = "down") /\ s.panning = (k.phase = "panning")
       /\ Active(k) => k.pointer = s.pointer

(* What is known of a device, and the newest identifier, after e. *)
Follows(k, e) ==
  [phase   |-> Phase(e.change, k.phase),
   at      |-> e.at,
   pointer |-> IF e.change \in Starts THEN e.pointer ELSE k.pointer,
   home    |-> IF e.change = "add" THEN e.view ELSE k.home]

Numbers(n, e) == IF e.change \in Starts THEN e.pointer ELSE n

(* Events that may come without an identifier: the move before a signal e. *)
Before(e) == IF e.change = "signal" THEN {"move"} ELSE {}
Loose(q) == IF Len(q) = 2 THEN Before(q[2]) ELSE {}

(* Where events lead: to the converter's state of a device and its counter. *)
Aim(d, vs, s, m) == [device |-> d, views |-> vs, state |-> s, count |-> m]

(* e may follow what is known, k, and newest, n. *)
Legal(aim, k, n, e, loose) ==
  LET c == e.change
  IN
  /\ e.device = aim.device /\ e.view \in aim.views
  /\ c = "add" => k.phase = "absent"
  /\ c # "add" => k.phase # "absent"
  /\ c = "remove" => e.at = k.at /\ (k.phase = "down" => k.home \notin aim.views)
  /\ c \in Starts => k.phase = "up" /\ e.at = k.at /\ e.pointer = n + 1
  /\ c \in {"hover", "signal"} => e.pointer = 0
  /\ c \in {"move", "up", "cancel"} => k.phase = "down"
  /\ c \in {"panUpdate", "panEnd"} => k.phase = "panning"
  /\ c \in {"up", "panEnd"} => e.at = k.at
  /\ c \in Ends \union {"move", "panUpdate"} =>
       e.pointer = k.pointer \/ c \in loose

Leads0(aim, k, n, q) == q = <<>> /\ Settled(k, aim.state) /\ n = aim.count

Leads1(aim, k, n, q) ==
  IF q = <<>> THEN Leads0(aim, k, n, q)
  ELSE Legal(aim, k, n, Head(q), Loose(q)) /\ Leads0(aim, Follows(k, Head(q)), Numbers(n, Head(q)), Tail(q))

Leads2(aim, k, n, q) ==
  IF q = <<>> THEN Leads0(aim, k, n, q)
  ELSE Legal(aim, k, n, Head(q), Loose(q)) /\ Leads1(aim, Follows(k, Head(q)), Numbers(n, Head(q)), Tail(q))

Leads3(aim, k, n, q) ==
  IF q = <<>> THEN Leads0(aim, k, n, q)
  ELSE Legal(aim, k, n, Head(q), Loose(q)) /\ Leads2(aim, Follows(k, Head(q)), Numbers(n, Head(q)), Tail(q))

Conveyed ==
  /\ converted = <<>> => newest = pointer
  /\ \A d \in Devices :
       IF converted # <<>> /\ Head(converted).device = d
       THEN Leads3(Aim(d, views, states[d], pointer), told[d], newest, converted)
       ELSE Settled(told[d], states[d])

(* The framework keeps a target for every contact and gesture, each of its   *)
(* own, but for the contacts a Navigator has cancelled.                      *)
Targeted(k) ==
  /\ k.phase = "down" => k.pointer \in hitTests \union cancelled
  /\ k.phase = "panning" => k.pointer \in hitTests /\ k.pointer \notin active

Targets ==
  /\ hitTests \subseteq 1..newest /\ active \subseteq 1..newest
  /\ \A d \in Devices : told[d].pointer <= newest
  /\ \A d \in Devices : Targeted(told[d])
  /\ \A d, c \in Devices :
       Active(told[d]) /\ Active(told[c]) /\ told[d].pointer = told[c].pointer => d = c

LEMMA LeadsGrow ==
  ASSUME NEW aim, NEW k, NEW n, NEW q, Leads2(aim, k, n, q)
  PROVE  Leads3(aim, k, n, q)
  <1>1. \A j, m, p : Leads0(aim, j, m, p) => Leads1(aim, j, m, p)
    BY DEF Leads0, Leads1
  <1>2. \A j, m, p : Leads1(aim, j, m, p) => Leads2(aim, j, m, p)
    BY <1>1 DEF Leads1, Leads2
  <1>3. QED  BY <1>2 DEF Leads2, Leads3

(* Conversions of no, one, two and three events. *)
LEMMA LeadsNone ==
  ASSUME NEW aim, NEW k, NEW n, Settled(k, aim.state), n = aim.count
  PROVE  Leads3(aim, k, n, <<>>)
  BY DEF Leads0, Leads3

LEMMA LeadsByOne ==
  ASSUME NEW aim, NEW k, NEW n, NEW a,
         Legal(aim, k, n, a, {}),
         Settled(Follows(k, a), aim.state), Numbers(n, a) = aim.count
  PROVE  Leads3(aim, k, n, <<a>>)
  <1>1. <<a>> # <<>> /\ Head(<<a>>) = a /\ Tail(<<a>>) = <<>> /\ Loose(<<a>>) = {}
    BY DEF Loose
  <1>2. Leads2(aim, Follows(k, a), Numbers(n, a), <<>>)
    BY DEF Leads0, Leads2
  <1>3. QED  BY <1>1, <1>2 DEF Leads3

LEMMA LeadsByTwo ==
  ASSUME NEW aim, NEW k, NEW n, NEW a, NEW b,
         Legal(aim, k, n, a, Before(b)), Legal(aim, Follows(k, a), Numbers(n, a), b, {}),
         Settled(Follows(Follows(k, a), b), aim.state),
         Numbers(Numbers(n, a), b) = aim.count
  PROVE  Leads3(aim, k, n, <<a, b>>)
  <1>1. /\ <<a, b>> # <<>> /\ Head(<<a, b>>) = a /\ Tail(<<a, b>>) = <<b>>
        /\ <<b>> # <<>> /\ Head(<<b>>) = b /\ Tail(<<b>>) = <<>>
        /\ Loose(<<a, b>>) = Before(b) /\ Loose(<<b>>) = {}
    BY DEF Loose
  <1>2. Leads1(aim, Follows(Follows(k, a), b), Numbers(Numbers(n, a), b), <<>>)
    BY DEF Leads0, Leads1
  <1>3. Leads2(aim, Follows(k, a), Numbers(n, a), <<b>>)
    BY <1>1, <1>2 DEF Leads2
  <1>4. QED  BY <1>1, <1>3 DEF Leads3

LEMMA LeadsByThree ==
  ASSUME NEW aim, NEW k, NEW n, NEW a, NEW b, NEW c,
         Legal(aim, k, n, a, {}),
         Legal(aim, Follows(k, a), Numbers(n, a), b, Before(c)),
         Legal(aim, Follows(Follows(k, a), b), Numbers(Numbers(n, a), b), c, {}),
         Settled(Follows(Follows(Follows(k, a), b), c), aim.state),
         Numbers(Numbers(Numbers(n, a), b), c) = aim.count
  PROVE  Leads3(aim, k, n, <<a, b, c>>)
  <1>1. /\ <<a, b, c>> # <<>> /\ Head(<<a, b, c>>) = a /\ Tail(<<a, b, c>>) = <<b, c>>
        /\ <<b, c>> # <<>> /\ Head(<<b, c>>) = b /\ Tail(<<b, c>>) = <<c>>
        /\ <<c>> # <<>> /\ Head(<<c>>) = c /\ Tail(<<c>>) = <<>>
        /\ Loose(<<a, b, c>>) = {} /\ Loose(<<c>>) = {}
        /\ Loose(<<b, c>>) = Before(c)
    BY DEF Loose
  <1>2. Leads0(aim, Follows(Follows(Follows(k, a), b), c), Numbers(Numbers(Numbers(n, a), b), c), <<>>)
    BY DEF Leads0
  <1>3. Leads1(aim, Follows(Follows(k, a), b), Numbers(Numbers(n, a), b), <<c>>)
    BY <1>1, <1>2 DEF Leads1
  <1>4. Leads2(aim, Follows(k, a), Numbers(n, a), <<b, c>>)
    BY <1>1, <1>3 DEF Leads2
  <1>5. QED  BY <1>1, <1>4 DEF Leads3

(* The fields of the events a conversion is made of. *)
LEMMA AsFields ==
  ASSUME NEW e \in Raw, NEW c \in Changes
  PROVE  /\ As(e, c).change = c /\ As(e, c).device = e.device /\ As(e, c).view = e.view
         /\ As(e, c).at = e.at /\ As(e, c).pointer = 0
  BY DEF Raw, As, Events

LEMMA IdentifyFields ==
  ASSUME NEW e \in Raw, NEW s, NEW c \in Changes
  PROVE  /\ Identify(e, s).change = e.change /\ Identify(e, s).device = e.device
         /\ Identify(e, s).view = e.view /\ Identify(e, s).at = e.at
         /\ Identify(e, s).pointer = s.pointer
         /\ As(Identify(e, s), c).change = c /\ As(Identify(e, s), c).device = e.device
         /\ As(Identify(e, s), c).view = e.view /\ As(Identify(e, s), c).at = e.at
         /\ As(Identify(e, s), c).pointer = s.pointer
  BY DEF Raw, As, Events, Identify, Number

LEMMA FreshFields ==
  ASSUME NEW e
  PROVE  /\ Fresh(e).view = e.view /\ Fresh(e).at = e.at /\ Fresh(e).pointer = 0
         /\ Fresh(e).down = FALSE /\ Fresh(e).panning = FALSE
  BY DEF Fresh

LEMMA AtFields ==
  ASSUME NEW e, NEW s \in States
  PROVE  /\ At(s, e).at = e.at /\ At(s, e).view = s.view /\ At(s, e).pointer = s.pointer
         /\ At(s, e).down = s.down /\ At(s, e).panning = s.panning
  BY DEF At, States

LEMMA AimFields ==
  ASSUME NEW d, NEW vs, NEW s, NEW m
  PROVE  /\ Aim(d, vs, s, m).device = d /\ Aim(d, vs, s, m).views = vs
         /\ Aim(d, vs, s, m).state = s /\ Aim(d, vs, s, m).count = m
  BY DEF Aim

LEMMA FollowsFields ==
  ASSUME NEW k, NEW e
  PROVE  /\ Follows(k, e).phase = Phase(e.change, k.phase) /\ Follows(k, e).at = e.at
         /\ Follows(k, e).pointer = IF e.change \in Starts THEN e.pointer ELSE k.pointer
         /\ Follows(k, e).home = IF e.change = "add" THEN e.view ELSE k.home
  BY DEF Follows

(* Conversions put together. *)
LEMMA Joined ==
  /\ <<>> \o <<>> = <<>>
  /\ \A x : <<x>> \o <<>> = <<x>> /\ <<>> \o <<x>> = <<x>>
  /\ \A x, y : <<x>> \o <<y>> = <<x, y>>
  /\ \A x, y, z : <<x, y>> \o <<z>> = <<x, y, z>>
  <1>1. <<>> \o <<>> = <<>>
    OBVIOUS
  <1>2. ASSUME NEW x PROVE <<x>> \o <<>> = <<x>> /\ <<>> \o <<x>> = <<x>>
    <2>1. <<x>> \in Seq({x}) /\ <<>> \in Seq({x})
      OBVIOUS
    <2>2. QED  BY <2>1, ConcatEmptySeq
  <1>3. ASSUME NEW x, NEW y PROVE <<x>> \o <<y>> = <<x, y>>
    <2> DEFINE S == {x, y}
               s == <<x>> \o <<y>>
               t == <<x, y>>
    <2>1. <<x>> \in Seq(S) /\ <<y>> \in Seq(S)
      OBVIOUS
    <2>2. t \in Seq(S) /\ Len(t) = 2 /\ t[1] = x /\ t[2] = y
      OBVIOUS
    <2>3. s \in Seq(S) /\ Len(s) = 2 /\ s[1] = x /\ s[2] = y
      BY <2>1
    <2> HIDE DEF s, t
    <2>4. \A i \in 1..Len(s) : i = 1 \/ i = 2
      BY <2>3
    <2>5. s = t
      BY <2>2, <2>3, <2>4, SeqEqual
    <2>6. QED  BY <2>5 DEF s, t
  <1>4. ASSUME NEW x, NEW y, NEW z PROVE <<x, y>> \o <<z>> = <<x, y, z>>
    <2> DEFINE S == {x, y, z}
               s == <<x, y>> \o <<z>>
               t == <<x, y, z>>
    <2>1. <<x, y>> \in Seq(S) /\ <<z>> \in Seq(S)
      OBVIOUS
    <2>2. t \in Seq(S) /\ Len(t) = 3 /\ t[1] = x /\ t[2] = y /\ t[3] = z
      OBVIOUS
    <2>3. s \in Seq(S) /\ Len(s) = 3 /\ s[1] = x /\ s[2] = y /\ s[3] = z
      BY <2>1
    <2> HIDE DEF s, t
    <2>4. \A i \in 1..Len(s) : i = 1 \/ i = 2 \/ i = 3
      BY <2>3
    <2>5. s = t
      BY <2>2, <2>3, <2>4, SeqEqual
    <2>6. QED  BY <2>5 DEF s, t
  <1>5. QED  BY <1>1, <1>2, <1>3, <1>4

(* What is known after each kind of event that may come. *)
LEMMA KnownAfterAdd ==
  ASSUME NEW aim, NEW k, NEW n, NEW a, NEW loose, a.change = "add",
         a.device = aim.device, a.view \in aim.views, k.phase = "absent"
  PROVE  /\ Legal(aim, k, n, a, loose) /\ Numbers(n, a) = n
         /\ Follows(k, a).phase = "up" /\ Follows(k, a).at = a.at
         /\ Follows(k, a).home = a.view /\ Follows(k, a).pointer = k.pointer
  BY FollowsFields DEF Legal, Numbers, Phase, Starts, Ends

LEMMA KnownAfterHover ==
  ASSUME NEW aim, NEW k, NEW n, NEW a, NEW loose, a.change \in {"hover", "signal"},
         a.device = aim.device, a.view \in aim.views, k.phase # "absent", a.pointer = 0
  PROVE  /\ Legal(aim, k, n, a, loose) /\ Numbers(n, a) = n
         /\ Follows(k, a).phase = k.phase /\ Follows(k, a).at = a.at
         /\ Follows(k, a).home = k.home /\ Follows(k, a).pointer = k.pointer
  BY FollowsFields DEF Legal, Numbers, Phase, Starts, Ends

LEMMA KnownAfterMove ==
  ASSUME NEW aim, NEW k, NEW n, NEW a, NEW loose,
         a.device = aim.device, a.view \in aim.views,
         \/ a.change = "move" /\ k.phase = "down" /\ (a.pointer = k.pointer \/ "move" \in loose)
         \/ a.change = "panUpdate" /\ k.phase = "panning" /\ a.pointer = k.pointer
  PROVE  /\ Legal(aim, k, n, a, loose) /\ Numbers(n, a) = n
         /\ Follows(k, a).phase = k.phase /\ Follows(k, a).at = a.at
         /\ Follows(k, a).home = k.home /\ Follows(k, a).pointer = k.pointer
  BY FollowsFields DEF Legal, Numbers, Phase, Starts, Ends

LEMMA KnownAfterStart ==
  ASSUME NEW aim, NEW k, NEW n, NEW a, NEW loose, a.change \in Starts,
         a.device = aim.device, a.view \in aim.views,
         k.phase = "up", a.at = k.at, a.pointer = n + 1
  PROVE  /\ Legal(aim, k, n, a, loose) /\ Numbers(n, a) = n + 1
         /\ Follows(k, a).phase = (IF a.change = "down" THEN "down" ELSE "panning")
         /\ Follows(k, a).at = a.at
         /\ Follows(k, a).home = k.home /\ Follows(k, a).pointer = n + 1
  BY FollowsFields DEF Legal, Numbers, Phase, Starts, Ends

LEMMA KnownAfterEnd ==
  ASSUME NEW aim, NEW k, NEW n, NEW a, NEW loose,
         a.device = aim.device, a.view \in aim.views, a.pointer = k.pointer,
         \/ a.change = "up" /\ k.phase = "down" /\ a.at = k.at
         \/ a.change = "cancel" /\ k.phase = "down"
         \/ a.change = "panEnd" /\ k.phase = "panning" /\ a.at = k.at
  PROVE  /\ Legal(aim, k, n, a, loose) /\ Numbers(n, a) = n
         /\ Follows(k, a).phase = "up" /\ Follows(k, a).at = a.at
         /\ Follows(k, a).home = k.home /\ Follows(k, a).pointer = k.pointer
  BY FollowsFields DEF Legal, Numbers, Phase, Starts, Ends

LEMMA KnownAfterRemove ==
  ASSUME NEW aim, NEW k, NEW n, NEW a, NEW loose, a.change = "remove",
         a.device = aim.device, a.view \in aim.views, k.phase # "absent", a.at = k.at,
         k.phase = "down" => k.home \notin aim.views
  PROVE  /\ Legal(aim, k, n, a, loose) /\ Numbers(n, a) = n
         /\ Follows(k, a).phase = "absent"
  BY FollowsFields DEF Legal, Numbers, Phase, Starts, Ends

(* What is known settles once it agrees with a state in every field. *)
LEMMA SettledBy ==
  ASSUME NEW k, NEW s \in States, k.phase # "absent", k.at = s.at, k.home = s.view,
         s.down = (k.phase = "down"), s.panning = (k.phase = "panning"),
         Active(k) => k.pointer = s.pointer
  PROVE  Settled(k, s)
  BY NoneAssumption DEF Settled

LEMMA SettledMeans ==
  ASSUME NEW k, NEW s \in States, Settled(k, s)
  PROVE  /\ k.phase # "absent" /\ k.at = s.at /\ k.home = s.view
         /\ s.down = (k.phase = "down") /\ s.panning = (k.phase = "panning")
         /\ Active(k) => k.pointer = s.pointer
  BY NoneAssumption DEF Settled

-----------------------------------------------------------------------------
(* Every conversion leads to the state the converter keeps. *)

(* A device the framework does not know, or knows as the converter does, and *)
(* an event for the view the converter has it in.                            *)
Ready(e, k) ==
  /\ ConverterOK /\ e.view \in views /\ k.phase \in {"absent", "up", "down", "panning"}
  /\ Settled(k, states[e.device])
  /\ states[e.device] # None => states[e.device].view = e.view

(* An event that begins or needs nothing: what comes before it. *)
LEMMA ReadyCases ==
  ASSUME NEW e \in Raw, NEW k, Ready(e, k), NEW c \in Changes
  PROVE  /\ StateOf(e) \in States /\ StateOf(e).view = e.view
         /\ states[e.device] = None =>
              /\ k.phase = "absent" /\ StateOf(e) = Fresh(e)
              /\ Adding(e) = <<As(e, "add")>> /\ Sync(e, StateOf(e), c) = <<>>
         /\ states[e.device] # None =>
              /\ StateOf(e) = states[e.device] /\ Adding(e) = <<>>
              /\ Settled(k, StateOf(e)) /\ k.phase # "absent"
              /\ Sync(e, StateOf(e), c) = IF e.at # StateOf(e).at THEN <<As(e, c)>> ELSE <<>>
  <1>1. StateOf(e) \in States
    BY StateOfType DEF Ready
  <1>2. CASE states[e.device] = None
    <2>1. StateOf(e) = Fresh(e)
      BY <1>2 DEF StateOf
    <2>2. Fresh(e).at = e.at /\ Fresh(e).view = e.view
      BY FreshFields
    <2>3. QED  BY <1>1, <1>2, <2>1, <2>2 DEF Ready, Settled, Adding, Sync
  <1>3. CASE states[e.device] # None
    <2>1. StateOf(e) = states[e.device]
      BY <1>3 DEF StateOf
    <2>2. QED  BY <1>1, <1>3, <2>1 DEF Ready, Settled, Adding, Sync
  <1>4. QED  BY <1>2, <1>3

LEMMA HoverLeads ==
  ASSUME NEW e \in Raw, NEW k, NEW n, Ready(e, k)
  PROVE  Leads3(Aim(e.device, views, At(StateOf(e), e), n), k, n,
                Adding(e) \o Sync(e, StateOf(e), "hover"))
  <1> DEFINE s == StateOf(e)
             t == At(s, e)
             aim == Aim(e.device, views, t, n)
             a == As(e, "add")
             h == As(e, "hover")
  <1>1. /\ s \in States /\ s.view = e.view /\ t \in States
        /\ t.at = e.at /\ t.view = e.view /\ t.pointer = s.pointer
        /\ t.down = s.down /\ t.panning = s.panning
    BY ReadyCases, AtType, AtFields DEF Changes
  <1>2. /\ aim.device = e.device /\ aim.views = views /\ aim.state = t /\ aim.count = n
        /\ e.view \in views
    BY AimFields DEF Ready
  <1>3. /\ a.change = "add" /\ a.device = e.device /\ a.view = e.view /\ a.at = e.at
        /\ h.change = "hover" /\ h.device = e.device /\ h.view = e.view /\ h.at = e.at
        /\ h.pointer = 0
    BY AsFields DEF Changes
  <1>4. CASE states[e.device] = None
    <2>1. /\ k.phase = "absent" /\ s = Fresh(e)
          /\ Adding(e) = <<a>> /\ Sync(e, s, "hover") = <<>>
      BY <1>4, ReadyCases DEF Changes
    <2>2. s.down = FALSE /\ s.panning = FALSE
      BY <2>1, FreshFields
    <2> HIDE DEF s, t, aim, a
    <2>3. Adding(e) \o Sync(e, s, "hover") = <<a>>
      BY <2>1, Joined
    <2>4. /\ Legal(aim, k, n, a, {}) /\ Numbers(n, a) = n
          /\ Follows(k, a).phase = "up" /\ Follows(k, a).at = a.at
          /\ Follows(k, a).home = a.view
      BY <1>2, <1>3, <2>1, KnownAfterAdd
    <2>5. Settled(Follows(k, a), t)
      BY <1>1, <1>3, <2>2, <2>4, SettledBy DEF Active
    <2>6. Leads3(aim, k, n, <<a>>)
      BY <1>2, <2>4, <2>5, LeadsByOne
    <2>7. QED  BY <2>3, <2>6 DEF s, t, aim
  <1>5. CASE states[e.device] # None
    <2>1. /\ Adding(e) = <<>> /\ Settled(k, s) /\ k.phase # "absent"
          /\ Sync(e, s, "hover") = IF e.at # s.at THEN <<h>> ELSE <<>>
      BY <1>5, ReadyCases DEF Changes
    <2> HIDE DEF s, t, aim, h
    <2>2. /\ k.at = s.at /\ k.home = s.view
          /\ s.down = (k.phase = "down") /\ s.panning = (k.phase = "panning")
          /\ Active(k) => k.pointer = s.pointer
      BY <1>1, <2>1, SettledMeans
    <2>3. CASE e.at # s.at
      <3>1. Adding(e) \o Sync(e, s, "hover") = <<h>>
        BY <2>1, <2>3, Joined
      <3>2. /\ Legal(aim, k, n, h, {}) /\ Numbers(n, h) = n
            /\ Follows(k, h).phase = k.phase /\ Follows(k, h).at = h.at
            /\ Follows(k, h).home = k.home /\ Follows(k, h).pointer = k.pointer
        BY <1>2, <1>3, <2>1, KnownAfterHover
      <3>3. Settled(Follows(k, h), t)
        BY <1>1, <1>3, <2>1, <2>2, <3>2, SettledBy DEF Active
      <3>4. Leads3(aim, k, n, <<h>>)
        BY <1>2, <3>2, <3>3, LeadsByOne
      <3>5. QED  BY <3>1, <3>4 DEF s, t, aim
    <2>4. CASE e.at = s.at
      <3>1. Adding(e) \o Sync(e, s, "hover") = <<>>
        BY <2>1, <2>4, Joined
      <3>2. Settled(k, t)
        BY <1>1, <2>1, <2>2, <2>4, SettledBy
      <3>3. QED  BY <1>2, <3>1, <3>2, LeadsNone DEF s, t, aim
    <2>5. QED  BY <2>3, <2>4
  <1>6. QED  BY <1>4, <1>5

(* A contact or gesture begins, in a state s like the one it is added to. *)
LEMMA BeginLeads ==
  ASSUME NEW e \in Raw, NEW k, NEW n \in Nat, Ready(e, k), n < MaxPointers, e.change \in Starts,
         NEW s \in States, s.view = e.view,
         s.down = (e.change = "down"), s.panning = (e.change = "panStart"),
         StateOf(e).down = FALSE, StateOf(e).panning = FALSE
  PROVE  Leads3(Aim(e.device, views, [At(s, e) EXCEPT !.pointer = n + 1], n + 1), k, n,
                Adding(e) \o Sync(e, StateOf(e), "hover") \o <<[e EXCEPT !.pointer = n + 1]>>)
  <1> DEFINE s0 == StateOf(e)
             t == [At(s, e) EXCEPT !.pointer = n + 1]
             aim == Aim(e.device, views, t, n + 1)
             a == As(e, "add")
             h == As(e, "hover")
             b == [e EXCEPT !.pointer = n + 1]
  <1>1. /\ t \in States /\ t.at = e.at /\ t.view = e.view /\ t.pointer = n + 1
        /\ t.down = (e.change = "down") /\ t.panning = (e.change = "panStart")
    <2>1. /\ At(s, e) \in States /\ At(s, e).at = e.at /\ At(s, e).view = s.view
          /\ At(s, e).down = s.down /\ At(s, e).panning = s.panning
      BY AtType, AtFields
    <2>2. n + 1 \in 0..MaxPointers
      BY PointersAssumption
    <2>3. QED  BY <2>1, <2>2 DEF States
  <1>2. /\ aim.device = e.device /\ aim.views = views /\ aim.state = t /\ aim.count = n + 1
        /\ e.view \in views
    BY AimFields DEF Ready
  <1>3. /\ a.change = "add" /\ a.device = e.device /\ a.view = e.view /\ a.at = e.at
        /\ h.change = "hover" /\ h.device = e.device /\ h.view = e.view /\ h.at = e.at
        /\ h.pointer = 0
        /\ b.change = e.change /\ b.device = e.device /\ b.view = e.view /\ b.at = e.at
        /\ b.pointer = n + 1
    <2>1. /\ b.change = e.change /\ b.device = e.device /\ b.view = e.view /\ b.at = e.at
          /\ b.pointer = n + 1
      BY DEF Raw, Events
    <2>2. QED  BY <2>1, AsFields DEF Changes
  <1>4. s0 \in States /\ s0.view = e.view /\ s0.down = FALSE /\ s0.panning = FALSE
    BY ReadyCases DEF Changes
  (* From a device that is up, known as it is when the contact begins. *)
  <1>5. ASSUME NEW j, NEW loose, j.phase = "up", j.at = e.at, j.home = e.view
        PROVE  Legal(aim, j, n, b, loose) /\ Numbers(n, b) = aim.count /\ Settled(Follows(j, b), t)
    <2> HIDE DEF s0, t, aim, a, h, b
    <2>1. /\ Legal(aim, j, n, b, loose) /\ Numbers(n, b) = n + 1
          /\ Follows(j, b).phase = (IF b.change = "down" THEN "down" ELSE "panning")
          /\ Follows(j, b).at = b.at
          /\ Follows(j, b).home = j.home /\ Follows(j, b).pointer = n + 1
      BY <1>2, <1>3, <1>5, KnownAfterStart
    <2>2. e.change = "down" \/ e.change = "panStart"
      BY DEF Starts
    <2>3. Settled(Follows(j, b), t)
      BY <1>1, <1>3, <1>5, <2>1, <2>2, SettledBy
    <2>4. QED  BY <1>2, <2>1, <2>3
  <1>6. CASE states[e.device] = None
    <2>1. /\ k.phase = "absent" /\ Adding(e) = <<a>> /\ Sync(e, s0, "hover") = <<>>
      BY <1>6, ReadyCases DEF Changes
    <2> HIDE DEF s0, t, aim, a, h, b
    <2>2. Adding(e) \o Sync(e, s0, "hover") \o <<b>> = <<a, b>>
      BY <2>1, Joined
    <2>3. /\ Legal(aim, k, n, a, Before(b)) /\ Numbers(n, a) = n
          /\ Follows(k, a).phase = "up" /\ Follows(k, a).at = a.at
          /\ Follows(k, a).home = a.view
      BY <1>2, <1>3, <2>1, KnownAfterAdd
    <2>4. /\ Legal(aim, Follows(k, a), n, b, {}) /\ Numbers(n, b) = aim.count
          /\ Settled(Follows(Follows(k, a), b), t)
      BY <1>3, <1>5, <2>3
    <2>5. Leads3(aim, k, n, <<a, b>>)
      BY <1>2, <2>3, <2>4, LeadsByTwo
    <2>6. QED  BY <2>2, <2>5 DEF s0, t, aim, b
  <1>7. CASE states[e.device] # None
    <2>1. /\ Adding(e) = <<>> /\ Settled(k, s0) /\ k.phase # "absent"
          /\ Sync(e, s0, "hover") = IF e.at # s0.at THEN <<h>> ELSE <<>>
      BY <1>7, ReadyCases DEF Changes
    <2> HIDE DEF s0, t, aim, a, h, b
    <2>2. k.at = s0.at /\ k.home = e.view /\ k.phase # "down" /\ k.phase # "panning"
      BY <1>4, <2>1, SettledMeans
    <2>3. k.phase = "up"
      BY <1>7, <2>1, <2>2 DEF Ready
    <2>4. CASE e.at # s0.at
      <3>1. Adding(e) \o Sync(e, s0, "hover") \o <<b>> = <<h, b>>
        BY <2>1, <2>4, Joined
      <3>2. /\ Legal(aim, k, n, h, Before(b)) /\ Numbers(n, h) = n
            /\ Follows(k, h).phase = k.phase /\ Follows(k, h).at = h.at
            /\ Follows(k, h).home = k.home
        <4>1. /\ h.change \in {"hover", "signal"} /\ h.device = aim.device
              /\ h.view \in aim.views /\ k.phase # "absent" /\ h.pointer = 0
          BY <1>2, <1>3, <2>1
        <4>2. QED  BY <4>1, KnownAfterHover
      <3>3. /\ Legal(aim, Follows(k, h), n, b, {}) /\ Numbers(n, b) = aim.count
            /\ Settled(Follows(Follows(k, h), b), t)
        BY <1>3, <1>5, <2>2, <2>3, <3>2
      <3>4. Leads3(aim, k, n, <<h, b>>)
        BY <1>2, <3>2, <3>3, LeadsByTwo
      <3>5. QED  BY <3>1, <3>4 DEF s0, t, aim, b
    <2>5. CASE e.at = s0.at
      <3>1. Adding(e) \o Sync(e, s0, "hover") \o <<b>> = <<b>>
        BY <2>1, <2>5, Joined
      <3>2. /\ Legal(aim, k, n, b, {}) /\ Numbers(n, b) = aim.count
            /\ Settled(Follows(k, b), t)
        BY <1>5, <2>2, <2>3, <2>5
      <3>3. Leads3(aim, k, n, <<b>>)
        BY <1>2, <3>2, LeadsByOne
      <3>4. QED  BY <3>1, <3>3 DEF s0, t, aim, b
    <2>6. QED  BY <2>4, <2>5
  <1>8. QED  BY <1>6, <1>7

(* An event of a device that has a state: what is known of it. *)
LEMMA ReadyKnown ==
  ASSUME NEW e \in Raw, NEW k, Ready(e, k), states[e.device] # None
  PROVE  /\ states[e.device] \in States /\ states[e.device].view = e.view
         /\ k.phase # "absent" /\ k.at = states[e.device].at /\ k.home = e.view
         /\ states[e.device].down = (k.phase = "down")
         /\ states[e.device].panning = (k.phase = "panning")
         /\ Active(k) => k.pointer = states[e.device].pointer
  <1>1. states[e.device] \in States /\ states[e.device].view = e.view
    BY DEF Ready, ConverterOK, Raw, Events
  <1>2. Settled(k, states[e.device])
    BY DEF Ready
  <1>3. QED  BY <1>1, <1>2, SettledMeans

LEMMA MoveLeads ==
  ASSUME NEW e \in Raw, NEW k, NEW n, Ready(e, k), states[e.device] # None,
         \/ e.change = "move" /\ states[e.device].down
         \/ e.change = "panUpdate" /\ states[e.device].panning
  PROVE  Leads3(Aim(e.device, views, At(states[e.device], e), n), k, n,
                <<Identify(e, states[e.device])>>)
  <1> DEFINE s == states[e.device]
             t == At(s, e)
             aim == Aim(e.device, views, t, n)
             i == Identify(e, s)
  <1>1. /\ s \in States /\ s.view = e.view
        /\ k.phase # "absent" /\ k.at = s.at /\ k.home = e.view
        /\ s.down = (k.phase = "down") /\ s.panning = (k.phase = "panning")
        /\ Active(k) => k.pointer = s.pointer
    BY ReadyKnown
  <1>2. /\ t \in States /\ t.at = e.at /\ t.view = s.view /\ t.pointer = s.pointer
        /\ t.down = s.down /\ t.panning = s.panning
    BY <1>1, AtType, AtFields
  <1>3. /\ aim.device = e.device /\ aim.views = views /\ aim.state = t /\ aim.count = n
        /\ e.view \in views
    BY AimFields DEF Ready
  <1>4. /\ i.change = e.change /\ i.device = e.device /\ i.view = e.view /\ i.at = e.at
        /\ i.pointer = s.pointer
    BY IdentifyFields DEF Changes
  <1> HIDE DEF s, t, aim, i
  <1>5. \/ e.change = "move" /\ k.phase = "down"
        \/ e.change = "panUpdate" /\ k.phase = "panning"
    BY <1>1 DEF s
  <1>6. i.pointer = k.pointer
    BY <1>1, <1>4, <1>5 DEF Active
  <1>7. /\ Legal(aim, k, n, i, {}) /\ Numbers(n, i) = n
        /\ Follows(k, i).phase = k.phase /\ Follows(k, i).at = i.at
        /\ Follows(k, i).home = k.home /\ Follows(k, i).pointer = k.pointer
    BY <1>3, <1>4, <1>5, <1>6, KnownAfterMove
  <1>8. Settled(Follows(k, i), t)
    BY <1>1, <1>2, <1>4, <1>7, SettledBy DEF Active
  <1>9. Leads3(aim, k, n, <<i>>)
    BY <1>3, <1>7, <1>8, LeadsByOne
  <1>10. QED  BY <1>9 DEF s, t, aim, i

(* A contact or a gesture ends, which leaves the state r. *)
LEMMA FinishLeads ==
  ASSUME NEW e \in Raw, NEW k, NEW n, Ready(e, k), states[e.device] # None,
         NEW r \in States, r.view = e.view, r.down = FALSE, r.panning = FALSE, NEW c,
         \/ e.change \in {"up", "cancel"} /\ c = "move" /\ states[e.device].down
         \/ e.change = "panEnd" /\ c = "panUpdate" /\ states[e.device].panning
  PROVE  Leads3(Aim(e.device, views, At(r, e), n), k, n,
                Sync(Identify(e, states[e.device]), states[e.device], c)
                  \o <<Identify(e, states[e.device])>>)
  <1> DEFINE s == states[e.device]
             t == At(r, e)
             aim == Aim(e.device, views, t, n)
             i == Identify(e, s)
             m == As(i, c)
  <1>1. /\ s \in States /\ s.view = e.view
        /\ k.phase # "absent" /\ k.at = s.at /\ k.home = e.view
        /\ s.down = (k.phase = "down") /\ s.panning = (k.phase = "panning")
        /\ Active(k) => k.pointer = s.pointer
    BY ReadyKnown
  <1>2. /\ t \in States /\ t.at = e.at /\ t.view = e.view /\ t.down = FALSE /\ t.panning = FALSE
    BY AtType, AtFields
  <1>3. /\ aim.device = e.device /\ aim.views = views /\ aim.state = t /\ aim.count = n
        /\ e.view \in views
    BY AimFields DEF Ready
  <1>4. /\ i.change = e.change /\ i.device = e.device /\ i.view = e.view /\ i.at = e.at
        /\ i.pointer = s.pointer
        /\ m.change = c /\ m.device = e.device /\ m.view = e.view /\ m.at = e.at
        /\ m.pointer = s.pointer
    BY IdentifyFields DEF Changes
  <1>5. Sync(i, s, c) = IF e.at # s.at THEN <<m>> ELSE <<>>
    BY <1>4 DEF Sync
  <1>6. /\ \/ e.change \in {"up", "cancel"} /\ c = "move" /\ k.phase = "down"
           \/ e.change = "panEnd" /\ c = "panUpdate" /\ k.phase = "panning"
        /\ k.pointer = s.pointer
    BY <1>1 DEF Active
  <1> HIDE DEF s, t, aim, i, m
  (* The end itself, once the pointer is there. *)
  <1>7. ASSUME NEW j, j.phase = k.phase, j.at = e.at, j.home = e.view, j.pointer = k.pointer
        PROVE  Legal(aim, j, n, i, {}) /\ Numbers(n, i) = n /\ Settled(Follows(j, i), t)
    <2>1. /\ Legal(aim, j, n, i, {}) /\ Numbers(n, i) = n
          /\ Follows(j, i).phase = "up" /\ Follows(j, i).at = i.at
          /\ Follows(j, i).home = j.home
      BY <1>3, <1>4, <1>6, <1>7, KnownAfterEnd
    <2>2. Settled(Follows(j, i), t)
      BY <1>2, <1>4, <1>7, <2>1, SettledBy DEF Active
    <2>3. QED  BY <2>1, <2>2
  <1>8. CASE e.at # s.at
    <2>1. Sync(i, s, c) \o <<i>> = <<m, i>>
      BY <1>5, <1>8, Joined
    <2>2. /\ Legal(aim, k, n, m, Before(i)) /\ Numbers(n, m) = n
          /\ Follows(k, m).phase = k.phase /\ Follows(k, m).at = m.at
          /\ Follows(k, m).home = k.home /\ Follows(k, m).pointer = k.pointer
      <3>1. m.device = aim.device /\ m.view \in aim.views /\ m.pointer = k.pointer
        BY <1>3, <1>4, <1>6
      <3>2. QED  BY <1>4, <1>6, <3>1, KnownAfterMove
    <2>3. /\ Legal(aim, Follows(k, m), n, i, {}) /\ Numbers(n, i) = n
          /\ Settled(Follows(Follows(k, m), i), t)
      BY <1>1, <1>4, <1>7, <2>2
    <2>4. Leads3(aim, k, n, <<m, i>>)
      BY <1>3, <2>2, <2>3, LeadsByTwo
    <2>5. QED  BY <2>1, <2>4 DEF s, t, aim, i
  <1>9. CASE e.at = s.at
    <2>1. Sync(i, s, c) \o <<i>> = <<i>>
      BY <1>5, <1>9, Joined
    <2>2. Legal(aim, k, n, i, {}) /\ Numbers(n, i) = n /\ Settled(Follows(k, i), t)
      BY <1>1, <1>7, <1>9
    <2>3. Leads3(aim, k, n, <<i>>)
      BY <1>3, <2>2, LeadsByOne
    <2>4. QED  BY <2>1, <2>3 DEF s, t, aim, i
  <1>10. QED  BY <1>8, <1>9

LEMMA SignalLeads ==
  ASSUME NEW e \in Raw, NEW k, NEW n, Ready(e, k), e.change = "signal"
  PROVE  Leads3(Aim(e.device, views, At(StateOf(e), e), n), k, n,
                Adding(e) \o Sync(e, StateOf(e), IF StateOf(e).down THEN "move" ELSE "hover")
                  \o <<e>>)
  <1> DEFINE s == StateOf(e)
             t == At(s, e)
             aim == Aim(e.device, views, t, n)
             a == As(e, "add")
             c == IF s.down THEN "move" ELSE "hover"
             m == As(e, c)
  <1>1. c \in Changes
    BY DEF Changes
  <1>2. /\ s \in States /\ s.view = e.view /\ t \in States
        /\ t.at = e.at /\ t.view = e.view /\ t.pointer = s.pointer
        /\ t.down = s.down /\ t.panning = s.panning
    BY <1>1, ReadyCases, AtType, AtFields
  <1>3. /\ aim.device = e.device /\ aim.views = views /\ aim.state = t /\ aim.count = n
        /\ e.view \in views
    BY AimFields DEF Ready
  <1>4. /\ a.change = "add" /\ a.device = e.device /\ a.view = e.view /\ a.at = e.at
        /\ m.change = c /\ m.device = e.device /\ m.view = e.view /\ m.at = e.at
        /\ m.pointer = 0 /\ e.pointer = 0
    BY <1>1, AsFields DEF Changes, Raw
  (* The signal itself, of a device known as the converter keeps it. *)
  <1>5. ASSUME NEW j, NEW loose, j.phase # "absent", j.home = e.view,
               s.down = (j.phase = "down"), s.panning = (j.phase = "panning"),
               Active(j) => j.pointer = s.pointer
        PROVE  Legal(aim, j, n, e, loose) /\ Numbers(n, e) = n /\ Settled(Follows(j, e), t)
    <2> HIDE DEF s, t, aim, a, c, m
    <2>1. /\ Legal(aim, j, n, e, loose) /\ Numbers(n, e) = n
          /\ Follows(j, e).phase = j.phase /\ Follows(j, e).at = e.at
          /\ Follows(j, e).home = j.home /\ Follows(j, e).pointer = j.pointer
      BY <1>3, <1>4, <1>5, KnownAfterHover
    <2>2. Settled(Follows(j, e), t)
      BY <1>2, <1>5, <2>1, SettledBy DEF Active
    <2>3. QED  BY <2>1, <2>2
  <1>6. CASE states[e.device] = None
    <2>1. /\ k.phase = "absent" /\ Adding(e) = <<a>> /\ Sync(e, s, c) = <<>>
          /\ s.down = FALSE /\ s.panning = FALSE
      <3>1. s = Fresh(e)
        BY <1>6, <1>1, ReadyCases
      <3>2. QED  BY <1>6, <1>1, <3>1, ReadyCases, FreshFields
    <2> HIDE DEF s, t, aim, a, c, m
    <2>2. Adding(e) \o Sync(e, s, c) \o <<e>> = <<a, e>>
      BY <2>1, Joined
    <2>3. /\ Legal(aim, k, n, a, Before(e)) /\ Numbers(n, a) = n
          /\ Follows(k, a).phase = "up" /\ Follows(k, a).at = a.at
          /\ Follows(k, a).home = a.view
      <3>1. a.device = aim.device /\ a.view \in aim.views
        BY <1>3, <1>4
      <3>2. QED  BY <1>4, <2>1, <3>1, KnownAfterAdd
    <2>4. /\ Legal(aim, Follows(k, a), n, e, {}) /\ Numbers(n, e) = n
          /\ Settled(Follows(Follows(k, a), e), t)
      BY <1>4, <1>5, <2>1, <2>3 DEF Active
    <2>5. Leads3(aim, k, n, <<a, e>>)
      BY <1>3, <2>3, <2>4, LeadsByTwo
    <2>6. QED  BY <2>2, <2>5 DEF s, t, aim, c
  <1>7. CASE states[e.device] # None
    <2>1. /\ Adding(e) = <<>> /\ Settled(k, s) /\ k.phase # "absent"
          /\ Sync(e, s, c) = IF e.at # s.at THEN <<m>> ELSE <<>>
      BY <1>7, <1>1, ReadyCases
    <2>2. (s.down /\ c = "move") \/ (~s.down /\ c = "hover")
      OBVIOUS
    <2> HIDE DEF s, t, aim, a, c, m
    <2>3. /\ k.at = s.at /\ k.home = e.view
          /\ s.down = (k.phase = "down") /\ s.panning = (k.phase = "panning")
          /\ Active(k) => k.pointer = s.pointer
      BY <1>2, <2>1, SettledMeans
    <2>4. CASE e.at # s.at
      <3>1. Adding(e) \o Sync(e, s, c) \o <<e>> = <<m, e>>
        BY <2>1, <2>4, Joined
      <3>2. m.device = aim.device /\ m.view \in aim.views
        BY <1>3, <1>4
      <3>3. /\ Legal(aim, k, n, m, Before(e)) /\ Numbers(n, m) = n
            /\ Follows(k, m).phase = k.phase /\ Follows(k, m).at = m.at
            /\ Follows(k, m).home = k.home /\ Follows(k, m).pointer = k.pointer
        <4>1. CASE s.down /\ c = "move"
          <5>1. "move" \in Before(e) /\ m.change = "move" /\ k.phase = "down"
            BY <1>4, <2>3, <4>1 DEF Before
          <5>2. QED  BY <3>2, <5>1, KnownAfterMove
        <4>2. CASE ~s.down /\ c = "hover"
          <5>1. m.change \in {"hover", "signal"} /\ m.pointer = 0
            BY <1>4, <4>2
          <5>2. QED  BY <2>1, <3>2, <5>1, KnownAfterHover
        <4>3. QED  BY <2>2, <4>1, <4>2
      <3>4. /\ Legal(aim, Follows(k, m), n, e, {}) /\ Numbers(n, e) = n
            /\ Settled(Follows(Follows(k, m), e), t)
        BY <1>5, <2>1, <2>3, <3>3 DEF Active
      <3>5. Leads3(aim, k, n, <<m, e>>)
        BY <1>3, <3>3, <3>4, LeadsByTwo
      <3>6. QED  BY <3>1, <3>5 DEF s, t, aim, c
    <2>5. CASE e.at = s.at
      <3>1. Adding(e) \o Sync(e, s, c) \o <<e>> = <<e>>
        BY <2>1, <2>5, Joined
      <3>2. Legal(aim, k, n, e, {}) /\ Numbers(n, e) = n /\ Settled(Follows(k, e), t)
        BY <1>5, <2>1, <2>3
      <3>3. Leads3(aim, k, n, <<e>>)
        BY <1>3, <3>2, LeadsByOne
      <3>4. QED  BY <3>1, <3>3 DEF s, t, aim, c
    <2>6. QED  BY <2>4, <2>5
  <1>8. QED  BY <1>6, <1>7

(* The cancel of a contact that is removed in the event g. *)
LEMMA CancelFields ==
  ASSUME NEW g \in Raw, NEW s
  PROVE  LET c == Identify(As(g, "cancel"), s)
         IN  /\ c.change = "cancel" /\ c.device = g.device /\ c.view = g.view
             /\ c.at = g.at /\ c.pointer = s.pointer
  <1> DEFINE a == As(g, "cancel")
  <1>1. /\ a \in Raw /\ a.change = "cancel" /\ a.device = g.device /\ a.view = g.view
        /\ a.at = g.at
    BY AsRaw DEF Changes
  <1> HIDE DEF a
  <1>2. QED  BY <1>1, IdentifyFields DEF Changes, a

LEMMA RemoveLeads ==
  ASSUME NEW e \in Raw, NEW k, NEW n, Ready(e, k), e.change = "remove", states[e.device] # None
  PROVE  LET s == states[e.device]
             cancel == IF s.down THEN <<Identify(As(e, "cancel"), s)>> ELSE <<>>
         IN  Leads3(Aim(e.device, views, None, n), k, n, cancel \o Sync(e, s, "hover") \o <<e>>)
  <1> DEFINE s == states[e.device]
             aim == Aim(e.device, views, None, n)
             c == Identify(As(e, "cancel"), s)
             h == As(e, "hover")
             cancel == IF s.down THEN <<c>> ELSE <<>>
             sync == Sync(e, s, "hover")
  <1>1. /\ s \in States /\ s.view = e.view
        /\ k.phase # "absent" /\ k.at = s.at /\ k.home = e.view
        /\ s.down = (k.phase = "down") /\ s.panning = (k.phase = "panning")
        /\ Active(k) => k.pointer = s.pointer
    BY ReadyKnown
  <1>2. /\ aim.device = e.device /\ aim.views = views /\ aim.state = None /\ aim.count = n
        /\ e.view \in views
    BY AimFields DEF Ready
  <1>3. /\ h.change = "hover" /\ h.device = e.device /\ h.view = e.view /\ h.at = e.at
        /\ h.pointer = 0
        /\ c.change = "cancel" /\ c.device = e.device /\ c.view = e.view /\ c.at = e.at
        /\ c.pointer = s.pointer
    BY AsFields, CancelFields DEF Changes
  <1>4. sync = IF e.at # s.at THEN <<h>> ELSE <<>>
    BY DEF Sync
  <1>5. cancel = IF k.phase = "down" THEN <<c>> ELSE <<>>
    BY <1>1
  <1> HIDE DEF s, aim, c, h, cancel, sync
  (* What ends a conversion, and the hover before it. *)
  <1>6. ASSUME NEW j, j.phase # "absent", j.phase # "down", j.at = e.at
        PROVE  Legal(aim, j, n, e, {}) /\ Numbers(n, e) = n /\ Settled(Follows(j, e), None)
    BY <1>2, <1>6, KnownAfterRemove DEF Settled
  <1>7. ASSUME NEW j, j.phase # "absent", NEW loose
        PROVE  /\ Legal(aim, j, n, h, loose) /\ Numbers(n, h) = n
               /\ Follows(j, h).phase = j.phase /\ Follows(j, h).at = e.at
    BY <1>2, <1>3, <1>7, KnownAfterHover
  <1>8. CASE k.phase = "down"
    <2>1. /\ Legal(aim, k, n, c, {}) /\ Legal(aim, k, n, c, Before(e)) /\ Numbers(n, c) = n
          /\ Follows(k, c).phase = "up" /\ Follows(k, c).at = e.at
      <3>1. c.device = aim.device /\ c.view \in aim.views /\ c.pointer = k.pointer
        BY <1>1, <1>2, <1>3, <1>8 DEF Active
      <3>2. QED  BY <1>3, <1>8, <3>1, KnownAfterEnd
    <2>2. CASE e.at # s.at
      <3>1. cancel \o sync \o <<e>> = <<c, h, e>>
        <4>1. cancel = <<c>> /\ sync = <<h>>
          BY <1>4, <1>5, <1>8, <2>2
        <4>2. cancel \o sync = <<c, h>>
          BY <4>1, Joined
        <4>3. QED  BY <4>2, Joined
      <3>2. /\ Legal(aim, Follows(k, c), n, h, Before(e)) /\ Numbers(n, h) = n
            /\ Follows(Follows(k, c), h).phase = "up" /\ Follows(Follows(k, c), h).at = e.at
        BY <1>7, <2>1
      <3>3. /\ Legal(aim, Follows(Follows(k, c), h), n, e, {}) /\ Numbers(n, e) = n
            /\ Settled(Follows(Follows(Follows(k, c), h), e), None)
        BY <1>6, <3>2
      <3>4. Leads3(aim, k, n, <<c, h, e>>)
        BY <1>2, <2>1, <3>2, <3>3, LeadsByThree
      <3>5. QED  BY <3>1, <3>4 DEF s, aim, c, cancel, sync
    <2>3. CASE e.at = s.at
      <3>1. cancel \o sync \o <<e>> = <<c, e>>
        BY <1>4, <1>5, <1>8, <2>3, Joined
      <3>2. /\ Legal(aim, Follows(k, c), n, e, {}) /\ Numbers(n, e) = n
            /\ Settled(Follows(Follows(k, c), e), None)
        BY <1>6, <2>1
      <3>3. Leads3(aim, k, n, <<c, e>>)
        BY <1>2, <2>1, <3>2, LeadsByTwo
      <3>4. QED  BY <3>1, <3>3 DEF s, aim, c, cancel, sync
    <2>4. QED  BY <2>2, <2>3
  <1>9. CASE k.phase # "down"
    <2>1. CASE e.at # s.at
      <3>1. cancel \o sync \o <<e>> = <<h, e>>
        BY <1>4, <1>5, <1>9, <2>1, Joined
      <3>2. /\ Legal(aim, k, n, h, Before(e)) /\ Numbers(n, h) = n
            /\ Follows(k, h).phase = k.phase /\ Follows(k, h).at = e.at
        BY <1>1, <1>7
      <3>3. /\ Legal(aim, Follows(k, h), n, e, {}) /\ Numbers(n, e) = n
            /\ Settled(Follows(Follows(k, h), e), None)
        BY <1>1, <1>6, <1>9, <3>2
      <3>4. Leads3(aim, k, n, <<h, e>>)
        BY <1>2, <3>2, <3>3, LeadsByTwo
      <3>5. QED  BY <3>1, <3>4 DEF s, aim, c, cancel, sync
    <2>2. CASE e.at = s.at
      <3>1. cancel \o sync \o <<e>> = <<e>>
        BY <1>4, <1>5, <1>9, <2>2, Joined
      <3>2. Legal(aim, k, n, e, {}) /\ Numbers(n, e) = n /\ Settled(Follows(k, e), None)
        BY <1>1, <1>6, <1>9, <2>2
      <3>3. Leads3(aim, k, n, <<e>>)
        BY <1>2, <3>2, LeadsByOne
      <3>4. QED  BY <3>1, <3>3 DEF s, aim, c, cancel, sync
    <2>3. QED  BY <2>1, <2>2
  <1>10. QED  BY <1>8, <1>9

(* An add takes away first what an earlier add has left, wherever it is. *)
LEMMA AddLeads ==
  ASSUME ConverterOK, NEW e \in Raw, e.change = "add", e.view \in views,
         NEW k, NEW n, Settled(k, states[e.device])
  PROVE  LET s == states[e.device]
             gone == [e EXCEPT !.view = RemoveIn(e, s), !.at = s.at]
             cancel == IF s.down /\ s.view \in views
                       THEN <<Identify(As(gone, "cancel"), s)>> ELSE <<>>
             removal == IF s = None THEN <<>> ELSE cancel \o <<As(gone, "remove")>>
         IN  Leads3(Aim(e.device, views, Fresh(e), n), k, n, removal \o <<e>>)
  <1> DEFINE s == states[e.device]
             gone == [e EXCEPT !.view = RemoveIn(e, s), !.at = s.at]
             c == Identify(As(gone, "cancel"), s)
             r == As(gone, "remove")
             cancel == IF s.down /\ s.view \in views THEN <<c>> ELSE <<>>
             removal == IF s = None THEN <<>> ELSE cancel \o <<r>>
             t == Fresh(e)
             aim == Aim(e.device, views, t, n)
  <1>1. /\ t \in States /\ t.at = e.at /\ t.view = e.view
        /\ t.down = FALSE /\ t.panning = FALSE
    BY FreshType, FreshFields
  <1>2. aim.device = e.device /\ aim.views = views /\ aim.state = t /\ aim.count = n
    BY AimFields
  <1> HIDE DEF t, aim
  (* The add itself. *)
  <1>3. ASSUME NEW j, j.phase = "absent"
        PROVE  Legal(aim, j, n, e, {}) /\ Numbers(n, e) = n /\ Settled(Follows(j, e), t)
    <2>1. /\ Legal(aim, j, n, e, {}) /\ Numbers(n, e) = n
          /\ Follows(j, e).phase = "up" /\ Follows(j, e).at = e.at
          /\ Follows(j, e).home = e.view
      BY <1>2, <1>3, KnownAfterAdd
    <2>2. Settled(Follows(j, e), t)
      BY <1>1, <2>1, SettledBy DEF Active
    <2>3. QED  BY <2>1, <2>2
  <1>4. CASE s = None
    <2>1. removal \o <<e>> = <<e>>
      BY <1>4, Joined
    <2>2. k.phase = "absent"
      BY <1>4 DEF Settled
    <2>3. Leads3(aim, k, n, <<e>>)
      BY <1>2, <1>3, <2>2, LeadsByOne
    <2>4. QED  BY <2>1, <2>3 DEF t, aim
  <1>5. CASE s # None
    <2>1. s \in States
      BY <1>5 DEF ConverterOK, Raw, Events
    <2>2. /\ k.phase # "absent" /\ k.at = s.at /\ k.home = s.view
          /\ s.down = (k.phase = "down") /\ s.panning = (k.phase = "panning")
          /\ Active(k) => k.pointer = s.pointer
      BY <2>1, SettledMeans
    <2>3. /\ RemoveIn(e, s) \in Views /\ RemoveIn(e, s) \in views
          /\ s.view \in views => RemoveIn(e, s) = s.view
      BY <2>1 DEF RemoveIn, States, Raw, Events
    <2>4. gone \in Raw /\ gone.device = e.device /\ gone.view = RemoveIn(e, s) /\ gone.at = s.at
      BY <2>1, <2>3 DEF Raw, Events, States
    <2> HIDE DEF s, gone
    <2>5. /\ r.change = "remove" /\ r.device = e.device /\ r.view \in views /\ r.at = k.at
          /\ c.change = "cancel" /\ c.device = e.device /\ c.view \in views /\ c.at = k.at
          /\ c.pointer = s.pointer
      BY <2>2, <2>3, <2>4, AsFields, CancelFields DEF Changes
    <2> HIDE DEF c, r
    <2>6. removal = IF k.phase = "down" /\ s.view \in views THEN <<c, r>> ELSE <<r>>
      <3>1. removal = cancel \o <<r>>
        BY <1>5
      <3>2. cancel = IF k.phase = "down" /\ s.view \in views THEN <<c>> ELSE <<>>
        BY <2>2
      <3>3. <<c>> \o <<r>> = <<c, r>> /\ <<>> \o <<r>> = <<r>>
        BY Joined
      <3> HIDE DEF removal, cancel
      <3>4. QED  BY <3>1, <3>2, <3>3
    <2> HIDE DEF removal, cancel
    <2>7. CASE k.phase = "down" /\ s.view \in views
      <3>1. removal \o <<e>> = <<c, r, e>>
        BY <2>6, <2>7, Joined
      <3>2. /\ Legal(aim, k, n, c, {}) /\ Numbers(n, c) = n
            /\ Follows(k, c).phase = "up" /\ Follows(k, c).at = k.at
        <4>1. c.device = aim.device /\ c.view \in aim.views /\ c.pointer = k.pointer
          BY <1>2, <2>2, <2>5, <2>7 DEF Active
        <4>2. QED  BY <2>5, <2>7, <4>1, KnownAfterEnd
      <3>3. /\ Legal(aim, Follows(k, c), n, r, Before(e)) /\ Numbers(n, r) = n
            /\ Follows(Follows(k, c), r).phase = "absent"
        BY <1>2, <2>5, <3>2, KnownAfterRemove
      <3>4. /\ Legal(aim, Follows(Follows(k, c), r), n, e, {}) /\ Numbers(n, e) = n
            /\ Settled(Follows(Follows(Follows(k, c), r), e), t)
        BY <1>3, <3>3
      <3>5. Leads3(aim, k, n, <<c, r, e>>)
        BY <1>2, <3>2, <3>3, <3>4, LeadsByThree
      <3>6. QED  BY <3>1, <3>5 DEF s, gone, c, r, cancel, removal, t, aim
    <2>8. CASE ~(k.phase = "down" /\ s.view \in views)
      <3>1. removal \o <<e>> = <<r, e>>
        BY <2>6, <2>8, Joined
      <3>2. /\ Legal(aim, k, n, r, Before(e)) /\ Numbers(n, r) = n
            /\ Follows(k, r).phase = "absent"
        <4>1. k.phase = "down" => k.home \notin aim.views
          BY <1>2, <2>2, <2>8
        <4>2. r.device = aim.device /\ r.view \in aim.views
          BY <1>2, <2>5
        <4>3. QED  BY <2>2, <2>5, <4>1, <4>2, KnownAfterRemove
      <3>3. /\ Legal(aim, Follows(k, r), n, e, {}) /\ Numbers(n, e) = n
            /\ Settled(Follows(Follows(k, r), e), t)
        BY <1>3, <3>2
      <3>4. Leads3(aim, k, n, <<r, e>>)
        BY <1>2, <3>2, <3>3, LeadsByTwo
      <3>5. QED  BY <3>1, <3>4 DEF s, gone, c, r, cancel, removal, t, aim
    <2>9. QED  BY <2>7, <2>8
  <1>6. QED  BY <1>4, <1>5

-----------------------------------------------------------------------------
(* What the framework knows leads to the converter's states, always. *)

LEMMA KeepConveyed ==
  ASSUME IInv, Conveyed, converted = <<>>, UNCHANGED <<views, framework>>,
         NEW e \in Raw, NEW s, NEW events, Keep(e, s, events),
         Leads3(Aim(e.device, views, s, pointer'), told[e.device], newest, events)
  PROVE  Conveyed'
  <1>1. /\ e.device \in Devices /\ converted' = events /\ states'[e.device] = s
        /\ \A d \in Devices \ {e.device} : states'[d] = states[d]
    BY DEF Raw, Events, Keep, IInv, ConverterOK
  <1>2. UNCHANGED <<views, told, newest>>
    BY DEF framework
  <1>3. \A d \in Devices : Settled(told[d], states[d])
    BY DEF Conveyed
  <1>4. Leads3(Aim(e.device, views', states'[e.device], pointer'), told'[e.device], newest', converted')
    BY <1>1, <1>2
  <1>5. CASE events = <<>>
    <2>1. Settled(told[e.device], s) /\ newest = pointer'
      BY <1>5, AimFields DEF Leads3, Leads0
    <2>2. \A d \in Devices : Settled(told'[d], states'[d])
      BY <1>1, <1>2, <1>3, <2>1
    <2>3. QED  BY <1>1, <1>2, <1>5, <2>1, <2>2 DEF Conveyed
  <1>6. CASE events # <<>>
    <2>1. Head(events).device = e.device
      BY <1>6, AimFields DEF Leads3, Legal
    <2>2. \A d \in Devices \ {e.device} : Settled(told'[d], states'[d])
      BY <1>1, <1>2, <1>3
    <2>3. QED  BY <1>1, <1>4, <1>6, <2>1, <2>2 DEF Conveyed
  <1>7. QED  BY <1>5, <1>6

(* An event sent finds its device ready. *)
LEMMA SendsReady ==
  ASSUME IInv, Conveyed, NEW e \in Raw, NEW from \in SUBSET {"new", "up", "down", "panning"},
         NEW to, Sends(e.device, e.view, from, to)
  PROVE  /\ Ready(e, told[e.device]) /\ newest = pointer /\ converted = <<>>
         /\ UNCHANGED <<views, framework>>
         /\ sent[e.device] \in from
         /\ sent[e.device] # "new" => states[e.device] # None
  <1>1. /\ e.device \in Devices /\ converted = <<>> /\ e.view \in views
        /\ sent[e.device] \in from /\ UNCHANGED <<views, framework>>
    BY DEF Sends, Raw, Events
  <1>2. newest = pointer /\ Settled(told[e.device], states[e.device])
    BY <1>1 DEF Conveyed
  <1>3. told[e.device].phase \in {"absent", "up", "down", "panning"}
    BY <1>1 DEF IInv, FrameworkOK, Known
  <1>4. /\ StateOf(e).view = e.view
        /\ sent[e.device] # "new" => states[e.device] # None
    BY SendsState
  <1>5. states[e.device] # None => states[e.device].view = e.view
    BY <1>4 DEF StateOf
  <1>6. QED  BY <1>1, <1>2, <1>3, <1>4, <1>5 DEF Ready, IInv

LEMMA AddConveyed ==
  ASSUME IInv, Conveyed, NEW d \in Devices, NEW v \in Views, NEW l \in Places, Add(d, v, l)
  PROVE  Conveyed'
  <1> DEFINE e == Event("add", d, v, l)
             s == states[e.device]
             gone == [e EXCEPT !.view = RemoveIn(e, s), !.at = s.at]
             cancel == IF s.down /\ s.view \in views
                       THEN <<Identify(As(gone, "cancel"), s)>> ELSE <<>>
             removal == IF s = None THEN <<>> ELSE cancel \o <<As(gone, "remove")>>
  <1>1. e \in Raw /\ e.change = "add" /\ e.device = d /\ e.view = v
    BY EventIsRaw DEF Changes
  <1>2. /\ converted = <<>> /\ e.view \in views /\ UNCHANGED <<views, framework>>
        /\ Keep(e, Fresh(e), removal \o <<e>>) /\ pointer' = pointer
    BY <1>1 DEF Add, ConvertAdd
  <1>3. Settled(told[e.device], states[e.device]) /\ newest = pointer /\ ConverterOK
    BY <1>1, <1>2 DEF Conveyed, IInv
  <1> HIDE DEF e
  <1>4. Leads3(Aim(e.device, views, Fresh(e), newest), told[e.device], newest, removal \o <<e>>)
    BY <1>1, <1>2, <1>3, AddLeads
  <1> HIDE DEF removal
  <1>5. QED  BY <1>1, <1>2, <1>3, <1>4, KeepConveyed

LEMMA RemoveConveyed ==
  ASSUME IInv, Conveyed, NEW d \in Devices, NEW v \in Views, NEW l \in Places, Remove(d, v, l)
  PROVE  Conveyed'
  <1> DEFINE e == Event("remove", d, v, l)
             s == states[e.device]
             cancel == IF s.down THEN <<Identify(As(e, "cancel"), s)>> ELSE <<>>
             events == cancel \o Sync(e, s, "hover") \o <<e>>
  <1>1. e \in Raw /\ e.change = "remove" /\ e.device = d /\ e.view = v
    BY EventIsRaw DEF Changes
  <1> HIDE DEF e
  <1>2. ConvertRemove(e) /\ Sends(e.device, e.view, {"up", "down", "panning"}, "new")
    BY <1>1 DEF Remove, e
  <1> DEFINE from == {"up", "down", "panning"}
  <1>3. from \in SUBSET {"new", "up", "down", "panning"} /\ Sends(e.device, e.view, from, "new")
    BY <1>2
  <1>4. "new" \notin from
    OBVIOUS
  <1> HIDE DEF from
  <1>5. /\ Ready(e, told[e.device]) /\ newest = pointer /\ converted = <<>>
        /\ UNCHANGED <<views, framework>> /\ states[e.device] # None
    BY <1>1, <1>3, <1>4, SendsReady
  <1>6. s.view = e.view
    BY <1>5 DEF Ready
  <1>7. Keep(e, None, events) /\ pointer' = pointer
    BY <1>2, <1>6 DEF ConvertRemove
  <1>8. Leads3(Aim(e.device, views, None, newest), told[e.device], newest, events)
    BY <1>1, <1>5, RemoveLeads
  <1> HIDE DEF events
  <1>9. QED  BY <1>1, <1>5, <1>7, <1>8, KeepConveyed

LEMMA HoverConveyed ==
  ASSUME IInv, Conveyed, NEW d \in Devices, NEW v \in Views, NEW l \in Places, Hover(d, v, l)
  PROVE  Conveyed'
  <1> DEFINE e == Event("hover", d, v, l)
             t == At(StateOf(e), e)
             events == Adding(e) \o Sync(e, StateOf(e), "hover")
  <1>1. e \in Raw /\ e.change = "hover" /\ e.device = d /\ e.view = v
    BY EventIsRaw DEF Changes
  <1>2. /\ Keep(e, t, events) /\ pointer' = pointer
        /\ Sends(e.device, e.view, {"new", "up"}, "up")
    BY <1>1 DEF Hover, ConvertHover
  <1> HIDE DEF e
  <1>3. /\ Ready(e, told[e.device]) /\ newest = pointer /\ converted = <<>>
        /\ UNCHANGED <<views, framework>>
    BY <1>1, <1>2, SendsReady
  <1>4. Leads3(Aim(e.device, views, t, newest), told[e.device], newest, events)
    BY <1>1, <1>3, HoverLeads
  <1> HIDE DEF events, t
  <1>5. QED  BY <1>1, <1>2, <1>3, <1>4, KeepConveyed

(* A contact or a gesture that begins, in the event e and the state s. *)
LEMMA StartConveyed ==
  ASSUME IInv, Conveyed, NEW e \in Raw, e.change \in Starts, pointer < MaxPointers,
         NEW to, Sends(e.device, e.view, {"new", "up"}, to),
         NEW s, Begin(e, s), s.view = StateOf(e).view, s \in States,
         s.down = (e.change = "down"), s.panning = (e.change = "panStart")
  PROVE  Conveyed'
  <1> DEFINE t == [At(s, e) EXCEPT !.pointer = pointer + 1]
             events == Adding(e) \o Sync(e, StateOf(e), "hover")
                         \o <<[e EXCEPT !.pointer = pointer + 1]>>
  <1>1. Keep(e, t, events) /\ pointer' = pointer + 1
    BY DEF Begin, Number
  <1>2. /\ Ready(e, told[e.device]) /\ newest = pointer /\ converted = <<>>
        /\ UNCHANGED <<views, framework>>
    BY SendsReady
  <1>3. /\ StateOf(e).view = e.view
        /\ sent[e.device] \in {"new", "up"}
        /\ StateOf(e).down = (sent[e.device] = "down")
        /\ StateOf(e).panning = (sent[e.device] = "panning")
    BY SendsState
  <1>4. pointer \in Nat
    BY PointersAssumption DEF IInv, ConverterOK
  <1>5. StateOf(e).down = FALSE /\ StateOf(e).panning = FALSE /\ s.view = e.view
    BY <1>3
  <1>6. Leads3(Aim(e.device, views, t, pointer + 1), told[e.device], pointer, events)
    BY <1>2, <1>4, <1>5, BeginLeads
  <1> HIDE DEF events, t
  <1>7. QED  BY <1>1, <1>2, <1>6, KeepConveyed

LEMMA DownConveyed ==
  ASSUME IInv, Conveyed, NEW d \in Devices, NEW v \in Views, NEW l \in Places, Down(d, v, l)
  PROVE  Conveyed'
  <1> DEFINE e == Event("down", d, v, l)
             s == [StateOf(e) EXCEPT !.down = TRUE]
  <1>1. e \in Raw /\ e.change = "down" /\ e.device = d /\ e.view = v
    BY EventIsRaw DEF Changes
  <1>2. /\ Begin(e, s) /\ pointer < MaxPointers
        /\ Sends(e.device, e.view, {"new", "up"}, "down")
    BY <1>1 DEF Down, ConvertDown
  <1> HIDE DEF e
  <1>3. /\ StateOf(e) \in States /\ sent[e.device] \in {"new", "up"}
        /\ StateOf(e).panning = (sent[e.device] = "panning")
    BY <1>1, <1>2, SendsState
  <1>4. s \in States /\ s.down = TRUE /\ s.panning = FALSE /\ s.view = StateOf(e).view
    BY <1>3 DEF States
  <1> HIDE DEF s
  <1>5. QED  BY <1>1, <1>2, <1>4, StartConveyed DEF Starts

LEMMA PanStartConveyed ==
  ASSUME IInv, Conveyed, NEW d \in Devices, NEW v \in Views, NEW l \in Places, PanStart(d, v, l)
  PROVE  Conveyed'
  <1> DEFINE e == Event("panStart", d, v, l)
             s == [StateOf(e) EXCEPT !.panning = TRUE]
  <1>1. e \in Raw /\ e.change = "panStart" /\ e.device = d /\ e.view = v
    BY EventIsRaw DEF Changes
  <1>2. /\ Begin(e, s) /\ pointer < MaxPointers
        /\ Sends(e.device, e.view, {"new", "up"}, "panning")
    BY <1>1 DEF PanStart, ConvertPanStart
  <1> HIDE DEF e
  <1>3. /\ StateOf(e) \in States /\ sent[e.device] \in {"new", "up"}
        /\ StateOf(e).down = (sent[e.device] = "down")
    BY <1>1, <1>2, SendsState
  <1>4. s \in States /\ s.panning = TRUE /\ s.down = FALSE /\ s.view = StateOf(e).view
    BY <1>3 DEF States
  <1> HIDE DEF s
  <1>5. QED  BY <1>1, <1>2, <1>4, StartConveyed DEF Starts

(* A move, or an update of a gesture. *)
LEMMA MotionConveyed ==
  ASSUME IInv, Conveyed, NEW e \in Raw, NEW p, ConvertMove(e),
         Sends(e.device, e.view, {p}, p),
         (e.change = "move" /\ p = "down") \/ (e.change = "panUpdate" /\ p = "panning")
  PROVE  Conveyed'
  <1> DEFINE s == states[e.device]
             t == At(s, e)
             events == <<Identify(e, s)>>
  <1>1. Keep(e, t, events) /\ pointer' = pointer
    BY DEF ConvertMove
  <1>2. {p} \in SUBSET {"new", "up", "down", "panning"}
    OBVIOUS
  <1>3. /\ Ready(e, told[e.device]) /\ newest = pointer /\ converted = <<>>
        /\ UNCHANGED <<views, framework>> /\ sent[e.device] = p /\ states[e.device] # None
    BY <1>2, SendsReady
  <1>4. /\ StateOf(e).down = (sent[e.device] = "down")
        /\ StateOf(e).panning = (sent[e.device] = "panning")
        /\ StateOf(e) = states[e.device]
    BY <1>2, <1>3, SendsState
  <1>5. \/ e.change = "move" /\ states[e.device].down
        \/ e.change = "panUpdate" /\ states[e.device].panning
    BY <1>3, <1>4
  <1>6. Leads3(Aim(e.device, views, t, newest), told[e.device], newest, events)
    BY <1>3, <1>5, MoveLeads
  <1> HIDE DEF events, t
  <1>7. QED  BY <1>1, <1>3, <1>6, KeepConveyed

LEMMA MoveConveyed ==
  ASSUME IInv, Conveyed, NEW d \in Devices, NEW v \in Views, NEW l \in Places,
         Move(d, v, l) \/ PanUpdate(d, v, l)
  PROVE  Conveyed'
  <1>1. CASE Move(d, v, l)
    <2> DEFINE e == Event("move", d, v, l)
    <2>1. e \in Raw /\ e.change = "move" /\ e.device = d /\ e.view = v
      BY EventIsRaw DEF Changes
    <2>2. ConvertMove(e) /\ Sends(d, v, {"down"}, "down")
      BY <1>1 DEF Move
    <2> HIDE DEF e
    <2>3. QED  BY <2>1, <2>2, MotionConveyed
  <1>2. CASE PanUpdate(d, v, l)
    <2> DEFINE e == Event("panUpdate", d, v, l)
    <2>1. e \in Raw /\ e.change = "panUpdate" /\ e.device = d /\ e.view = v
      BY EventIsRaw DEF Changes
    <2>2. ConvertMove(e) /\ Sends(d, v, {"panning"}, "panning")
      BY <1>2 DEF PanUpdate
    <2> HIDE DEF e
    <2>3. QED  BY <2>1, <2>2, MotionConveyed
  <1>3. QED  BY <1>1, <1>2

(* The end of a contact or a gesture, which leaves the state r. *)
LEMMA EndConveyed ==
  ASSUME IInv, Conveyed, NEW e \in Raw, NEW p, Sends(e.device, e.view, {p}, "up"),
         NEW r \in States, r.view = states[e.device].view, r.down = FALSE, r.panning = FALSE,
         NEW c, Finish(e, r, c),
         \/ e.change \in {"up", "cancel"} /\ c = "move" /\ p = "down"
         \/ e.change = "panEnd" /\ c = "panUpdate" /\ p = "panning"
  PROVE  Conveyed'
  <1> DEFINE s == states[e.device]
             t == At(r, e)
             events == Sync(Identify(e, s), s, c) \o <<Identify(e, s)>>
  <1>1. Keep(e, t, events) /\ pointer' = pointer
    BY DEF Finish
  <1>2. {p} \in SUBSET {"new", "up", "down", "panning"}
    OBVIOUS
  <1>3. /\ Ready(e, told[e.device]) /\ newest = pointer /\ converted = <<>>
        /\ UNCHANGED <<views, framework>> /\ sent[e.device] = p /\ states[e.device] # None
    BY <1>2, SendsReady
  <1>4. /\ StateOf(e).down = (sent[e.device] = "down")
        /\ StateOf(e).panning = (sent[e.device] = "panning")
        /\ StateOf(e) = states[e.device] /\ StateOf(e).view = e.view
    BY <1>2, <1>3, SendsState
  <1>5. \/ e.change \in {"up", "cancel"} /\ c = "move" /\ states[e.device].down
        \/ e.change = "panEnd" /\ c = "panUpdate" /\ states[e.device].panning
    BY <1>3, <1>4
  <1>6. r.view = e.view
    BY <1>4
  <1>7. Leads3(Aim(e.device, views, t, newest), told[e.device], newest, events)
    BY <1>3, <1>5, <1>6, FinishLeads
  <1> HIDE DEF events, t
  <1>8. QED  BY <1>1, <1>3, <1>7, KeepConveyed

(* The state of a device whose contact or gesture is to end. *)
LEMMA EndingState ==
  ASSUME IInv, NEW e \in Raw, NEW p \in {"down", "panning"}, Sends(e.device, e.view, {p}, "up")
  PROVE  /\ states[e.device] \in States
         /\ states[e.device].down = (p = "down") /\ states[e.device].panning = (p = "panning")
  <1>1. {p} \in SUBSET {"new", "up", "down", "panning"}
    OBVIOUS
  <1>2. /\ sent[e.device] \in {p} /\ StateOf(e) \in States
        /\ StateOf(e).down = (sent[e.device] = "down")
        /\ StateOf(e).panning = (sent[e.device] = "panning")
        /\ sent[e.device] # "new" => StateOf(e) = states[e.device]
    BY <1>1, SendsState
  <1>3. QED  BY <1>2

LEMMA LiftConveyed ==
  ASSUME IInv, Conveyed, NEW e \in Raw, e.change \in {"up", "cancel"},
         Sends(e.device, e.view, {"down"}, "up"), Finish(e, Lifted(states[e.device]), "move")
  PROVE  Conveyed'
  <1> DEFINE r == Lifted(states[e.device])
  <1>1. r \in States /\ r.view = states[e.device].view /\ r.down = FALSE /\ r.panning = FALSE
    BY EndingState, LiftedType
  <1>2. Finish(e, r, "move")
    OBVIOUS
  <1> HIDE DEF r
  <1>3. QED  BY <1>1, <1>2, EndConveyed

LEMMA UpConveyed ==
  ASSUME IInv, Conveyed, NEW d \in Devices, NEW v \in Views, NEW l \in Places, Up(d, v, l)
  PROVE  Conveyed'
  <1> DEFINE e == Event("up", d, v, l)
  <1>1. e \in Raw /\ e.change = "up" /\ e.device = d /\ e.view = v
    BY EventIsRaw DEF Changes
  <1>2. Finish(e, Lifted(states[e.device]), "move") /\ Sends(d, v, {"down"}, "up")
    BY DEF Up, ConvertUp
  <1> HIDE DEF e
  <1>3. QED  BY <1>1, <1>2, LiftConveyed

LEMMA PanEndConveyed ==
  ASSUME IInv, Conveyed, NEW d \in Devices, NEW v \in Views, NEW l \in Places, PanEnd(d, v, l)
  PROVE  Conveyed'
  <1> DEFINE e == Event("panEnd", d, v, l)
             r == [states[e.device] EXCEPT !.panning = FALSE]
  <1>1. e \in Raw /\ e.change = "panEnd" /\ e.device = d /\ e.view = v
    BY EventIsRaw DEF Changes
  <1>2. Finish(e, r, "panUpdate") /\ Sends(e.device, e.view, {"panning"}, "up")
    BY <1>1 DEF PanEnd, ConvertPanEnd
  <1> HIDE DEF e
  <1>3. states[e.device] \in States /\ states[e.device].down = FALSE
    BY <1>1, <1>2, EndingState
  <1>4. r \in States /\ r.view = states[e.device].view /\ r.down = FALSE /\ r.panning = FALSE
    BY <1>3 DEF States
  <1> HIDE DEF r
  <1>5. QED  BY <1>1, <1>2, <1>4, EndConveyed

LEMMA CancelConveyed ==
  ASSUME IInv, Conveyed, NEW d \in Devices, NEW v \in Views, NEW l \in Places, Cancel(d, v, l)
  PROVE  Conveyed'
  <1> DEFINE e == Event("cancel", d, v, l)
  <1>1. e \in Raw /\ e.change = "cancel" /\ e.device = d /\ e.view = v
    BY EventIsRaw DEF Changes
  <1>2. \/ Sends(e.device, e.view, {"down"}, "up") /\ ConvertCancel(e)
        \/ Sends(e.device, e.view, {"new"}, "new") /\ ConvertCancel(e)
    BY <1>1 DEF Cancel
  <1> HIDE DEF e
  <1>3. CASE Sends(e.device, e.view, {"down"}, "up") /\ ConvertCancel(e)
    <2>1. sent[e.device] \in {"down"} /\ (sent[e.device] # "new" => states[e.device] # None)
      BY <1>1, <1>3, SendsReady
    <2>2. Finish(e, Lifted(states[e.device]), "move")
      BY <1>3, <2>1 DEF ConvertCancel
    <2>3. QED  BY <1>1, <1>3, <2>2, LiftConveyed
  <1>4. CASE Sends(e.device, e.view, {"new"}, "new") /\ ConvertCancel(e)
    <2>1. states[e.device] = None
      BY <1>1, <1>4 DEF Sends, IInv, ChecksHold, Agrees
    <2>2. UNCHANGED <<views, states, pointer, converted, told, newest>>
      BY <1>4, <2>1 DEF ConvertCancel, Sends, converter, framework
    <2>3. QED  BY <2>2 DEF Conveyed
  <1>5. QED  BY <1>2, <1>3, <1>4

LEMMA SignalConveyed ==
  ASSUME IInv, Conveyed, NEW d \in Devices, NEW v \in Views, NEW l \in Places, Signal(d, v, l)
  PROVE  Conveyed'
  <1> DEFINE e == Event("signal", d, v, l)
             t == At(StateOf(e), e)
             events == Adding(e) \o Sync(e, StateOf(e), IF StateOf(e).down THEN "move" ELSE "hover")
                         \o <<e>>
  <1>1. e \in Raw /\ e.change = "signal" /\ e.device = d /\ e.view = v
    BY EventIsRaw DEF Changes
  <1>2. /\ Keep(e, t, events) /\ pointer' = pointer
        /\ \/ Sends(e.device, e.view, {"new"}, "up")
           \/ Sends(e.device, e.view, {"up", "down", "panning"}, sent[e.device])
    BY <1>1 DEF Signal, ConvertSignal
  <1> HIDE DEF e
  <1>3. /\ Ready(e, told[e.device]) /\ newest = pointer /\ converted = <<>>
        /\ UNCHANGED <<views, framework>>
    BY <1>1, <1>2, SendsReady
  <1>4. Leads3(Aim(e.device, views, t, newest), told[e.device], newest, events)
    BY <1>1, <1>3, SignalLeads
  <1> HIDE DEF events, t
  <1>5. QED  BY <1>1, <1>2, <1>3, <1>4, KeepConveyed

LEMMA ViewsConveyed ==
  ASSUME Conveyed, NEW v \in Views, AddView(v) \/ RemoveView(v)
  PROVE  Conveyed'
  <1>1. converted = <<>> /\ UNCHANGED <<states, pointer, converted, told, newest>>
    BY DEF AddView, RemoveView, converter, framework
  <1>2. QED  BY <1>1 DEF Conveyed

-----------------------------------------------------------------------------
(* The event to be delivered next is legal. *)
LEMMA HeadLegal ==
  ASSUME IInv, Conveyed, converted # <<>>, NEW e, e = Head(converted)
  PROVE  /\ e \in Issued(pointer) /\ e \in Events /\ e.device \in Devices
         /\ Legal(Aim(e.device, views, states[e.device], pointer), told[e.device], newest, e,
                  Loose(converted))
         /\ Leads2(Aim(e.device, views, states[e.device], pointer), Follows(told[e.device], e),
                   Numbers(newest, e), Tail(converted))
  <1> DEFINE aim == Aim(e.device, views, states[e.device], pointer)
  <1>1. e \in Issued(pointer)
    BY SeqClosed DEF IInv
  <1>2. e \in Events /\ e.device \in Devices
    BY <1>1 DEF Issued, Events
  <1>3. Leads3(aim, told[e.device], newest, converted)
    BY <1>2 DEF Conveyed
  <1> HIDE DEF aim
  <1>4. /\ Legal(aim, told[e.device], newest, e, Loose(converted))
        /\ Leads2(aim, Follows(told[e.device], e), Numbers(newest, e), Tail(converted))
    BY <1>3 DEF Leads3
  <1>5. QED  BY <1>1, <1>2, <1>4 DEF aim

(* It is handled, and the framework goes on knowing what the rest asks for. *)
LEMMA Delivered ==
  ASSUME IInv, Conveyed, Deliver, NEW e, e = Head(converted)
  PROVE  /\ e \in Events /\ e.device \in Devices /\ converted # <<>>
         /\ UNCHANGED <<views, states, pointer>> /\ converted' = Tail(converted) /\ Handle(e)
         /\ Legal(Aim(e.device, views, states[e.device], pointer), told[e.device], newest, e,
                  Loose(converted))
         /\ Leads2(Aim(e.device, views, states[e.device], pointer), Follows(told[e.device], e),
                   Numbers(newest, e), Tail(converted))
         /\ told' = [told EXCEPT ![e.device] = Follows(told[e.device], e)]
         /\ newest' = Numbers(newest, e)
  <1> DEFINE aim == Aim(e.device, views, states[e.device], pointer)
  <1>1. converted # <<>> /\ converted' = Tail(converted) /\ UNCHANGED <<views, states, pointer>>
    BY DEF Deliver, converter
  <1>2. /\ e \in Events /\ e.device \in Devices
        /\ Legal(aim, told[e.device], newest, e, Loose(converted))
        /\ Leads2(aim, Follows(told[e.device], e), Numbers(newest, e), Tail(converted))
    BY <1>1, HeadLegal
  <1>3. aim.views = views
    BY AimFields
  <1> HIDE DEF aim
  <1>4. e.view \in views
    BY <1>2, <1>3 DEF Legal
  <1>5. Handle(e)
    BY <1>4 DEF Deliver
  <1>6. told' = [told EXCEPT ![e.device] = Follows(told[e.device], e)] /\ newest' = Numbers(newest, e)
    BY <1>2, <1>5 DEF Handle, Follows, Numbers, IInv, FrameworkOK
  <1>7. QED  BY <1>1, <1>2, <1>5, <1>6 DEF aim

LEMMA DeliverConveyed ==
  ASSUME IInv, Conveyed, Deliver
  PROVE  Conveyed'
  <1> DEFINE e == Head(converted)
             rest == Tail(converted)
             aim == Aim(e.device, views, states[e.device], pointer)
  <1>1. /\ e \in Events /\ e.device \in Devices /\ converted # <<>>
        /\ UNCHANGED <<views, states, pointer>> /\ converted' = rest
        /\ Leads2(aim, Follows(told[e.device], e), Numbers(newest, e), rest)
        /\ told' = [told EXCEPT ![e.device] = Follows(told[e.device], e)]
        /\ newest' = Numbers(newest, e)
    BY Delivered
  <1>2. told'[e.device] = Follows(told[e.device], e)
    BY <1>1 DEF IInv, FrameworkOK
  <1>3. \A d \in Devices \ {e.device} :
          told'[d] = told[d] /\ Settled(told[d], states[d])
    BY <1>1 DEF IInv, FrameworkOK, Conveyed
  <1>4. aim.device = e.device /\ aim.state = states[e.device] /\ aim.count = pointer
    BY AimFields
  <1>5. Leads2(aim, told'[e.device], newest', rest)
    BY <1>1, <1>2
  <1>6. /\ e.device \in Devices
        /\ UNCHANGED <<views, states, pointer>> /\ converted' = rest
    BY <1>1
  <1> HIDE DEF rest, aim
  <1>7. CASE rest = <<>>
    <2>1. Settled(told'[e.device], states[e.device]) /\ newest' = pointer
      BY <1>4, <1>5, <1>7 DEF Leads2, Leads0
    <2>2. QED  BY <1>3, <1>6, <1>7, <2>1 DEF Conveyed
  <1>8. CASE rest # <<>>
    <2>1. Head(rest).device = e.device
      BY <1>4, <1>5, <1>8 DEF Leads2, Legal
    <2>2. Leads3(aim, told'[e.device], newest', rest)
      BY <1>5, LeadsGrow
    <2> HIDE DEF e
    <2>3. ASSUME NEW d \in Devices
          PROVE  IF rest # <<>> /\ Head(rest).device = d
                 THEN Leads3(Aim(d, views, states[d], pointer), told'[d], newest', rest)
                 ELSE Settled(told'[d], states[d])
      <3>1. CASE d = e.device
        BY <1>8, <2>1, <2>2, <3>1 DEF aim
      <3>2. CASE d # e.device
        BY <1>3, <2>1, <3>2
      <3>3. QED  BY <3>1, <3>2
    <2>4. QED  BY <1>6, <1>8, <2>3 DEF Conveyed
  <1>9. QED  BY <1>7, <1>8

LEMMA NextConveyed == IInv /\ Conveyed /\ [Next]_vars => Conveyed'
  <1> SUFFICES ASSUME IInv, Conveyed, [Next]_vars PROVE Conveyed'
    OBVIOUS
  <1>1. CASE Deliver
    BY <1>1, DeliverConveyed
  <1>2. ASSUME NEW v \in Views, AddView(v) \/ RemoveView(v)
        PROVE  Conveyed'
    BY <1>2, ViewsConveyed
  <1>3. ASSUME NEW d \in Devices, NEW v \in Views, NEW l \in Places,
               \/ Add(d, v, l) \/ Remove(d, v, l) \/ Hover(d, v, l)
               \/ Down(d, v, l) \/ Move(d, v, l) \/ Up(d, v, l) \/ Cancel(d, v, l)
               \/ PanStart(d, v, l) \/ PanUpdate(d, v, l) \/ PanEnd(d, v, l)
               \/ Signal(d, v, l)
        PROVE  Conveyed'
    BY <1>3, AddConveyed, RemoveConveyed, HoverConveyed, DownConveyed, MoveConveyed,
       UpConveyed, CancelConveyed, PanStartConveyed, PanEndConveyed, SignalConveyed
  <1>4. CASE UNCHANGED vars
    BY <1>4 DEF vars, converter, framework, Conveyed
  <1>5. ASSUME NEW p, CancelActivePointers(p) PROVE Conveyed'
    BY <1>5 DEF CancelActivePointers, converter, Conveyed
  <1>6. ASSUME NEW d \in Devices, NEW v \in Views, NEW l \in Places, LateRemove(d, v, l)
        PROVE  Conveyed'
    BY <1>4, <1>6, LateRemoveStep
  <1>7. QED  BY <1>1, <1>2, <1>3, <1>4, <1>5, <1>6 DEF Next

(* A step of an embedder or of the views tells the framework nothing. *)
LEMMA Untold ==
  ASSUME NEW d \in Devices, NEW v \in Views, NEW l \in Places,
         \/ Add(d, v, l) \/ Remove(d, v, l) \/ Hover(d, v, l)
         \/ Down(d, v, l) \/ Move(d, v, l) \/ Up(d, v, l) \/ Cancel(d, v, l)
         \/ PanStart(d, v, l) \/ PanUpdate(d, v, l) \/ PanEnd(d, v, l)
         \/ Signal(d, v, l)
  PROVE  UNCHANGED <<views, told, newest, hitTests, active, cancelled>>
  BY DEF Add, Remove, Hover, Down, Move, Up, Cancel, PanStart, PanUpdate, PanEnd, Signal,
         Sends, framework

-----------------------------------------------------------------------------
(* Only the move before a signal is let off its identifier. *)
LEMMA LooseIs ==
  ASSUME NEW q, NEW c \in Loose(q)
  PROVE  c = "move" /\ Len(q) = 2 /\ q[2].change = "signal"
  BY DEF Loose, Before

LEMMA DeliverTargets ==
  ASSUME IInv, Conveyed, Targets, Deliver
  PROVE  Targets'
  <1> DEFINE e == Head(converted)
             k == told[e.device]
             f == Follows(k, e)
  <1>1. /\ e \in Events /\ e.device \in Devices /\ Handle(e)
        /\ Legal(Aim(e.device, views, states[e.device], pointer), k, newest, e, Loose(converted))
        /\ told' = [told EXCEPT ![e.device] = f] /\ newest' = Numbers(newest, e)
    BY Delivered
  <1>2. /\ told'[e.device] = f
        /\ \A d \in Devices \ {e.device} : told'[d] = told[d]
    BY <1>1 DEF IInv, FrameworkOK
  <1>3. /\ f.phase = Phase(e.change, k.phase)
        /\ f.pointer = IF e.change \in Starts THEN e.pointer ELSE k.pointer
    BY FollowsFields
  <1>4. newest \in Nat /\ \A d \in Devices : told[d].pointer \in Nat
    BY PointersAssumption DEF IInv, ConverterOK, FrameworkOK, Known
  <1> HIDE DEF e, k, f
  <1>5. CASE e.change \in Starts
    <2>1. e.pointer = newest + 1
      BY <1>1, <1>5 DEF Legal
    <2>2. newest' = newest + 1 /\ hitTests' = hitTests \union {newest + 1} /\ f.pointer = newest + 1
      BY <1>1, <1>3, <1>5, <2>1 DEF Numbers, Handle, Starts, Ends
    <2>3. /\ active' = IF e.change = "down" THEN active \union {newest + 1} ELSE active
          /\ cancelled' = cancelled /\ f.phase = IF e.change = "down" THEN "down" ELSE "panning"
      BY <1>1, <1>3, <1>5, <2>1 DEF Handle, Starts, Ends, Phase
    <2>4. hitTests' \subseteq 1..newest' /\ active' \subseteq 1..newest'
      <3>1. 1..newest \union {newest + 1} \subseteq 1..newest'
        BY <1>4, <2>2
      <3>2. hitTests' \subseteq 1..newest \union {newest + 1}
        BY <2>2 DEF Targets
      <3>3. active' \subseteq 1..newest \union {newest + 1}
        BY <2>3 DEF Targets
      <3>4. QED  BY <3>1, <3>2, <3>3
    <2>5. \A d \in Devices \ {e.device} :
            told'[d].pointer <= newest /\ told[d].pointer # newest + 1 /\ Targeted(told[d])
      BY <1>2, <1>4 DEF Targets
    <2>6. newest + 1 \notin active
      BY <1>4 DEF Targets
    <2>8. ASSUME NEW d \in Devices PROVE Targeted(told[d])'
      <3>1. CASE d = e.device
        BY <1>2, <2>2, <2>3, <2>6, <3>1 DEF Targeted
      <3>2. CASE d # e.device
        BY <1>2, <2>2, <2>3, <2>5, <3>2 DEF Targeted
      <3>3. QED  BY <3>1, <3>2
    <2>9. QED  BY <1>1, <1>2, <1>4, <2>2, <2>4, <2>5, <2>8 DEF Targets
  <1>6. CASE e.change \in Ends
    <2>1. e.pointer = k.pointer /\ Active(k)
      <3>1. e.change # "move"
        BY <1>6 DEF Ends
      <3>2. e.change \notin Loose(converted)
        BY <3>1, LooseIs
      <3>3. QED  BY <1>1, <1>6, <3>2 DEF Legal, Ends, Active
    <2>2. /\ newest' = newest /\ hitTests' = hitTests \ {k.pointer}
          /\ active' = active \ {k.pointer} /\ cancelled' = cancelled \ {k.pointer}
          /\ ~ Active(f) /\ f.pointer = k.pointer
      BY <1>1, <1>3, <1>6, <2>1 DEF Numbers, Handle, Starts, Ends, Phase, Active
    <2>3. \A d \in Devices \ {e.device} : Active(told[d]) => told[d].pointer # k.pointer
      BY <1>1, <2>1 DEF Targets, k
    <2>4. k.pointer <= newest
      BY <1>1 DEF Targets, k
    <2>5. ASSUME NEW d \in Devices PROVE Targeted(told[d])'
      <3>1. CASE d = e.device
        BY <1>2, <2>2, <3>1 DEF Targeted, Active
      <3>2. CASE d # e.device
        BY <1>2, <2>2, <2>3, <3>2 DEF Targets, Targeted, Active
      <3>3. QED  BY <3>1, <3>2
    <2>6. QED  BY <1>2, <2>2, <2>3, <2>4, <2>5 DEF Targets
  <1>7. CASE e.change \notin Starts \union Ends
    <2>1. /\ newest' = newest /\ f.pointer = k.pointer
          /\ UNCHANGED <<hitTests, active, cancelled>>
      BY <1>1, <1>3, <1>7 DEF Numbers, Handle, Starts
    <2>2. Active(f) => f.phase = k.phase
      BY <1>3, <1>7 DEF Phase, Active, Starts, Ends
    <2>3. \A d \in Devices : /\ told'[d].pointer = told[d].pointer
                             /\ Active(told'[d]) => told'[d].phase = told[d].phase
      BY <1>2, <2>1, <2>2 DEF k
    <2>4. \A d \in Devices : Targeted(told[d])'
      BY <2>1, <2>3 DEF Targets, Targeted, Active
    <2>5. QED  BY <2>1, <2>3, <2>4 DEF Targets, Active
  <1>8. QED  BY <1>5, <1>6, <1>7

(* A Navigator only takes the targets of contacts. *)
LEMMA CancelTargets ==
  ASSUME Targets, NEW p, CancelActivePointers(p)
  PROVE  Targets'
  <1>1. /\ p \subseteq active /\ hitTests' = hitTests \ p /\ active' = active \ p
        /\ cancelled' = cancelled \union p /\ UNCHANGED <<told, newest>>
    BY DEF CancelActivePointers
  <1>2. \A d \in Devices : Targeted(told[d])'
    BY <1>1 DEF Targets, Targeted
  <1>3. QED  BY <1>1, <1>2 DEF Targets

(* What the framework knows, and what is still to be delivered, as an invariant. *)
Told == IInv /\ Conveyed /\ Targets

LEMMA InitTold == Init => Told
  <1> SUFFICES ASSUME Init PROVE Told
    OBVIOUS
  <1>1. PICK l \in Places, v \in Views :
          told = [d \in Devices |-> [phase |-> "absent", at |-> l, pointer |-> 0, home |-> v]]
    BY DEF Init
  <1>2. \A d \in Devices : told[d].phase = "absent" /\ told[d].pointer = 0
    BY <1>1
  <1>3. Conveyed
    BY <1>2 DEF Init, Conveyed, Settled
  <1>4. Targets
    BY <1>2 DEF Init, Targets, Targeted, Active
  <1>5. QED  BY <1>3, <1>4, InitIInv DEF Told

LEMMA NextTold == Told /\ [Next]_vars => Told'
  <1> SUFFICES ASSUME Told, [Next]_vars PROVE Told'
    OBVIOUS
  <1>1. IInv' /\ Conveyed'
    BY NextIInv, NextConveyed DEF Told
  <1>2. CASE Deliver
    BY <1>1, <1>2, DeliverTargets DEF Told
  <1>3. CASE UNCHANGED <<told, newest, hitTests, active, cancelled>>
    BY <1>1, <1>3 DEF Told, Targets, Targeted
  <1>4. ASSUME NEW p, CancelActivePointers(p) PROVE Told'
    BY <1>1, <1>4, CancelTargets DEF Told
  <1>5. ASSUME NEW v \in Views, AddView(v) \/ RemoveView(v)
        PROVE  UNCHANGED <<told, newest, hitTests, active, cancelled>>
    BY <1>5 DEF AddView, RemoveView, framework
  <1>6. UNCHANGED vars => UNCHANGED <<told, newest, hitTests, active, cancelled>>
    BY DEF vars, framework
  <1>7. ASSUME NEW d \in Devices, NEW v \in Views, NEW l \in Places, LateRemove(d, v, l)
        PROVE  UNCHANGED vars
    BY <1>7, LateRemoveStep DEF Told
  <1>8. QED  BY <1>2, <1>3, <1>4, <1>5, <1>6, <1>7, Untold DEF Next

LEMMA ToldAlways == Spec => []Told
  BY InitTold, NextTold, PTL DEF Spec

(* No event that makes a hit test of its own finds one kept under its      *)
(* identifier: contacts and gestures begin under identifiers newer than    *)
(* every one that is kept, and a hover or a signal carries none.           *)
THEOREM HitTestsNew == Spec => []HitTestIsNew
  <1>1. Told => HitTestIsNew
    <2> SUFFICES ASSUME Told, converted # <<>>,
                        Head(converted).change \in Starts \union {"hover", "signal"}
                 PROVE  Head(converted).pointer \notin hitTests
      BY DEF HitTestIsNew
    <2> DEFINE e == Head(converted)
    <2>1. Legal(Aim(e.device, views, states[e.device], pointer), told[e.device], newest, e,
                Loose(converted))
      BY HeadLegal DEF Told
    <2>2. e.pointer = newest + 1 \/ e.pointer = 0
      BY <2>1 DEF Legal
    <2>3. hitTests \subseteq 1..newest /\ newest \in Nat
      BY PointersAssumption DEF Told, Targets, IInv, ConverterOK, FrameworkOK
    <2>4. QED  BY <2>2, <2>3
  <1>2. QED  BY ToldAlways, <1>1, PTL

(* What follows the beginning of a contact or a gesture finds the target   *)
(* kept then, whatever the other devices did in between, but for the move  *)
(* before a signal and a contact that a Navigator has cancelled.           *)
THEOREM TargetsFound == Spec => []TargetIsFound
  <1>1. Told => TargetIsFound
    <2> SUFFICES ASSUME Told, converted # <<>>,
                        Head(converted).change \in Ends \union {"move", "panUpdate"}
                 PROVE  \/ Head(converted).pointer \in hitTests
                        \/ /\ Head(converted).change \notin {"panUpdate", "panEnd"}
                           /\ Head(converted).pointer \in cancelled
                        \/ Len(converted) = 2 /\ converted[2].change = "signal"
      BY DEF TargetIsFound
    <2> DEFINE e == Head(converted)
               k == told[e.device]
    <2>1. /\ e.device \in Devices
          /\ Legal(Aim(e.device, views, states[e.device], pointer), k, newest, e,
                   Loose(converted))
      BY HeadLegal DEF Told
    <2>2. e.pointer = k.pointer \/ e.change \in Loose(converted)
      BY <2>1 DEF Legal
    <2>3. k.phase = IF e.change \in {"panUpdate", "panEnd"} THEN "panning" ELSE "down"
      BY <2>1 DEF Legal, Ends
    <2>4. k.pointer \in hitTests \/ (e.change \notin {"panUpdate", "panEnd"} /\ k.pointer \in cancelled)
      BY <2>1, <2>3 DEF Told, Targets, Targeted
    <2>5. QED  BY <2>2, <2>4, LooseIs
  <1>2. QED  BY ToldAlways, <1>1, PTL

(* The move synthesized before a scroll signal is the only one that does   *)
(* not carry the identifier of the contact it is part of.                  *)
THEOREM MovesOfContact ==
  Spec => [](converted # <<>> /\ Head(converted).change = "move" =>
               \/ Head(converted).pointer = told[Head(converted).device].pointer
               \/ Len(converted) = 2 /\ converted[2].change = "signal")
  <1> DEFINE Of == converted # <<>> /\ Head(converted).change = "move" =>
                     \/ Head(converted).pointer = told[Head(converted).device].pointer
                     \/ Len(converted) = 2 /\ converted[2].change = "signal"
  <1>1. Told => Of
    <2> SUFFICES ASSUME Told, converted # <<>>, Head(converted).change = "move"
                 PROVE  \/ Head(converted).pointer = told[Head(converted).device].pointer
                        \/ Len(converted) = 2 /\ converted[2].change = "signal"
      OBVIOUS
    <2> DEFINE e == Head(converted)
    <2>1. Legal(Aim(e.device, views, states[e.device], pointer), told[e.device], newest, e,
                Loose(converted))
      BY HeadLegal DEF Told
    <2>2. e.pointer = told[e.device].pointer \/ e.change \in Loose(converted)
      BY <2>1 DEF Legal
    <2>3. QED  BY <2>2, LooseIs
  <1>2. QED  BY ToldAlways, <1>1, PTL

-----------------------------------------------------------------------------
(* Functions that differ at one point at most. *)
LEMMA OneChanges ==
  ASSUME NEW S, NEW i \in S, NEW g, NEW h, g = [x \in S |-> g[x]], h = [x \in S |-> h[x]],
         \A x \in S \ {i} : h[x] = g[x]
  PROVE  h = [g EXCEPT ![i] = h[i]] /\ (h[i] = g[i] => h = g)
  <1>1. [g EXCEPT ![i] = h[i]] = [x \in S |-> IF x = i THEN h[i] ELSE g[x]]
    OBVIOUS
  <1>2. \A x \in S : h[x] = IF x = i THEN h[i] ELSE g[x]
    OBVIOUS
  <1>3. h = [x \in S |-> IF x = i THEN h[i] ELSE g[x]]
    BY <1>2
  <1>4. ASSUME h[i] = g[i] PROVE h = g
    <2>1. \A x \in S : h[x] = g[x]
      BY <1>4
    <2>2. QED  BY <2>1
  <1>5. QED  BY <1>1, <1>3, <1>4

(* Every event that is delivered is an action of the promise. *)
LEMMA DeliverPromised ==
  ASSUME Told, Deliver
  PROVE  Promise!Next
  <1>0. PICK e, d : e = Head(converted) /\ d = e.device
    OBVIOUS
  <1> DEFINE k == told[d]
             f == Follows(k, e)
             phase == [x \in Devices |-> told[x].phase]
             at == [x \in Devices |-> told[x].at]
             identifier == [x \in Devices |-> told[x].pointer]
             home == [x \in Devices |-> told[x].home]
             phaseThen == [x \in Devices |-> told'[x].phase]
             atThen == [x \in Devices |-> told'[x].at]
             identifierThen == [x \in Devices |-> told'[x].pointer]
             homeThen == [x \in Devices |-> told'[x].home]
  <1>1. /\ e \in Events /\ d \in Devices /\ views' = views
        /\ Legal(Aim(d, views, states[d], pointer), k, newest, e, Loose(converted))
        /\ told' = [told EXCEPT ![d] = f] /\ newest' = Numbers(newest, e)
    BY <1>0, Delivered DEF Told
  <1>2. e.change \in Changes /\ e.at \in Places
    BY <1>1 DEF Events
  <1>3. told'[d] = f /\ \A x \in Devices \ {d} : told'[x] = told[x]
    BY <1>1 DEF Told, IInv, FrameworkOK
  <1>4. /\ f.phase = Phase(e.change, k.phase) /\ f.at = e.at
        /\ f.pointer = IF e.change \in Starts THEN e.pointer ELSE k.pointer
        /\ f.home = IF e.change = "add" THEN e.view ELSE k.home
    BY FollowsFields
  <1>5. Aim(d, views, states[d], pointer).views = views
    BY AimFields
  <1> HIDE DEF f
  <1>6. /\ phaseThen = [phase EXCEPT ![d] = f.phase]
        /\ f.phase = k.phase => phaseThen = phase
    <2>1. /\ phase = [x \in Devices |-> phase[x]]
          /\ phaseThen = [x \in Devices |-> phaseThen[x]]
          /\ phaseThen[d] = f.phase /\ phase[d] = k.phase
          /\ \A x \in Devices \ {d} : phaseThen[x] = phase[x]
      BY <1>1, <1>3
    <2> HIDE DEF phase, phaseThen
    <2>2. QED  BY <1>1, <2>1, OneChanges
  <1>7. /\ atThen = [at EXCEPT ![d] = f.at]
        /\ f.at = k.at => atThen = at
    <2>1. /\ at = [x \in Devices |-> at[x]]
          /\ atThen = [x \in Devices |-> atThen[x]]
          /\ atThen[d] = f.at /\ at[d] = k.at
          /\ \A x \in Devices \ {d} : atThen[x] = at[x]
      BY <1>1, <1>3
    <2> HIDE DEF at, atThen
    <2>2. QED  BY <1>1, <2>1, OneChanges
  <1>8. /\ identifierThen = [identifier EXCEPT ![d] = f.pointer]
        /\ f.pointer = k.pointer => identifierThen = identifier
    <2>1. /\ identifier = [x \in Devices |-> identifier[x]]
          /\ identifierThen = [x \in Devices |-> identifierThen[x]]
          /\ identifierThen[d] = f.pointer /\ identifier[d] = k.pointer
          /\ \A x \in Devices \ {d} : identifierThen[x] = identifier[x]
      BY <1>1, <1>3
    <2> HIDE DEF identifier, identifierThen
    <2>2. QED  BY <1>1, <2>1, OneChanges
  <1>9. /\ homeThen = [home EXCEPT ![d] = f.home]
        /\ f.home = k.home => homeThen = home
    <2>1. /\ home = [x \in Devices |-> home[x]]
          /\ homeThen = [x \in Devices |-> homeThen[x]]
          /\ homeThen[d] = f.home /\ home[d] = k.home
          /\ \A x \in Devices \ {d} : homeThen[x] = home[x]
      BY <1>1, <1>3
    <2> HIDE DEF home, homeThen
    <2>2. QED  BY <1>1, <2>1, OneChanges
  <1>10. phase[d] = k.phase /\ home[d] = k.home
    BY <1>1
  <1> HIDE DEF k, phase, at, identifier, home, phaseThen, atThen, identifierThen, homeThen
  <1>11. CASE e.change = "add"
    <2>1. /\ phase[d] = "absent" /\ phaseThen = [phase EXCEPT ![d] = "up"]
          /\ atThen = [at EXCEPT ![d] = e.at]
          /\ homeThen = [home EXCEPT ![d] = e.view] /\ e.view \in views
          /\ identifierThen = identifier /\ newest' = newest
      BY <1>1, <1>4, <1>5, <1>6, <1>7, <1>8, <1>9, <1>10, <1>11 DEF Legal, Numbers, Phase, Starts
    <2>2. Promise!Added(d)
      BY <1>1, <1>2, <2>1 DEF Promise!Added, Promise!Enter, phase, at, identifier, home,
                              phaseThen, atThen, identifierThen, homeThen
    <2>3. QED  BY <1>1, <2>2 DEF Promise!Next
  <1>12. CASE e.change = "remove"
    <2>1. /\ phase[d] # "absent" /\ (phase[d] = "down" => home[d] \notin views)
          /\ phaseThen = [phase EXCEPT ![d] = "absent"]
          /\ atThen = at /\ homeThen = home /\ identifierThen = identifier /\ newest' = newest
      BY <1>1, <1>4, <1>5, <1>6, <1>7, <1>8, <1>9, <1>10, <1>12 DEF Legal, Numbers, Phase, Starts
    <2>2. Promise!Removed(d)
      BY <1>1, <1>2, <2>1 DEF Promise!Removed, Promise!Enter, phase, at, identifier, home,
                              phaseThen, atThen, identifierThen, homeThen
    <2>3. QED  BY <1>1, <2>2 DEF Promise!Next
  <1>13. CASE e.change \in {"hover", "move", "panUpdate", "signal"}
    <2>1. /\ phase[d] # "absent" /\ phaseThen = phase
          /\ atThen = [at EXCEPT ![d] = e.at]
          /\ homeThen = home /\ identifierThen = identifier /\ newest' = newest
      BY <1>1, <1>4, <1>6, <1>7, <1>8, <1>9, <1>10, <1>13 DEF Legal, Numbers, Phase, Starts
    <2>2. Promise!Moved(d)
      BY <1>1, <1>2, <2>1 DEF Promise!Moved, phase, at, identifier, home,
                              phaseThen, atThen, identifierThen, homeThen
    <2>3. QED  BY <1>1, <2>2 DEF Promise!Next
  <1>14. CASE e.change \in Starts
    <2>0. PICK p \in {"down", "panning"} : p = IF e.change = "down" THEN "down" ELSE "panning"
      OBVIOUS
    <2>1. /\ phase[d] = "up" /\ phaseThen = [phase EXCEPT ![d] = p]
          /\ identifierThen = [identifier EXCEPT ![d] = newest'] /\ newest' = newest + 1
          /\ atThen = at /\ homeThen = home
      BY <1>1, <1>4, <1>6, <1>7, <1>8, <1>9, <1>10, <1>14, <2>0 DEF Legal, Numbers, Phase, Starts
    <2>2. Promise!Begun(d, p)
      BY <1>1, <1>2, <2>1 DEF Promise!Begun, Promise!Enter, phase, at, identifier, home,
                              phaseThen, atThen, identifierThen, homeThen
    <2>3. QED  BY <1>1, <2>2 DEF Promise!Next
  <1>15. CASE e.change \in {"up", "panEnd"}
    <2>0. PICK p \in {"down", "panning"} : p = IF e.change = "up" THEN "down" ELSE "panning"
      OBVIOUS
    <2>1. /\ phase[d] = p /\ phaseThen = [phase EXCEPT ![d] = "up"]
          /\ atThen = at /\ homeThen = home /\ identifierThen = identifier /\ newest' = newest
      BY <1>1, <1>4, <1>6, <1>7, <1>8, <1>9, <1>10, <1>15, <2>0 DEF Legal, Numbers, Phase, Starts
    <2>2. Promise!Ended(d, p)
      BY <1>1, <1>2, <2>1 DEF Promise!Ended, Promise!Enter, phase, at, identifier, home,
                              phaseThen, atThen, identifierThen, homeThen
    <2>3. QED  BY <1>1, <2>2 DEF Promise!Next
  <1>16. CASE e.change = "cancel"
    <2>1. /\ phase[d] = "down" /\ phaseThen = [phase EXCEPT ![d] = "up"]
          /\ atThen = [at EXCEPT ![d] = e.at]
          /\ homeThen = home /\ identifierThen = identifier /\ newest' = newest
      BY <1>1, <1>4, <1>6, <1>7, <1>8, <1>9, <1>10, <1>16 DEF Legal, Numbers, Phase, Starts
    <2>2. Promise!Cancelled(d)
      BY <1>1, <1>2, <2>1 DEF Promise!Cancelled, Promise!Enter, phase, at, identifier, home,
                              phaseThen, atThen, identifierThen, homeThen
    <2>3. QED  BY <1>1, <2>2 DEF Promise!Next
  <1>17. QED  BY <1>2, <1>11, <1>12, <1>13, <1>14, <1>15, <1>16 DEF Changes, Starts

LEMMA PromiseInit == Init => Promise!Init
  <1> SUFFICES ASSUME Init PROVE Promise!Init
    OBVIOUS
  <1>1. PICK l \in Places, v \in Views :
          told = [d \in Devices |-> [phase |-> "absent", at |-> l, pointer |-> 0, home |-> v]]
    BY DEF Init
  <1>2. \A d \in Devices : /\ told[d].phase = "absent" /\ told[d].pointer = 0
                           /\ told[d].at \in Places /\ told[d].home \in Views
    BY <1>1
  <1>3. QED  BY <1>2 DEF Init, Promise!Init

LEMMA PromiseStep == Told /\ [Next]_vars => [Promise!Next]_(Promise!vars)
  <1> SUFFICES ASSUME Told, [Next]_vars PROVE [Promise!Next]_(Promise!vars)
    OBVIOUS
  <1>1. CASE Deliver
    BY <1>1, DeliverPromised
  <1>2. ASSUME NEW v \in Views, AddView(v) \/ RemoveView(v)
        PROVE  Promise!ViewsChange
    <2>1. views' \in SUBSET Views /\ UNCHANGED <<told, newest>>
      BY <1>2 DEF AddView, RemoveView, framework, Told, IInv
    <2>2. QED  BY <2>1 DEF Promise!ViewsChange
  <1>3. CASE UNCHANGED <<views, told, newest>>
    BY <1>3 DEF Promise!vars
  <1>4. CASE UNCHANGED vars
    BY <1>3, <1>4 DEF vars, framework
  <1>5. ASSUME NEW p, CancelActivePointers(p) PROVE UNCHANGED <<views, told, newest>>
    BY <1>5 DEF CancelActivePointers
  <1>6. ASSUME NEW d \in Devices, NEW v \in Views, NEW l \in Places, LateRemove(d, v, l)
        PROVE  UNCHANGED vars
    BY <1>6, LateRemoveStep DEF Told
  <1>7. QED  BY <1>1, <1>2, <1>3, <1>4, <1>5, <1>6, Untold DEF Next, Promise!Next

(* The converter keeps its promise to the framework, for any devices,      *)
(* views and places and however views come and go: every event delivered   *)
(* is one the promise allows, every other step leaves what it knows alone. *)
THEOREM Implements == Spec => ImplementsProtocol
  BY PromiseInit, PromiseStep, ToldAlways, PTL DEF Spec, ImplementsProtocol, Promise!Spec

=============================================================================
