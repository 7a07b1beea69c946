-------------------------- MODULE TaskQueuesProofs --------------------------
(***************************************************************************)
(* Proofs about TaskQueues, for any queues, any pairs that may be merged   *)
(* and any bounds.                                                         *)
(*                                                                         *)
(* OneAtATime follows from Displaced: a task that runs on another loop     *)
(* than the one its queue is now run by has merged or unmerged that queue. *)
(* SleeperWillWake needs FramesAtHome, since the end of a frame wakes only *)
(* the queue of the frame: when that one is subsumed, its owner must be    *)
(* the loop the frame runs on, which looks for more when it is done.       *)
(***************************************************************************)
EXTENDS TaskQueues, FiniteSetTheorems, TLAPS

(* A loop runs one task at a time, and only while it is awake. *)
Busy ==
  \A l \in Queues : \A t \in running[l] :
    awake[l] /\ \A u \in running[l] : u = t

(* Queues are merged as Mergeable says. *)
AsPlanned ==
  \A q \in Queues : subsumedBy[q] # None => <<subsumedBy[q], q>> \in Mergeable

(* See OneAtATime. *)
Displaced ==
  \A l \in Queues : \A t \in running[l] :
    Root(t.queue) # l => t.queue \in switched[l]

(* A frame runs on the loop of its queue, which is then not subsumed, or on
   that of the queue that may subsume it. *)
FramesAtHome ==
  \A l \in Queues : \A t \in running[l] : t.resumes =>
    \/ l = t.queue /\ subsumedBy[l] = None
    \/ l # t.queue /\ <<l, t.queue>> \in Mergeable

(* A task is in one place: no two of them have the same number. *)
Numbered ==
  /\ \A t \in pending : t.order < order /\ \A u \in pending : t.order = u.order => t = u
  /\ \A l \in Queues : \A t \in running[l] :
       /\ t.order < order
       /\ \A u \in pending : t.order # u.order
       /\ \A m \in Queues : m # l => \A u \in running[m] : t.order # u.order

(* Frames of q that wait or run.  The secondary source is paused once for each
   of them, and for one that is about to be posted. *)
Frames(q) == {t \in pending \cup UNION {running[l] : l \in Queues} :
                t.queue = q /\ t.resumes}

PauseCounted ==
  \A q \in Queues :
    /\ IsFiniteSet(Frames(q))
    /\ paused[q] = Cardinality(Frames(q)) + (IF q \in posting THEN 1 ELSE 0)

IInv ==
  /\ TypeOK /\ OneOfThreeStates /\ Busy /\ AsPlanned /\ Displaced
  /\ FramesAtHome /\ Numbered /\ PauseCounted /\ SleeperWillWake
-----------------------------------------------------------------------------
(* What a loop has to run. *)
LEMMA InPending ==
  \A l, t : t \in Pending(l) <=>
    /\ subsumedBy[l] = None /\ t \in pending
    /\ t.secondary => paused[t.queue] = 0
    /\ t.queue = l \/ t.queue \in ownerOf[l]
BY DEF Pending, Source

LEMMA InPendingNext ==
  \A l, t : t \in Pending(l)' <=>
    /\ subsumedBy'[l] = None /\ t \in pending'
    /\ t.secondary => paused'[t.queue] = 0
    /\ t.queue = l \/ t.queue \in ownerOf'[l]
BY DEF Pending, Source

(* A timer is armed for one of the tasks, and not later than any of them. *)
LEMMA WakeForFirst ==
  \A old, S : \A w \in WakeFor(old, S) :
    /\ w = old \/ \E t \in S : w = t.time
    /\ \A t \in S : w <= t.time
BY DEF WakeFor

LEMMA Initially == Init => IInv
<1> SUFFICES ASSUME Init PROVE IInv OBVIOUS
<1> USE DEF Init
<1>1. TypeOK BY TaskBoundsAssumption DEF TypeOK, Times, Never
<1>2. OneOfThreeStates BY NoneAssumption DEF OneOfThreeStates
<1>3. Busy /\ AsPlanned /\ Displaced /\ FramesAtHome
  BY NoneAssumption DEF Busy, AsPlanned, Displaced, FramesAtHome
<1>4. SleeperWillWake BY InPending DEF SleeperWillWake
<1>5. Numbered BY DEF Numbered
<1>6. PauseCounted
  <2>1. \A q \in Queues : Frames(q) = {} BY DEF Frames
  <2> QED BY <2>1, FS_EmptySet DEF PauseCounted
<1> QED BY <1>1, <1>2, <1>3, <1>4, <1>5, <1>6 DEF IInv
-----------------------------------------------------------------------------
(* What a timer may be armed for stays a time. *)
LEMMA WakeType ==
  ASSUME NEW old \in Times \cup {Never}, NEW S \in SUBSET Tasks,
         NEW w \in WakeFor(old, S)
  PROVE  w \in Times \cup {Never}
BY WakeForFirst DEF Tasks

LEMMA PendingType == ASSUME TypeOK, NEW l \in Queues PROVE Pending(l) \in SUBSET Tasks
BY InPending DEF TypeOK

LEMMA RegisterType ==
  ASSUME TypeOK, NEW task \in Tasks, RegisterTask(task),
         UNCHANGED <<ownerOf, subsumedBy, paused>>
  PROVE  pending' \in SUBSET Tasks /\ order' \in Nat
         /\ wake' \in [Queues -> Times \cup {Never}]
<1>1. pending' \in SUBSET Tasks /\ order' \in Nat BY DEF TypeOK, RegisterTask
<1>2. Root(task.queue) \in Queues BY DEF TypeOK, Root, Tasks
<1>3. Pending(Root(task.queue))' \in SUBSET Tasks BY <1>1, InPendingNext
<1>4. PICK w \in WakeFor(wake[Root(task.queue)], Pending(Root(task.queue))') :
        wake' = [wake EXCEPT ![Root(task.queue)] = w]
  BY DEF RegisterTask
<1>5. w \in Times \cup {Never} BY <1>2, <1>3, WakeType DEF TypeOK
<1> QED BY <1>1, <1>4, <1>5 DEF TypeOK

(* The kinds of steps. *)
LEMMA Steps ==
  ASSUME TypeOK, [Next]_vars
  PROVE  \/ UNCHANGED vars
         \/ \E q \in Queues, time \in Times, s \in BOOLEAN : PostTask(q, time, s)
         \/ \E q \in Queues : PauseSecondarySource(q)
         \/ \E q \in Queues : PostFrame(q)
         \/ \E l \in Queues : \E t \in running[l] : ResumeSecondarySource(l, t)
         \/ \E l \in Queues : OnEventFired(l)
         \/ \E l \in Queues : NoTaskToRun(l)
         \/ \E l \in Queues : \E t \in pending : GetNextTaskToRun(l, t)
         \/ \E l \in Queues : \E t \in running[l] : FinishTask(l, t)
         \/ \E o, s \in Queues : <<o, s>> \in Mergeable /\ Merge(o, s)
         \/ \E o, s \in Queues : Unmerge(o, s)
         \/ Tick
<1>1. \A time \in now .. MaxTime : time \in Times
  BY TaskBoundsAssumption DEF TypeOK, Times
<1>2. ASSUME NEW p \in Mergeable
      PROVE  p[1] \in Queues /\ p[2] \in Queues /\ p = <<p[1], p[2]>>
  BY MergeableAssumption
<1>3. DartQueues \subseteq Queues BY DartAssumption
<1>4. TRUE \in BOOLEAN /\ FALSE \in BOOLEAN OBVIOUS
<1>5. CASE \E p \in Mergeable : Merge(p[1], p[2]) \/ Unmerge(p[1], p[2])
  BY <1>2, <1>5
<1>6. CASE \E l \in Queues : Loop(l) BY <1>6, Zenon DEF Loop
<1>7. CASE \E q \in Queues, time \in now .. MaxTime : PostTask(q, time, FALSE)
  BY <1>1, <1>4, <1>7, Zenon
<1>8. CASE \E q \in DartQueues, time \in now .. MaxTime : PostTask(q, time, TRUE)
  BY <1>1, <1>3, <1>4, <1>8
<1>9. CASE \E q \in DartQueues : PauseSecondarySource(q) \/ PostFrame(q)
  BY <1>3, <1>9
<1> QED BY <1>5, <1>6, <1>7, <1>8, <1>9, Zenon DEF Next

(* A frame that ends resumes what a vsync has paused. *)
LEMMA TypeStep == ASSUME IInv, [Next]_vars PROVE TypeOK'
<1> USE DEF IInv
<1>1. CASE UNCHANGED vars BY <1>1 DEF TypeOK, vars, loopVars
<1>2. ASSUME NEW q \in Queues, NEW time \in Times, NEW s \in BOOLEAN, PostTask(q, time, s)
      PROVE TypeOK'
  <2>1. [queue |-> q, order |-> order, time |-> time, secondary |-> s,
         resumes |-> FALSE] \in Tasks BY DEF Tasks, TypeOK
  <2>2. pending' \in SUBSET Tasks /\ order' \in Nat
        /\ wake' \in [Queues -> Times \cup {Never}]
    BY <1>2, <2>1, RegisterType DEF PostTask
  <2> QED BY <1>2, <2>2 DEF PostTask, TypeOK, loopVars
<1>3. ASSUME NEW q \in Queues, PauseSecondarySource(q) PROVE TypeOK'
  BY <1>3 DEF PauseSecondarySource, TypeOK, loopVars
<1>4. ASSUME NEW q \in Queues, PostFrame(q) PROVE TypeOK'
  <2>1. [queue |-> q, order |-> order, time |-> now, secondary |-> FALSE,
         resumes |-> TRUE] \in Tasks BY DEF Tasks, TypeOK
  <2>2. pending' \in SUBSET Tasks /\ order' \in Nat
        /\ wake' \in [Queues -> Times \cup {Never}]
    BY <1>4, <2>1, RegisterType DEF PostFrame
  <2> QED BY <1>4, <2>2 DEF PostFrame, TypeOK, loopVars
<1>5. ASSUME NEW l \in Queues, NEW t \in running[l], ResumeSecondarySource(l, t)
      PROVE  TypeOK'
  <2>1. t \in Tasks /\ t.queue \in Queues /\ t.time \in Times /\ t.resumes
    BY <1>5 DEF TypeOK, Tasks, ResumeSecondarySource
  <2>2. t \in Frames(t.queue) BY <2>1 DEF Frames
  <2>3. Cardinality(Frames(t.queue)) \in Nat \ {0}
    BY <2>1, <2>2, FS_CardinalityType, FS_EmptySet DEF PauseCounted
  <2>4. paused[t.queue] - 1 \in Nat BY <2>1, <2>3 DEF PauseCounted
  <2>5. paused' \in [Queues -> Nat] BY <1>5, <2>1, <2>4 DEF TypeOK, ResumeSecondarySource
  <2>6. [t EXCEPT !.resumes = FALSE] \in Tasks BY <2>1 DEF Tasks
  <2>7. running' \in [Queues -> SUBSET Tasks]
    BY <1>5, <2>6 DEF TypeOK, ResumeSecondarySource
  <2>8. PICK w \in WakeFor(wake[t.queue], Pending(t.queue)') :
          wake' = [wake EXCEPT ![t.queue] = w]
    BY <1>5 DEF ResumeSecondarySource
  <2>9. Pending(t.queue)' \in SUBSET Tasks
    BY <1>5, InPendingNext DEF ResumeSecondarySource, TypeOK
  <2>10. w \in Times \cup {Never} BY <2>1, <2>9, WakeType DEF TypeOK
  <2> QED BY <1>5, <2>5, <2>7, <2>8, <2>10 DEF ResumeSecondarySource, TypeOK
<1>6. ASSUME NEW l \in Queues, OnEventFired(l) PROVE TypeOK'
  BY <1>6 DEF OnEventFired, TypeOK, loopVars
<1>7. ASSUME NEW l \in Queues, NoTaskToRun(l) PROVE TypeOK'
  <2>1. PICK w \in WakeFor(wake[l], Pending(l)) : wake' = [wake EXCEPT ![l] = w]
    BY <1>7 DEF NoTaskToRun
  <2>2. w \in Times \cup {Never} BY PendingType, WakeType DEF TypeOK
  <2>3. wake' \in [Queues -> Times \cup {Never}] BY <2>1, <2>2 DEF TypeOK
  <2>4. 0 \in Times BY TaskBoundsAssumption DEF Times
  <2> QED BY <1>7, <2>3, <2>4 DEF NoTaskToRun, TypeOK
<1>8. ASSUME NEW l \in Queues, NEW t \in pending, GetNextTaskToRun(l, t) PROVE TypeOK'
  <2>1. t \in Tasks /\ t.time \in Times BY DEF TypeOK, Tasks
  <2> QED BY <1>8, <2>1 DEF GetNextTaskToRun, TypeOK
<1>9. ASSUME NEW l \in Queues, NEW t \in running[l], FinishTask(l, t) PROVE TypeOK'
  BY <1>9 DEF FinishTask, TypeOK
<1>10. ASSUME NEW o \in Queues, NEW s \in Queues, Merge(o, s) PROVE TypeOK'
  <2>1. PICK w \in WakeFor(wake[o], Pending(o)') : wake' = [wake EXCEPT ![o] = w]
    BY <1>10 DEF Merge
  <2>2. Pending(o)' \in SUBSET Tasks BY <1>10, InPendingNext DEF Merge, TypeOK
  <2>3. w \in Times \cup {Never} BY <2>2, WakeType DEF TypeOK
  <2> QED BY <1>10, <2>1, <2>3 DEF Merge, TypeOK
<1>11. ASSUME NEW o \in Queues, NEW s \in Queues, Unmerge(o, s) PROVE TypeOK'
  <2>1. PICK w \in WakeFor(wake[o], Pending(o)'), v \in WakeFor(wake[s], Pending(s)') :
          wake' = [wake EXCEPT ![o] = w, ![s] = v]
    BY <1>11 DEF Unmerge, WakeBoth
  <2>2. Pending(o)' \in SUBSET Tasks /\ Pending(s)' \in SUBSET Tasks
    BY <1>11, InPendingNext DEF Unmerge, TypeOK
  <2>3. w \in Times \cup {Never} /\ v \in Times \cup {Never}
    BY <2>2, WakeType DEF TypeOK
  <2> QED BY <1>11, <2>1, <2>3 DEF Unmerge, TypeOK
<1>12. CASE Tick BY <1>12, TaskBoundsAssumption DEF Tick, TypeOK, loopVars, Times
<1> QED
  BY <1>1, <1>2, <1>3, <1>4, <1>5, <1>6, <1>7, <1>8, <1>9, <1>10, <1>11, <1>12,
     Steps, Zenon
-----------------------------------------------------------------------------
(* Only Merge and Unmerge change who owns whom. *)
LEMMA StatesStep ==
  ASSUME IInv, [Next]_vars PROVE OneOfThreeStates' /\ AsPlanned'
<1> USE DEF IInv
<1>1. ASSUME UNCHANGED <<ownerOf, subsumedBy>> PROVE OneOfThreeStates' /\ AsPlanned'
  BY <1>1 DEF OneOfThreeStates, AsPlanned
<1>2. ASSUME NEW o \in Queues, NEW s \in Queues, <<o, s>> \in Mergeable, Merge(o, s)
      PROVE  OneOfThreeStates' /\ AsPlanned'
  <2>1. /\ o # s /\ subsumedBy[o] = None /\ subsumedBy[s] = None
        /\ ownerOf[s] = {}
        /\ ownerOf' = [ownerOf EXCEPT ![o] = @ \cup {s}]
        /\ subsumedBy' = [subsumedBy EXCEPT ![s] = o]
    BY <1>2 DEF Merge, CanMerge
  <2>2. ASSUME NEW q \in Queues, ownerOf'[q] # {} PROVE subsumedBy'[q] = None
    BY <2>1, <2>2 DEF OneOfThreeStates, TypeOK
  <2>3. ASSUME NEW q \in Queues, NEW r \in Queues
        PROVE  q \in ownerOf'[r] <=> subsumedBy'[q] = r
    BY <2>1, NoneAssumption DEF OneOfThreeStates, TypeOK
  <2>4. AsPlanned' BY <1>2, <2>1 DEF AsPlanned, TypeOK
  <2> QED BY <2>2, <2>3, <2>4 DEF OneOfThreeStates
<1>3. ASSUME NEW o \in Queues, NEW s \in Queues, Unmerge(o, s)
      PROVE  OneOfThreeStates' /\ AsPlanned'
  <2>1. /\ s \in ownerOf[o]
        /\ ownerOf' = [ownerOf EXCEPT ![o] = @ \ {s}]
        /\ subsumedBy' = [subsumedBy EXCEPT ![s] = None]
    BY <1>3 DEF Unmerge
  <2>2. ASSUME NEW q \in Queues, ownerOf'[q] # {} PROVE subsumedBy'[q] = None
    BY <2>1, <2>2 DEF OneOfThreeStates, TypeOK
  <2>3. ASSUME NEW q \in Queues, NEW r \in Queues
        PROVE  q \in ownerOf'[r] <=> subsumedBy'[q] = r
    BY <2>1, NoneAssumption DEF OneOfThreeStates, TypeOK
  <2>4. AsPlanned' BY <2>1 DEF AsPlanned, TypeOK
  <2> QED BY <2>2, <2>3, <2>4 DEF OneOfThreeStates
<1> QED
  BY <1>1, <1>2, <1>3, Steps DEF vars, PostTask, PauseSecondarySource, PostFrame,
     ResumeSecondarySource, OnEventFired, NoTaskToRun, GetNextTaskToRun, FinishTask,
     Tick

LEMMA BusyStep == ASSUME IInv, [Next]_vars PROVE Busy'
<1> USE DEF IInv, Busy
<1>1. ASSUME UNCHANGED <<awake, running>> PROVE Busy' BY <1>1
<1>2. ASSUME NEW l \in Queues, NEW t \in running[l], ResumeSecondarySource(l, t)
      PROVE  Busy'
  BY <1>2 DEF ResumeSecondarySource, TypeOK
<1>3. ASSUME NEW l \in Queues, OnEventFired(l) PROVE Busy'
  BY <1>3 DEF OnEventFired, TypeOK
<1>4. ASSUME NEW l \in Queues, NoTaskToRun(l) PROVE Busy'
  BY <1>4 DEF NoTaskToRun, TypeOK
<1>5. ASSUME NEW l \in Queues, NEW t \in pending, GetNextTaskToRun(l, t) PROVE Busy'
  BY <1>5 DEF GetNextTaskToRun, TypeOK
<1>6. ASSUME NEW l \in Queues, NEW t \in running[l], FinishTask(l, t) PROVE Busy'
  BY <1>6 DEF FinishTask, TypeOK
<1> HIDE DEF Busy
<1> QED
  BY <1>1, <1>2, <1>3, <1>4, <1>5, <1>6, Steps DEF vars, loopVars, PostTask,
     PauseSecondarySource, PostFrame, Merge, Unmerge, Tick
(* A frame that ends stays the task it was. *)
LEMMA ResumeKeeps ==
  ASSUME TypeOK, NEW l \in Queues, NEW t \in running[l], ResumeSecondarySource(l, t),
         NEW m \in Queues, NEW u \in running'[m]
  PROVE  \/ u \in running[m]
         \/ m = l /\ u.queue = t.queue /\ u.order = t.order /\ ~u.resumes
<1>1. t \in Tasks BY DEF TypeOK
<1>2. /\ [t EXCEPT !.resumes = FALSE].queue = t.queue
      /\ [t EXCEPT !.resumes = FALSE].order = t.order
      /\ ~[t EXCEPT !.resumes = FALSE].resumes
  BY <1>1 DEF Tasks
<1>3. running' = [running EXCEPT ![l] = {[t EXCEPT !.resumes = FALSE]}]
  BY DEF ResumeSecondarySource
<1> QED BY <1>2, <1>3 DEF TypeOK

(* A loop takes only tasks of queues it is to run; a queue gets another loop
   by a step of the loop that then runs a task of it, or of its owner. *)
LEMMA DisplacedStep == ASSUME IInv, [Next]_vars PROVE Displaced'
<1> USE DEF IInv, Displaced
<1>1. ASSUME UNCHANGED <<subsumedBy, running, switched>> PROVE Displaced'
  BY <1>1 DEF Root
<1>2. ASSUME NEW l \in Queues, NEW t \in running[l], ResumeSecondarySource(l, t)
      PROVE  Displaced'
  <2>1. UNCHANGED <<subsumedBy, switched>> BY <1>2 DEF ResumeSecondarySource
  <2>2. SUFFICES ASSUME NEW m \in Queues, NEW u \in running'[m], Root(u.queue)' # m
                 PROVE  u.queue \in switched'[m]
    OBVIOUS
  <2> QED BY <1>2, <2>1, <2>2, ResumeKeeps DEF Root
<1>3. ASSUME NEW l \in Queues, NEW t \in pending, GetNextTaskToRun(l, t)
      PROVE  Displaced'
  <2>1. subsumedBy[l] = None /\ (t.queue = l \/ t.queue \in ownerOf[l])
    BY <1>3, InPending DEF GetNextTaskToRun, Top
  <2>2. t.queue \in Queues BY DEF TypeOK, Tasks
  <2>3. Root(t.queue) = l BY <2>1, <2>2, NoneAssumption DEF Root, OneOfThreeStates
  <2> QED BY <1>3, <2>3 DEF GetNextTaskToRun, Root, TypeOK
<1>4. ASSUME NEW l \in Queues, NEW t \in running[l], FinishTask(l, t)
      PROVE  Displaced'
  BY <1>4 DEF FinishTask, Root, TypeOK
<1>5. ASSUME NEW o \in Queues, NEW s \in Queues, Merge(o, s) PROVE Displaced'
  <2>1. /\ subsumedBy[s] = None /\ subsumedBy' = [subsumedBy EXCEPT ![s] = o]
        /\ running' = running
        /\ switched' = [switched EXCEPT ![s] = @ \cup {s}]
    BY <1>5 DEF Merge, CanMerge
  <2>2. SUFFICES ASSUME NEW l \in Queues, NEW t \in running[l], Root(t.queue)' # l
                 PROVE  t.queue \in switched'[l]
    BY <2>1
  <2>3. t.queue \in Queues BY DEF TypeOK, Tasks
  <2>4. CASE t.queue = s BY <2>1, <2>2, <2>3, <2>4 DEF Root, TypeOK
  <2>5. CASE t.queue # s BY <2>1, <2>2, <2>3, <2>5 DEF Root, TypeOK
  <2> QED BY <2>4, <2>5
<1>6. ASSUME NEW o \in Queues, NEW s \in Queues, Unmerge(o, s) PROVE Displaced'
  <2>1. /\ subsumedBy[s] = o /\ subsumedBy' = [subsumedBy EXCEPT ![s] = None]
        /\ running' = running
        /\ switched' = [switched EXCEPT ![o] = @ \cup {s}]
    BY <1>6 DEF Unmerge, OneOfThreeStates
  <2>2. SUFFICES ASSUME NEW l \in Queues, NEW t \in running[l], Root(t.queue)' # l
                 PROVE  t.queue \in switched'[l]
    BY <2>1
  <2>3. t.queue \in Queues BY DEF TypeOK, Tasks
  <2>4. CASE t.queue = s
    BY <2>1, <2>2, <2>3, <2>4, NoneAssumption DEF Root, TypeOK
  <2>5. CASE t.queue # s BY <2>1, <2>2, <2>3, <2>5 DEF Root, TypeOK
  <2> QED BY <2>4, <2>5
<1> HIDE DEF Displaced
<1> QED
  BY <1>1, <1>2, <1>3, <1>4, <1>5, <1>6, Steps DEF vars, loopVars, PostTask,
     PauseSecondarySource, PostFrame, OnEventFired, NoTaskToRun, Tick

(* A queue is subsumed by a task of its own that is not a frame. *)
LEMMA HomeStep == ASSUME IInv, [Next]_vars PROVE FramesAtHome'
<1> USE DEF IInv, FramesAtHome
<1>1. ASSUME UNCHANGED <<subsumedBy, running>> PROVE FramesAtHome' BY <1>1
<1>2. ASSUME NEW l \in Queues, NEW t \in running[l], ResumeSecondarySource(l, t)
      PROVE  FramesAtHome'
  <2>1. UNCHANGED subsumedBy BY <1>2 DEF ResumeSecondarySource
  <2> QED BY <1>2, <2>1, ResumeKeeps
<1>3. ASSUME NEW l \in Queues, NEW t \in pending, GetNextTaskToRun(l, t)
      PROVE  FramesAtHome'
  <2>1. subsumedBy[l] = None /\ (t.queue = l \/ t.queue \in ownerOf[l])
    BY <1>3, InPending DEF GetNextTaskToRun, Top
  <2>2. t.queue \in Queues BY DEF TypeOK, Tasks
  <2>3. t.queue # l => <<l, t.queue>> \in Mergeable
    BY <2>1, <2>2, NoneAssumption DEF OneOfThreeStates, AsPlanned
  <2> QED BY <1>3, <2>1, <2>3 DEF GetNextTaskToRun, TypeOK
<1>4. ASSUME NEW l \in Queues, NEW t \in running[l], FinishTask(l, t)
      PROVE  FramesAtHome'
  BY <1>4 DEF FinishTask, TypeOK
<1>5. ASSUME NEW o \in Queues, NEW s \in Queues, Merge(o, s) PROVE FramesAtHome'
  <2>1. \A t \in running[s] : ~t.resumes BY <1>5 DEF Merge, Busy
  <2> QED BY <1>5, <2>1 DEF Merge, TypeOK
<1>6. ASSUME NEW o \in Queues, NEW s \in Queues, Unmerge(o, s) PROVE FramesAtHome'
  BY <1>6 DEF Unmerge, TypeOK
<1> HIDE DEF FramesAtHome
<1> QED
  BY <1>1, <1>2, <1>3, <1>4, <1>5, <1>6, Steps DEF vars, loopVars, PostTask,
     PauseSecondarySource, PostFrame, OnEventFired, NoTaskToRun, Tick

LEMMA NumberedStep == ASSUME IInv, [Next]_vars PROVE Numbered'
<1> USE DEF IInv, Numbered
<1>1. ASSUME UNCHANGED <<pending, running, order>> PROVE Numbered' BY <1>1
<1>2. ASSUME NEW task \in Tasks, task.order = order, RegisterTask(task),
             UNCHANGED running
      PROVE  Numbered'
  BY <1>2 DEF RegisterTask, TypeOK, Tasks
<1>3. ASSUME NEW l \in Queues, NEW t \in running[l], ResumeSecondarySource(l, t)
      PROVE  Numbered'
  <2>1. UNCHANGED <<pending, order>> BY <1>3 DEF ResumeSecondarySource
  <2>2. \A m \in Queues : \A u \in running'[m] :
          \E v \in running[m] : v.order = u.order
    BY <1>3, ResumeKeeps
  <2> QED BY <2>1, <2>2
<1>4. ASSUME NEW l \in Queues, NEW t \in pending, GetNextTaskToRun(l, t)
      PROVE  Numbered'
  BY <1>4 DEF GetNextTaskToRun, TypeOK
<1>5. ASSUME NEW l \in Queues, NEW t \in running[l], FinishTask(l, t)
      PROVE  Numbered'
  BY <1>5 DEF FinishTask, TypeOK
<1>6. ASSUME NEW q \in Queues, NEW time \in Times, NEW s \in BOOLEAN, PostTask(q, time, s)
      PROVE  Numbered'
  <2> DEFINE task == [queue |-> q, order |-> order, time |-> time, secondary |-> s,
                      resumes |-> FALSE]
  <2>1. task \in Tasks /\ task.order = order BY DEF Tasks, TypeOK
  <2> HIDE DEF Numbered
  <2> QED BY <1>2, <1>6, <2>1 DEF PostTask, loopVars
<1>7. ASSUME NEW q \in Queues, PostFrame(q) PROVE Numbered'
  <2> DEFINE task == [queue |-> q, order |-> order, time |-> now, secondary |-> FALSE,
                      resumes |-> TRUE]
  <2>1. task \in Tasks /\ task.order = order BY DEF Tasks, TypeOK
  <2> HIDE DEF Numbered
  <2> QED BY <1>2, <1>7, <2>1 DEF PostFrame, loopVars
<1> HIDE DEF Numbered
<1> QED
  BY <1>1, <1>3, <1>4, <1>5, <1>6, <1>7, Steps DEF vars, loopVars,
     PauseSecondarySource, OnEventFired, NoTaskToRun, Merge, Unmerge, Tick
-----------------------------------------------------------------------------
LEMMA InFrames ==
  \A q, x : x \in Frames(q) <=>
    /\ x \in pending \/ \E l \in Queues : x \in running[l]
    /\ x.queue = q /\ x.resumes
BY DEF Frames

LEMMA FramesSame ==
  ASSUME NEW q, \A x : x \in Frames(q)' <=> x \in Frames(q)
  PROVE  Frames(q)' = Frames(q)
BY DEF Frames

LEMMA InFramesNext ==
  \A q, x : x \in Frames(q)' <=>
    /\ x \in pending' \/ \E l \in Queues : x \in running'[l]
    /\ x.queue = q /\ x.resumes
BY DEF Frames

(* Each pause has its frame, and each frame resumes once. *)
LEMMA PauseStep == ASSUME IInv, [Next]_vars PROVE PauseCounted'
<1> USE DEF IInv
<1>1. ASSUME UNCHANGED <<paused, posting>>, \A q \in Queues : Frames(q)' = Frames(q)
      PROVE  PauseCounted'
  BY <1>1 DEF PauseCounted
<1>2. ASSUME UNCHANGED <<pending, running>> PROVE \A q \in Queues : Frames(q)' = Frames(q)
  BY <1>2 DEF Frames
<1>3. ASSUME NEW q \in Queues, NEW time \in Times, NEW s \in BOOLEAN, PostTask(q, time, s)
      PROVE  PauseCounted'
  <2> DEFINE task == [queue |-> q, order |-> order, time |-> time, secondary |-> s,
                      resumes |-> FALSE]
  <2>1. pending' = pending \cup {task} /\ ~task.resumes
    BY <1>3 DEF PostTask, RegisterTask
  <2> HIDE DEF task
  <2>2. UNCHANGED <<running, paused, posting>> BY <1>3 DEF PostTask, loopVars
  <2>3. \A r, x : x \in Frames(r)' <=> x \in Frames(r)
    BY <2>1, <2>2, InFrames, InFramesNext
  <2>4. \A r \in Queues : Frames(r)' = Frames(r) BY <2>3, FramesSame
  <2> QED BY <1>1, <2>2, <2>4
<1>4. ASSUME NEW q \in Queues, PauseSecondarySource(q) PROVE PauseCounted'
  <2>1. /\ q \notin posting /\ posting' = posting \cup {q}
        /\ paused' = [paused EXCEPT ![q] = @ + 1]
        /\ UNCHANGED <<pending, running>>
    BY <1>4 DEF PauseSecondarySource, loopVars
  <2>2. \A r \in Queues : Frames(r)' = Frames(r) BY <1>2, <2>1
  <2>3. \A r \in Queues : Cardinality(Frames(r)) \in Nat
    BY FS_CardinalityType DEF PauseCounted
  <2> QED BY <2>1, <2>2, <2>3 DEF PauseCounted, TypeOK
<1>5. ASSUME NEW q \in Queues, PostFrame(q) PROVE PauseCounted'
  <2> DEFINE task == [queue |-> q, order |-> order, time |-> now, secondary |-> FALSE,
                      resumes |-> TRUE]
  <2>1. /\ q \in posting /\ posting' = posting \ {q}
        /\ pending' = pending \cup {task} /\ UNCHANGED <<running, paused>>
    BY <1>5 DEF PostFrame, RegisterTask, loopVars
  <2>2. task.queue = q /\ task.order = order /\ task.resumes OBVIOUS
  <2> HIDE DEF task
  <2>3. order \in Nat BY DEF TypeOK
  <2>4. task \notin Frames(q) BY <2>2, <2>3, InFrames DEF Numbered
  <2>5. Frames(q)' = Frames(q) \cup {task} BY <2>1, <2>2, InFrames, InFramesNext
  <2>6. \A r \in Queues : r # q => Frames(r)' = Frames(r)
    BY <2>1, <2>2, InFrames, InFramesNext
  <2>7. /\ IsFiniteSet(Frames(q)')
        /\ Cardinality(Frames(q)') = Cardinality(Frames(q)) + 1
    BY <2>4, <2>5, FS_AddElement DEF PauseCounted
  <2>8. \A r \in Queues : Cardinality(Frames(r)) \in Nat
    BY FS_CardinalityType DEF PauseCounted
  <2> QED BY <2>1, <2>6, <2>7, <2>8 DEF PauseCounted, TypeOK
<1>6. ASSUME NEW l \in Queues, NEW t \in running[l], ResumeSecondarySource(l, t)
      PROVE  PauseCounted'
  <2>1. t \in Tasks /\ t.queue \in Queues /\ t.resumes
    BY <1>6 DEF TypeOK, Tasks, ResumeSecondarySource
  <2>2. /\ paused' = [paused EXCEPT ![t.queue] = @ - 1] /\ UNCHANGED <<pending, posting>>
        /\ running' = [running EXCEPT ![l] = {[t EXCEPT !.resumes = FALSE]}]
    BY <1>6 DEF ResumeSecondarySource
  <2>3. \A m \in Queues : \A u \in running'[m] : u.resumes => u \in running[m] /\ u # t
    <3>1. SUFFICES ASSUME NEW m \in Queues, NEW u \in running'[m], u.resumes
                   PROVE  u \in running[m] /\ u # t
      OBVIOUS
    <3>2. u \in running[m] BY <1>6, <3>1, ResumeKeeps
    <3>3. ~[t EXCEPT !.resumes = FALSE].resumes BY <2>1 DEF Tasks
    <3>4. CASE m = l BY <2>1, <2>2, <3>1, <3>3, <3>4 DEF TypeOK
    <3>5. CASE m # l BY <3>2, <3>5 DEF Numbered
    <3> QED BY <3>2, <3>4, <3>5
  <2>4. \A m \in Queues : \A u \in running[m] : u # t => u \in running'[m]
    BY <2>2 DEF Busy, TypeOK
  <2>5. t \notin pending BY DEF Numbered
  <2>6. Frames(t.queue)' = Frames(t.queue) \ {t}
    BY <2>2, <2>3, <2>4, <2>5, InFrames, InFramesNext
  <2>7. \A r \in Queues : r # t.queue => Frames(r)' = Frames(r)
    BY <2>2, <2>3, <2>4, <2>5, InFrames, InFramesNext
  <2>8. t \in Frames(t.queue) BY <2>1, InFrames
  <2>9. /\ IsFiniteSet(Frames(t.queue)')
        /\ Cardinality(Frames(t.queue)') = Cardinality(Frames(t.queue)) - 1
    BY <2>1, <2>6, <2>8, FS_RemoveElement DEF PauseCounted
  <2>10. \A r \in Queues : Cardinality(Frames(r)) \in Nat
    BY FS_CardinalityType DEF PauseCounted
  <2> QED BY <2>1, <2>2, <2>7, <2>9, <2>10 DEF PauseCounted, TypeOK
<1>7. ASSUME NEW l \in Queues, NEW t \in pending, GetNextTaskToRun(l, t)
      PROVE  PauseCounted'
  <2>1. /\ running[l] = {} /\ running' = [running EXCEPT ![l] = {t}]
        /\ pending' = pending \ {t} /\ UNCHANGED <<paused, posting>>
    BY <1>7 DEF GetNextTaskToRun
  <2>2. \A x : (x \in pending' \/ \E m \in Queues : x \in running'[m])
                <=> (x \in pending \/ \E m \in Queues : x \in running[m])
    BY <2>1 DEF TypeOK
  <2>3. \A r, x : x \in Frames(r)' <=> x \in Frames(r)
    BY <2>2, InFrames, InFramesNext
  <2>4. \A r \in Queues : Frames(r)' = Frames(r) BY <2>3, FramesSame
  <2> QED BY <1>1, <2>1, <2>4
<1>8. ASSUME NEW l \in Queues, NEW t \in running[l], FinishTask(l, t)
      PROVE  PauseCounted'
  <2>1. /\ ~t.resumes /\ running' = [running EXCEPT ![l] = {}]
        /\ UNCHANGED <<pending, paused, posting>>
    BY <1>8 DEF FinishTask
  <2>2. \A u \in running[l] : u = t BY DEF Busy
  <2>3. \A m \in Queues : \A x :
          x.resumes => (x \in running'[m] <=> x \in running[m])
    BY <2>1, <2>2 DEF TypeOK
  <2>4. \A r, x : x \in Frames(r)' <=> x \in Frames(r)
    BY <2>1, <2>3, InFrames, InFramesNext
  <2>5. \A r \in Queues : Frames(r)' = Frames(r) BY <2>4, FramesSame
  <2> QED BY <1>1, <2>1, <2>5
<1> QED
  BY <1>1, <1>2, <1>3, <1>4, <1>5, <1>6, <1>7, <1>8, Steps DEF vars, loopVars,
     OnEventFired, NoTaskToRun, Merge, Unmerge, Tick
-----------------------------------------------------------------------------
(* A new task changes what its loop has to run, and nothing else. *)
LEMMA RegisterWakes ==
  ASSUME IInv, NEW task \in Tasks, RegisterTask(task),
         UNCHANGED <<ownerOf, subsumedBy, paused, awake>>
  PROVE  SleeperWillWake'
<1> USE DEF IInv
<1> DEFINE loop == Root(task.queue)
<1>1. task.queue \in Queues /\ loop \in Queues BY DEF TypeOK, Tasks, Root
<1>2. PICK w \in WakeFor(wake[loop], Pending(loop)') : wake' = [wake EXCEPT ![loop] = w]
  BY DEF RegisterTask
<1>3. SUFFICES ASSUME NEW q \in Queues, ~awake'[q], NEW t \in Pending(q)'
               PROVE  wake'[q] <= t.time
  BY DEF SleeperWillWake
<1>4. CASE q = loop
  <2>1. loop' = q BY <1>4 DEF Root
  <2>2. w \in WakeFor(wake[q], Pending(q)') BY <1>2, <1>4, <2>1
  <2>3. w <= t.time BY <1>3, <2>2, WakeForFirst
  <2> QED BY <1>1, <1>2, <1>4, <2>3 DEF TypeOK
<1>5. CASE q # loop
  <2>1. /\ subsumedBy[q] = None /\ t \in pending \cup {task}
        /\ t.secondary => paused[t.queue] = 0
        /\ t.queue = q \/ t.queue \in ownerOf[q]
    BY InPendingNext DEF RegisterTask
  <2>2. t # task
    BY <1>1, <1>5, <2>1, NoneAssumption DEF Root, OneOfThreeStates
  <2>3. t \in Pending(q) BY <2>1, <2>2, InPending
  <2> QED BY <1>2, <1>3, <1>5, <2>3 DEF SleeperWillWake, TypeOK
<1> QED BY <1>4, <1>5

LEMMA WakeStep == ASSUME IInv, [Next]_vars PROVE SleeperWillWake'
<1> USE DEF IInv
<1>1. ASSUME UNCHANGED <<ownerOf, subsumedBy, pending, paused, wake, awake>>
      PROVE  SleeperWillWake'
  BY <1>1, InPending, InPendingNext DEF SleeperWillWake
<1>2. ASSUME NEW q \in Queues, NEW time \in Times, NEW s \in BOOLEAN, PostTask(q, time, s)
      PROVE  SleeperWillWake'
  <2>1. [queue |-> q, order |-> order, time |-> time, secondary |-> s,
         resumes |-> FALSE] \in Tasks BY DEF Tasks, TypeOK
  <2> QED BY <1>2, <2>1, RegisterWakes DEF PostTask, loopVars
<1>3. ASSUME NEW q \in Queues, PauseSecondarySource(q) PROVE SleeperWillWake'
  <2>1. /\ paused' = [paused EXCEPT ![q] = @ + 1]
        /\ UNCHANGED <<ownerOf, subsumedBy, pending, wake, awake>>
    BY <1>3 DEF PauseSecondarySource, loopVars
  <2>2. \A r \in Queues : paused'[r] = 0 => paused[r] = 0 BY <2>1 DEF TypeOK
  <2>3. \A l \in Queues : \A t \in Pending(l)' : t \in Pending(l)
    <3>1. SUFFICES ASSUME NEW l \in Queues, NEW t \in Pending(l)' PROVE t \in Pending(l)
      OBVIOUS
    <3>2. t \in pending /\ t.queue \in Queues BY <2>1, InPendingNext DEF TypeOK, Tasks
    <3> QED BY <2>1, <2>2, <3>2, InPending, InPendingNext
  <2> QED BY <2>1, <2>3 DEF SleeperWillWake
<1>4. ASSUME NEW q \in Queues, PostFrame(q) PROVE SleeperWillWake'
  <2>1. [queue |-> q, order |-> order, time |-> now, secondary |-> FALSE,
         resumes |-> TRUE] \in Tasks BY DEF Tasks, TypeOK
  <2> QED BY <1>4, <2>1, RegisterWakes DEF PostFrame, loopVars
<1>5. ASSUME NEW l \in Queues, NEW t \in running[l], ResumeSecondarySource(l, t)
      PROVE  SleeperWillWake'
  <2> DEFINE q == t.queue
  <2>1. q \in Queues /\ t.resumes BY <1>5 DEF TypeOK, Tasks, ResumeSecondarySource
  <2>2. /\ paused' = [paused EXCEPT ![q] = @ - 1]
        /\ UNCHANGED <<ownerOf, subsumedBy, pending, awake>>
    BY <1>5 DEF ResumeSecondarySource
  <2>3. PICK w \in WakeFor(wake[q], Pending(q)') : wake' = [wake EXCEPT ![q] = w]
    BY <1>5 DEF ResumeSecondarySource
  <2>4. SUFFICES ASSUME NEW r \in Queues, ~awake'[r], NEW u \in Pending(r)'
                 PROVE  wake'[r] <= u.time
    BY DEF SleeperWillWake
  <2>5. CASE r = q BY <2>1, <2>3, <2>5, WakeForFirst DEF TypeOK
  <2>6. CASE r # q /\ u.queue = q
    <3>1. q \in ownerOf[r] BY <2>2, <2>6, InPendingNext
    <3>2. subsumedBy[q] = r BY <2>1, <3>1 DEF OneOfThreeStates
    <3>3. <<r, q>> \in Mergeable BY <2>1, <3>2, NoneAssumption DEF AsPlanned
    <3>4. l # q /\ <<l, q>> \in Mergeable
      BY <2>1, <3>2, NoneAssumption DEF FramesAtHome
    <3>5. <<l, q>>[2] = <<r, q>>[2] /\ <<l, q>>[1] = l /\ <<r, q>>[1] = r OBVIOUS
    <3>6. l = r BY <3>3, <3>4, <3>5, OwnerAssumption
    <3>7. awake[l] BY DEF Busy
    <3> QED BY <2>2, <2>4, <3>6, <3>7
  <2>7. CASE r # q /\ u.queue # q
    <3>1. u \in pending BY <2>2, InPendingNext
    <3>2. u.queue \in Queues /\ paused'[u.queue] = paused[u.queue]
      BY <2>2, <2>7, <3>1 DEF TypeOK, Tasks
    <3>3. u \in Pending(r) BY <2>2, <3>2, InPending, InPendingNext
    <3> QED BY <2>2, <2>3, <2>4, <2>7, <3>3 DEF SleeperWillWake, TypeOK
  <2> QED BY <2>5, <2>6, <2>7
<1>6. ASSUME NEW l \in Queues, OnEventFired(l) PROVE SleeperWillWake'
  BY <1>6, InPending, InPendingNext DEF OnEventFired, SleeperWillWake, TypeOK
<1>7. ASSUME NEW l \in Queues, NoTaskToRun(l) PROVE SleeperWillWake'
  <2>1. PICK w \in WakeFor(wake[l], Pending(l)) : wake' = [wake EXCEPT ![l] = w]
    BY <1>7 DEF NoTaskToRun
  <2>2. /\ awake' = [awake EXCEPT ![l] = FALSE]
        /\ UNCHANGED <<ownerOf, subsumedBy, pending, paused>>
    BY <1>7 DEF NoTaskToRun
  <2>3. SUFFICES ASSUME NEW r \in Queues, ~awake'[r], NEW u \in Pending(r)'
                 PROVE  wake'[r] <= u.time
    BY DEF SleeperWillWake
  <2>4. u \in Pending(r) BY <2>2, InPending, InPendingNext
  <2>5. CASE r = l BY <2>1, <2>4, <2>5, WakeForFirst DEF TypeOK
  <2>6. CASE r # l BY <2>1, <2>2, <2>3, <2>4, <2>6 DEF SleeperWillWake, TypeOK
  <2> QED BY <2>5, <2>6
<1>8. ASSUME NEW l \in Queues, NEW t \in pending, GetNextTaskToRun(l, t)
      PROVE  SleeperWillWake'
  <2>1. /\ awake[l] /\ wake' = [wake EXCEPT ![l] = t.time] /\ pending' = pending \ {t}
        /\ UNCHANGED <<ownerOf, subsumedBy, paused, awake>>
    BY <1>8 DEF GetNextTaskToRun
  <2> QED BY <2>1, InPending, InPendingNext DEF SleeperWillWake, TypeOK
<1>9. ASSUME NEW o \in Queues, NEW s \in Queues, Merge(o, s) PROVE SleeperWillWake'
  <2>1. PICK w \in WakeFor(wake[o], Pending(o)') : wake' = [wake EXCEPT ![o] = w]
    BY <1>9 DEF Merge
  <2>2. /\ ownerOf' = [ownerOf EXCEPT ![o] = @ \cup {s}]
        /\ subsumedBy' = [subsumedBy EXCEPT ![s] = o]
        /\ UNCHANGED <<pending, paused, awake>>
    BY <1>9 DEF Merge
  <2>3. SUFFICES ASSUME NEW r \in Queues, ~awake'[r], NEW u \in Pending(r)'
                 PROVE  wake'[r] <= u.time
    BY DEF SleeperWillWake
  <2>4. CASE r = o BY <2>1, <2>3, <2>4, WakeForFirst DEF TypeOK
  <2>5. CASE r # o
    <3>1. r # s BY <2>2, NoneAssumption, InPendingNext DEF TypeOK
    <3>2. u \in Pending(r) BY <2>2, <2>5, <3>1, InPending, InPendingNext DEF TypeOK
    <3> QED BY <2>1, <2>2, <2>3, <2>5, <3>2 DEF SleeperWillWake, TypeOK
  <2> QED BY <2>4, <2>5
<1>10. ASSUME NEW o \in Queues, NEW s \in Queues, Unmerge(o, s) PROVE SleeperWillWake'
  <2>1. PICK w \in WakeFor(wake[o], Pending(o)'), v \in WakeFor(wake[s], Pending(s)') :
          wake' = [wake EXCEPT ![o] = w, ![s] = v]
    BY <1>10 DEF Unmerge, WakeBoth
  <2>2. /\ ownerOf' = [ownerOf EXCEPT ![o] = @ \ {s}] /\ o # s
        /\ subsumedBy' = [subsumedBy EXCEPT ![s] = None]
        /\ UNCHANGED <<pending, paused, awake>>
    BY <1>10 DEF Unmerge
  <2>3. SUFFICES ASSUME NEW r \in Queues, ~awake'[r], NEW u \in Pending(r)'
                 PROVE  wake'[r] <= u.time
    BY DEF SleeperWillWake
  <2>4. CASE r = o BY <2>1, <2>2, <2>3, <2>4, WakeForFirst DEF TypeOK
  <2>5. CASE r = s BY <2>1, <2>2, <2>3, <2>5, WakeForFirst DEF TypeOK
  <2>6. CASE r # o /\ r # s
    <3>1. u \in Pending(r) BY <2>2, <2>6, InPending, InPendingNext DEF TypeOK
    <3> QED BY <2>1, <2>2, <2>3, <2>6, <3>1 DEF SleeperWillWake, TypeOK
  <2> QED BY <2>4, <2>5, <2>6
<1> QED
  BY <1>1, <1>2, <1>3, <1>4, <1>5, <1>6, <1>7, <1>8, <1>9, <1>10, Steps
  DEF vars, loopVars, FinishTask, Tick
-----------------------------------------------------------------------------
LEMMA Inductive == Spec => []IInv
<1>1. IInv /\ [Next]_vars => IInv'
  BY TypeStep, StatesStep, BusyStep, DisplacedStep, HomeStep, NumberedStep,
     PauseStep, WakeStep DEF IInv
<1> QED BY Initially, <1>1, PTL DEF Spec

(* Every reachable state is well typed; the source is never resumed more often
   than it was paused. *)
THEOREM TypeCorrect == Spec => []TypeOK
<1>1. IInv => TypeOK BY DEF IInv
<1> QED BY Inductive, <1>1, PTL

(* A queue owns, is subsumed or is independent, and both records agree. *)
THEOREM QueuesAgree == Spec => []OneOfThreeStates
<1>1. IInv => OneOfThreeStates BY DEF IInv
<1> QED BY Inductive, <1>1, PTL

(* No loop sleeps past a task it has to run. *)
THEOREM NoLostWakeUp == Spec => []SleeperWillWake
<1>1. IInv => SleeperWillWake BY DEF IInv
<1> QED BY Inductive, <1>1, PTL

(* Tasks of one queue overlap only across a merge of their own making. *)
THEOREM OverlapOnlyBySwitch == Spec => []OneAtATime
<1>1. ASSUME IInv PROVE OneAtATime
  <2>1. SUFFICES ASSUME NEW l \in Queues, NEW m \in Queues, NEW t \in running[l],
                        NEW u \in running[m], l # m, t.queue = u.queue
                 PROVE  t.queue \in switched[l] \cup switched[m]
    BY DEF OneAtATime
  <2>2. Root(t.queue) # l \/ Root(u.queue) # m BY <2>1
  <2> QED BY <1>1, <2>1, <2>2 DEF IInv, Displaced
<1> QED BY Inductive, <1>1, PTL

(* No task of the Dart event loop is started while a frame is outstanding. *)
THEOREM DartTasksWait == Spec => FramesFirst
<1>1. ASSUME IInv, [Next]_vars
      PROVE  [\A t \in pending \ pending' : t.secondary =>
                /\ t.queue \notin posting
                /\ \A u \in pending \cup UNION {running[l] : l \in Queues} :
                     u.resumes => u.queue # t.queue]_vars
  <2>1. SUFFICES ASSUME NEW t \in pending \ pending', t.secondary
                 PROVE  /\ t.queue \notin posting
                        /\ \A u \in pending \cup UNION {running[l] : l \in Queues} :
                             u.resumes => u.queue # t.queue
    OBVIOUS
  <2>2. PICK l \in Queues : \E x \in pending : x = t /\ GetNextTaskToRun(l, x)
    <3>1. ASSUME pending \subseteq pending' PROVE FALSE BY <2>1, <3>1
    <3>2. ASSUME NEW l \in Queues, NEW x \in pending, GetNextTaskToRun(l, x) PROVE x = t
      BY <2>1, <3>2 DEF GetNextTaskToRun
    <3>3. TypeOK BY <1>1 DEF IInv
    <3> QED
      BY <1>1, <3>1, <3>2, <3>3, Steps DEF vars, loopVars, PostTask, RegisterTask,
         PauseSecondarySource, PostFrame, ResumeSecondarySource, OnEventFired,
         NoTaskToRun, FinishTask, Merge, Unmerge, Tick
  <2>3. t \in Pending(l) BY <2>2 DEF GetNextTaskToRun, Top
  <2>4. t.queue \in Queues /\ paused[t.queue] = 0
    BY <1>1, <2>1, <2>3, InPending DEF IInv, TypeOK, Tasks
  <2>5. Cardinality(Frames(t.queue)) \in Nat /\ IsFiniteSet(Frames(t.queue))
    BY <1>1, <2>4, FS_CardinalityType DEF IInv, PauseCounted
  <2>6. t.queue \notin posting /\ Cardinality(Frames(t.queue)) = 0
    BY <1>1, <2>4, <2>5 DEF IInv, PauseCounted
  <2>7. Frames(t.queue) = {} BY <2>5, <2>6, FS_EmptySet
  <2> QED BY <2>6, <2>7 DEF Frames
<1> QED BY Inductive, <1>1, PTL DEF Spec, FramesFirst
=============================================================================
