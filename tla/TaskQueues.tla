----------------------------- MODULE TaskQueues -----------------------------
(***************************************************************************)
(* MessageLoopTaskQueues (fml): the task queues of all message loops of    *)
(* the engine, behind one mutex, with the loops that run them.  A queue    *)
(* can be subsumed by another one: its tasks then run on the thread of     *)
(* its owner, whose loop must be woken for them.  The platform queue owns  *)
(* the raster queue while there are platform views and, with the merged    *)
(* platform and UI thread, the UI queue.                                   *)
(*                                                                         *)
(* What a thread does under the mutex is one action.  A loop is Android's: *)
(* one timer, armed for one time, and every due task run when it fires.    *)
(***************************************************************************)
EXTENDS Integers, FiniteSets

CONSTANTS
  Queues,     \* TaskQueueIds, one per message loop
  DartQueues, \* those of UI task runners, with Dart tasks and vsyncs
  Mergeable,  \* pairs <<owner, subsumed>> somebody merges
  None,       \* kUnmerged
  MaxTasks,   \* bound: tasks registered
  MaxTime,    \* bound: ticks of the clock
  MaxFrames   \* bound: vsyncs that pause the secondary source

ASSUME DartAssumption == DartQueues \subseteq Queues
ASSUME MergeableAssumption == Mergeable \subseteq Queues \X Queues
(* Only ever one queue subsumes a given one: the engine merges into the
   platform queue (engine.cc:284, shared_thread_merger.cc:28). *)
ASSUME OwnerAssumption ==
  \A p, r \in Mergeable : p[2] = r[2] => p[1] = r[1]
ASSUME NoneAssumption == None \notin Queues
ASSUME TaskBoundsAssumption == MaxTasks \in Nat /\ MaxTime \in Nat /\ MaxFrames \in Nat

VARIABLES
  ownerOf,     \* TaskQueueEntry::owner_of
  subsumedBy,  \* TaskQueueEntry::subsumed_by
  pending,     \* tasks of all task sources, primary and secondary
  paused,      \* secondary_pause_requests_
  order,       \* order_
  now,         \* the clock
  wake,        \* what a loop's timer is armed for
  awake,       \* FlushTasks is under way
  from,        \* its now, 0 once it is done
  running,     \* the task it runs, in a set of at most one
  posting,     \* a vsync has paused the source and not yet posted its frame
  frames,      \* vsyncs so far
  switched     \* history: queues the running task of a loop merged or unmerged

loopVars == <<awake, from, running, switched>>
vars == <<ownerOf, subsumedBy, pending, paused, order, now, wake, loopVars,
          posting, frames>>

Times == 0 .. MaxTime
Never == MaxTime + 1  \* TimePoint::Max()

(* resumes: the task of a vsync, which resumes the secondary source. *)
Tasks == [queue : Queues, order : Nat, time : Times, secondary : BOOLEAN,
          resumes : BOOLEAN]

TypeOK ==
  /\ ownerOf \in [Queues -> SUBSET Queues]
  /\ subsumedBy \in [Queues -> Queues \cup {None}]
  /\ pending \in SUBSET Tasks
  /\ paused \in [Queues -> Nat]
  /\ order \in Nat /\ now \in Times /\ frames \in Nat
  /\ wake \in [Queues -> Times \cup {Never}]
  /\ awake \in [Queues -> BOOLEAN] /\ from \in [Queues -> Times]
  /\ running \in [Queues -> SUBSET Tasks]
  /\ posting \in SUBSET Queues
  /\ switched \in [Queues -> SUBSET Queues]

Init ==
  /\ ownerOf = [q \in Queues |-> {}] /\ subsumedBy = [q \in Queues |-> None]
  /\ pending = {} /\ paused = [q \in Queues |-> 0]
  /\ order = 0 /\ now = 0 /\ frames = 0 /\ posting = {}
  /\ wake = [q \in Queues |-> Never]
  /\ awake = [q \in Queues |-> FALSE] /\ from = [q \in Queues |-> 0]
  /\ running = [q \in Queues |-> {}] /\ switched = [q \in Queues |-> {}]

-----------------------------------------------------------------------------
(* The loop that runs the tasks of q. *)
Root(q) == IF subsumedBy[q] = None THEN q ELSE subsumedBy[q]

(* Tasks of a source, without the secondary ones while it is paused. *)
Source(q) == {t \in pending : t.queue = q /\ (t.secondary => paused[q] = 0)}

(* Mutant: a subsumed queue still has its tasks. *)
SharedTasks(q) == UNION {Source(r) : r \in {q} \cup ownerOf[q]}

(* What HasPendingTasks and PeekNextTask look at. *)
Pending(q) == IF subsumedBy[q] # None THEN {}
              ELSE UNION {Source(r) : r \in {q} \cup ownerOf[q]}

Before(t, u) == t.time < u.time \/ (t.time = u.time /\ t.order < u.order)
Top(t, S) == t \in S /\ \A u \in S : u = t \/ Before(t, u)

(* What a timer is armed for after WakeUp, if there are tasks S to wake for. *)
WakeFor(old, S) ==
  IF S = {} THEN {old}
  ELSE {t.time : t \in {u \in S : \A v \in S : u.time <= v.time}}
-----------------------------------------------------------------------------
(* Mutant: the loop of the queue itself is woken. *)
WakeItself(task) ==
  /\ order' = order + 1
  /\ pending' = pending \cup {task}
  /\ \E w \in WakeFor(wake[task.queue], Pending(task.queue)') :
       wake' = [wake EXCEPT ![task.queue] = w]

RegisterTask(task) ==
  /\ order' = order + 1
  /\ pending' = pending \cup {task}
  /\ LET loop == Root(task.queue) IN
       \E w \in WakeFor(wake[loop], Pending(loop)') :
         wake' = [wake EXCEPT ![loop] = w]

(* bound: tasks registered and about to be. *)
Room == order + Cardinality(posting) < MaxTasks

(* PostTask, PostDelayedTask and the tasks of the Dart event loop. *)
PostTask(q, time, secondary) ==
  /\ Room
  /\ UNCHANGED <<ownerOf, subsumedBy, paused, now, loopVars, posting, frames>>
  /\ RegisterTask([queue |-> q, order |-> order, time |-> time,
                   secondary |-> secondary, resumes |-> FALSE])

(* FireCallback of a vsync pauses the source, then posts the frame. *)
PauseSecondarySource(q) ==
  /\ q \notin posting /\ frames < MaxFrames /\ Room
  /\ frames' = frames + 1 /\ posting' = posting \cup {q}
  /\ paused' = [paused EXCEPT ![q] = @ + 1]
  /\ UNCHANGED <<ownerOf, subsumedBy, pending, order, now, wake, loopVars>>

PostFrame(q) ==
  /\ q \in posting /\ posting' = posting \ {q}
  /\ UNCHANGED <<ownerOf, subsumedBy, paused, now, loopVars, frames>>
  /\ RegisterTask([queue |-> q, order |-> order, time |-> now,
                   secondary |-> FALSE, resumes |-> TRUE])

(* Mutant: one frame ends the pause for all. *)
ResumeAll(loop, t) ==
  /\ t.resumes
  /\ running' = [running EXCEPT ![loop] = {[t EXCEPT !.resumes = FALSE]}]
  /\ paused' = [paused EXCEPT ![t.queue] = 0]
  /\ UNCHANGED <<ownerOf, subsumedBy, pending, order, now, awake, from,
                 switched, posting, frames>>
  /\ \E w \in WakeFor(wake[t.queue], Pending(t.queue)') :
       wake' = [wake EXCEPT ![t.queue] = w]

(* The frame t is done.  Only the queue itself is woken, never its owner. *)
ResumeSecondarySource(loop, t) ==
  /\ t.resumes
  /\ running' = [running EXCEPT ![loop] = {[t EXCEPT !.resumes = FALSE]}]
  /\ paused' = [paused EXCEPT ![t.queue] = @ - 1]
  /\ UNCHANGED <<ownerOf, subsumedBy, pending, order, now, awake, from,
                 switched, posting, frames>>
  /\ \E w \in WakeFor(wake[t.queue], Pending(t.queue)') :
       wake' = [wake EXCEPT ![t.queue] = w]
-----------------------------------------------------------------------------
(* The timer fires: it is drained, and FlushTasks reads the clock. *)
OnEventFired(loop) ==
  /\ ~awake[loop] /\ wake[loop] <= now
  /\ wake' = [wake EXCEPT ![loop] = Never]
  /\ awake' = [awake EXCEPT ![loop] = TRUE]
  /\ from' = [from EXCEPT ![loop] = now]
  /\ UNCHANGED <<ownerOf, subsumedBy, pending, paused, order, now, running,
                 switched, posting, frames>>

(* GetNextTaskToRun of the loop, a task due. *)
GetNextTaskToRun(loop, t) ==
  /\ awake[loop] /\ running[loop] = {}
  /\ Top(t, Pending(loop)) /\ t.time <= from[loop]
  /\ wake' = [wake EXCEPT ![loop] = t.time]
  /\ pending' = pending \ {t}
  /\ running' = [running EXCEPT ![loop] = {t}]
  /\ UNCHANGED <<ownerOf, subsumedBy, paused, order, now, awake, from, switched,
                 posting, frames>>

(* GetNextTaskToRun of the loop, no task due: it sleeps. *)
NoTaskToRun(loop) ==
  /\ awake[loop] /\ running[loop] = {}
  /\ \A t \in Pending(loop) : t.time > from[loop]
  /\ \E w \in WakeFor(wake[loop], Pending(loop)) :
       wake' = [wake EXCEPT ![loop] = w]
  /\ awake' = [awake EXCEPT ![loop] = FALSE] /\ from' = [from EXCEPT ![loop] = 0]
  /\ UNCHANGED <<ownerOf, subsumedBy, pending, paused, order, now, running,
                 switched, posting, frames>>

FinishTask(loop, t) ==
  /\ ~t.resumes
  /\ running' = [running EXCEPT ![loop] = {}]
  /\ switched' = [switched EXCEPT ![loop] = {}]
  /\ UNCHANGED <<ownerOf, subsumedBy, pending, paused, order, now, wake, awake,
                 from, posting, frames>>
-----------------------------------------------------------------------------
(* Mutant: an owner may be subsumed. *)
MergeAnOwner(owner, subsumed) ==
  /\ owner # subsumed /\ subsumed \notin ownerOf[owner]
  /\ subsumedBy[owner] = None /\ subsumedBy[subsumed] = None

(* The checks of Merge; when one fails nothing is changed. *)
CanMerge(owner, subsumed) ==
  /\ owner # subsumed /\ subsumed \notin ownerOf[owner]
  /\ subsumedBy[owner] = None /\ subsumedBy[subsumed] = None
  /\ ownerOf[subsumed] = {}

(* A task of the queue to be subsumed asks for it: a frame on the raster
   thread, or the launch of an engine on the UI thread, never a vsync. *)
Merge(owner, subsumed) ==
  /\ \E t \in running[subsumed] : t.queue = subsumed /\ ~t.resumes
  /\ CanMerge(owner, subsumed)
  /\ ownerOf' = [ownerOf EXCEPT ![owner] = @ \cup {subsumed}]
  /\ subsumedBy' = [subsumedBy EXCEPT ![subsumed] = owner]
  /\ UNCHANGED <<pending, paused, order, now, awake, from, running, posting, frames>>
  /\ \E w \in WakeFor(wake[owner], Pending(owner)') :
       wake' = [wake EXCEPT ![owner] = w]
  /\ switched' = [switched EXCEPT ![subsumed] = @ \cup {subsumed}]

(* Mutant: the queue that is on its own again is not woken. *)
WakeOwner(owner, subsumed) ==
  \E w \in WakeFor(wake[owner], Pending(owner)') :
    wake' = [wake EXCEPT ![owner] = w]

WakeBoth(owner, subsumed) ==
  \E w \in WakeFor(wake[owner], Pending(owner)') :
  \E v \in WakeFor(wake[subsumed], Pending(subsumed)') :
    wake' = [wake EXCEPT ![owner] = w, ![subsumed] = v]

(* Asked for by a task on the thread of the owner. *)
Unmerge(owner, subsumed) ==
  /\ running[owner] # {}
  /\ subsumedBy[owner] = None /\ subsumedBy[subsumed] # None
  /\ subsumed \in ownerOf[owner]
  /\ subsumedBy' = [subsumedBy EXCEPT ![subsumed] = None]
  /\ ownerOf' = [ownerOf EXCEPT ![owner] = @ \ {subsumed}]
  /\ UNCHANGED <<pending, paused, order, now, awake, from, running, posting, frames>>
  /\ WakeBoth(owner, subsumed)
  /\ switched' = [switched EXCEPT ![owner] = @ \cup {subsumed}]

Tick ==
  /\ now < MaxTime /\ now' = now + 1
  /\ UNCHANGED <<ownerOf, subsumedBy, pending, paused, order, wake, loopVars,
                 posting, frames>>

(* A step of the thread of a loop that is not up to the task it runs. *)
Loop(l) ==
  \/ OnEventFired(l) \/ NoTaskToRun(l)
  \/ \E t \in pending : GetNextTaskToRun(l, t)
  \/ \E t \in running[l] : ResumeSecondarySource(l, t) \/ FinishTask(l, t)

Next ==
  \/ \E q \in Queues, time \in now .. MaxTime : PostTask(q, time, FALSE)
  \/ \E q \in DartQueues, time \in now .. MaxTime : PostTask(q, time, TRUE)
  \/ \E q \in DartQueues : PauseSecondarySource(q) \/ PostFrame(q)
  \/ \E l \in Queues : Loop(l)
  \/ \E p \in Mergeable : Merge(p[1], p[2]) \/ Unmerge(p[1], p[2])
  \/ Tick

(* Threads run, tasks end, the thread of the vsync posts what it was about to
   post, and time passes.  Nobody has to register a task, merge or unmerge. *)
Fairness ==
  /\ \A l \in Queues : WF_vars(Loop(l))
  /\ \A q \in DartQueues : WF_vars(PostFrame(q))
  /\ WF_vars(Tick)

Spec == Init /\ [][Next]_vars /\ Fairness
-----------------------------------------------------------------------------
(* "A TaskQueue can be in exactly one of the following three states": an
   owner, subsumed, or independent (message_loop_task_queues.h:186); and the
   two records of who owns whom agree, whatever is merged with whatever. *)
OneOfThreeStates ==
  \A q \in Queues :
    /\ ownerOf[q] # {} => subsumedBy[q] = None
    /\ \A o \in Queues : q \in ownerOf[o] <=> subsumedBy[q] = o

(* No lost wake-up: a loop that sleeps while it has tasks to run has its timer
   armed, and not for later than the first of them, whatever was merged,
   unmerged, paused and resumed meanwhile, on whichever thread. *)
SleeperWillWake ==
  \A q \in Queues : ~awake[q] => \A t \in Pending(q) : wake[q] <= t.time

(* Tasks of one queue, written for one thread, run one at a time, except that
   one which merges or unmerges its queue overlaps the next ones. *)
OneAtATime ==
  \A l, m \in Queues : \A t \in running[l], u \in running[m] :
    l # m /\ t.queue = u.queue => t.queue \in switched[l] \cup switched[m]

(* While a frame is about to be posted, waits or runs, no task of the Dart
   event loop of its queue is started, however many frames there are. *)
FramesFirst ==
  [][\A t \in pending \ pending' : t.secondary =>
       /\ t.queue \notin posting
       /\ \A u \in pending \cup UNION {running[l] : l \in Queues} :
            u.resumes => u.queue # t.queue]_vars

(* Every task registered is run, on one thread or another: once the last is
   registered (bound: MaxTasks), the sources run empty for good. *)
EveryTaskRuns == <>[](pending = {})
=============================================================================
