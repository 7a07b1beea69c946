---------------------------- MODULE ThreadMerger ----------------------------
(***************************************************************************)
(* How the raster queue is merged into the platform queue while the tree   *)
(* to draw has platform views (RasterThreadMerger, SharedThreadMerger,     *)
(* AndroidExternalViewEmbedder), with the rasterizers that ask for it and  *)
(* the platform calls that must not see the threads change: surfaces come  *)
(* and go, and the latter waits for the raster queue.  Shells spawned from *)
(* one engine share the threads and the shared merger.                     *)
(*                                                                         *)
(* A shell's own merger has a mutex, which its readers hold, and so have   *)
(* the shared merger, which only the writers of leases hold, and the       *)
(* queues.  A step is what a thread does up to the next change that others *)
(* can read; between two steps a thread has the next one in pc, and holds  *)
(* the mutexes that pc stands for.  Which thread runs the raster queue is  *)
(* taken from TaskQueues, and the pipeline from Frames, as far as the      *)
(* draws to come depend on it.                                             *)
(***************************************************************************)
EXTENDS Naturals, Sequences, FiniteSets

CONSTANTS
  Shells,    \* engines on the same threads
  Root,      \* the one the others are spawned from
  Term,      \* kDefaultMergedLeaseDuration
  Depth,     \* of the pipeline of a shell
  Lag,       \* bound: tasks begun while the other thread ends its own
  MaxInputs  \* bound: trees to draw, and surfaces that come or go

ASSUME ShellsAssumption == Root \in Shells
ASSUME TermAssumption == Term \in Nat /\ Term > 1
ASSUME DepthAssumption == Depth \in Nat /\ Depth > 1
(* No lease runs out while the thread that took it ends its draw. *)
ASSUME LagAssumption == Lag \in Nat /\ Lag + 1 < Term
ASSUME InputsAssumption == MaxInputs \in Nat

VARIABLES
  owned,     \* the platform queue owns the raster queue
  enabled,   \* SharedThreadMerger::enabled_
  callers,   \* keys of lease_term_by_caller_
  lease,     \* its values, 0 for no key
  aborted,   \* the FML_CHECK that failed, "none" before
  tasks,     \* the raster queue
  pc,        \* per thread: the step it is about to take
  shell,     \* per thread: for which shell
  retry,     \* per thread: the draw of it is to be retried, with platform views
  more,      \* per thread: its draw is to be followed by another
  redraw,    \* per thread: it draws the last tree again
  merger,    \* shells whose rasterizer has a merger
  surface,   \* shells whose rasterizer has a surface
  view,      \* shells whose platform view has told of its surface
  hadViews,  \* shells: previous_frame_view_count_ > 0
  last,      \* per shell: last_successful_task, with platform views or "plain"
  pipeline,  \* per shell: trees to draw, TRUE for one with platform views
  inputs,    \* such inputs so far, a tree to draw again counted twice
  ahead,     \* history: tasks begun while the other thread has one
  thawed,    \* history: while a platform call waits, the merger was enabled
  yielded    \* history: shells whose latest draw was on the wrong thread

mergerVars == <<owned, enabled, callers, lease, aborted>>
history    == <<inputs, ahead, thawed, yielded>>
threadVars == <<pc, shell, retry, more, redraw>>
shellVars  == <<merger, surface, view, hadViews, last>>
vars == <<mergerVars, tasks, threadVars, shellVars, pipeline, history>>

Threads == {"platform", "raster"}
Tasks   == {"draw", "redraw", "setup", "teardown"} \X Shells

(* Steps of a raster task, and of the calls of the platform view. *)
Drawing == {"draw", "redraw", "preroll", "merge", "merging", "lease", "extend",
            "decrement", "count", "lapse", "finish"}
RasterSteps == Drawing \cup {"setup", "teardown", "unmerge", "last"}
Leaving == {"destroyed", "post", "wait"}

(* Those before which the shared mutex is held, and the shell's own. *)
HoldShared == {"lease", "lapse", "last"}
HoldOwn    == HoldShared \cup {"merging", "count"}

TypeOK ==
  /\ owned \in BOOLEAN /\ enabled \in BOOLEAN
  /\ callers \subseteq Shells /\ lease \in [Shells -> Nat]
  /\ aborted \in {"none", "lease", "unmerge"}
  /\ tasks \in Seq(Tasks)
  /\ pc \in [Threads -> RasterSteps \cup Leaving \cup {"idle", "created"}]
  /\ shell \in [Threads -> Shells]
  /\ retry \in [Threads -> BOOLEAN] /\ more \in [Threads -> BOOLEAN]
  /\ redraw \in [Threads -> BOOLEAN]
  /\ merger \subseteq Shells /\ surface \subseteq Shells
  /\ view \subseteq Shells /\ hadViews \subseteq Shells
  /\ last \in [Shells -> {"none", "plain", "views"}]
  /\ pipeline \in [Shells -> Seq(BOOLEAN)]
  /\ inputs \in Nat /\ ahead \in Nat
  /\ thawed \in BOOLEAN /\ yielded \subseteq Shells

Init ==
  /\ owned = FALSE /\ enabled = TRUE
  /\ callers = {} /\ lease = [s \in Shells |-> 0] /\ aborted = "none"
  /\ tasks = <<>>
  /\ pc = [h \in Threads |-> "idle"]
  /\ shell = [h \in Threads |-> Root]
  /\ retry = [h \in Threads |-> FALSE] /\ more = [h \in Threads |-> FALSE]
  /\ redraw = [h \in Threads |-> FALSE]
  /\ merger = {} /\ surface = {} /\ view = {} /\ hadViews = {}
  /\ last = [s \in Shells |-> "none"] /\ pipeline = [s \in Shells |-> <<>>]
  /\ inputs = 0 /\ ahead = 0 /\ thawed = FALSE /\ yielded = {}

-----------------------------------------------------------------------------
(* IsMerged: by the leases, not by the queues. *)
IsMerged == \E s \in callers : lease[s] > 0

(* IsOnRasterizingThread; a shell without a merger draws anywhere. *)
RightThread(h, s) ==
  s \in merger => h = IF IsMerged THEN "platform" ELSE "raster"

Go(h, step) == pc' = [pc EXCEPT ![h] = step]
At(h, step) == pc[h] = step /\ aborted = "none"

(* The mutex of the merger of s, and that of the shared merger. *)
MutexFree(s) == \A g \in Threads : pc[g] \in HoldOwn => shell[g] # s
SharedFree == \A g \in Threads : pc[g] \notin HoldShared

(* UnMergeNowUnSafe: the queues must be merged. *)
Unmerge ==
  /\ owned' = FALSE
  /\ aborted' = IF owned THEN aborted ELSE "unmerge"

(* The thread whose loop has the raster queue takes its next task. *)
Take(h) ==
  /\ At(h, "idle") /\ tasks # <<>>
  /\ owned <=> (h = "platform")
  /\ LET task == Head(tasks) IN
       Go(h, task[1]) /\ shell' = [shell EXCEPT ![h] = task[2]]
  /\ tasks' = Tail(tasks)
  /\ LET alone == \A g \in Threads \ {h} : pc[g] \notin RasterSteps IN
       /\ alone \/ ahead < Lag
       /\ ahead' = IF alone THEN 0 ELSE ahead + 1
  /\ UNCHANGED <<mergerVars, retry, more, redraw, shellVars, pipeline, inputs, thawed,
                 yielded>>

-----------------------------------------------------------------------------
(* Rasterizer::Draw, on the thread that runs the raster queue. *)
(* It yields on the wrong thread, and ends when the pipeline is empty. *)
DrawNothing(h) == LET s == shell[h] IN
  /\ At(h, "draw") /\ MutexFree(s)
  /\ RightThread(h, s) => pipeline[s] = <<>>
  /\ yielded' = IF RightThread(h, s) THEN yielded ELSE yielded \cup {s}
  /\ Go(h, "idle")
  /\ UNCHANGED <<mergerVars, tasks, shell, retry, more, redraw, shellVars, pipeline,
                 inputs, ahead, thawed>>

(* Consume, and DoDraw up to the prerolled tree.  Without a surface the tree *)
(* is dropped; a tree without platform views counts none for the next one.   *)
DrawTree(h) == LET s == shell[h] IN
  /\ At(h, "draw") /\ MutexFree(s)
  /\ RightThread(h, s) /\ pipeline[s] # <<>>
  /\ pipeline' = [pipeline EXCEPT ![s] = Tail(@)]
  /\ more' = [more EXCEPT ![h] = Len(pipeline[s]) > 1]
  /\ yielded' = yielded \ {s}
  /\ \/ /\ s \notin surface /\ Go(h, "finish")
        /\ UNCHANGED <<hadViews, last>>
     \/ /\ s \in surface /\ ~Head(pipeline[s]) /\ Go(h, "decrement")
        /\ hadViews' = hadViews \ {s} /\ last' = [last EXCEPT ![s] = "plain"]
     \/ /\ s \in surface /\ Head(pipeline[s]) /\ Go(h, "preroll")
        /\ UNCHANGED <<hadViews, last>>
  /\ UNCHANGED <<mergerVars, tasks, shell, retry, redraw, merger, surface, view,
                 inputs, ahead, thawed>>

(* DrawLastLayerTrees, which asks nobody whether this is the right thread:  *)
(* the last tree drawn is taken out, and comes back when it is drawn again. *)
DrawLast(h) == LET s == shell[h] IN
  /\ At(h, "redraw")
  /\ \/ /\ s \notin surface \/ last[s] = "none"
        /\ Go(h, "idle") /\ UNCHANGED <<redraw, hadViews, last>>
     \/ /\ s \in surface /\ last[s] = "plain"
        /\ Go(h, "finish") /\ redraw' = [redraw EXCEPT ![h] = TRUE]
        /\ hadViews' = hadViews \ {s} /\ UNCHANGED last
     \/ /\ s \in surface /\ last[s] = "views"
        /\ Go(h, "preroll") /\ redraw' = [redraw EXCEPT ![h] = TRUE]
        /\ last' = [last EXCEPT ![s] = "none"] /\ UNCHANGED hadViews
  /\ UNCHANGED <<mergerVars, tasks, shell, retry, more, merger, surface, view, pipeline, history>>

(* After the tree: only Draw counts it against the lease. *)
Drawn(h) == IF redraw[h] THEN "finish" ELSE "decrement"

(* PostPrerollAction of a tree with platform views. *)
Preroll(h) ==
  /\ At(h, "preroll") /\ MutexFree(shell[h])
  /\ Go(h, IF IsMerged THEN "extend" ELSE "merge")
  /\ UNCHANGED <<mergerVars, tasks, shell, retry, more, redraw, shellVars, pipeline, history>>

(* RasterThreadMerger::MergeWithLease up to that of the shared merger.  The *)
(* frame is dropped in any case, and retried by Draw.                       *)
MergeWithLease(h) == LET s == shell[h] IN
  /\ At(h, "merge") /\ MutexFree(s)
  /\ Go(h, IF enabled /\ ~IsMerged THEN "merging" ELSE Drawn(h))
  /\ retry' = [retry EXCEPT ![h] = ~redraw[h]]
  /\ hadViews' = hadViews \ {s}
  /\ UNCHANGED <<mergerVars, tasks, shell, more, redraw, merger, surface, view, last, pipeline,
                 history>>

(* SharedThreadMerger::MergeWithLease merges the queues, and then writes the *)
(* lease: no lease for who finds one.                                        *)
SharedMerge(h) ==
  /\ At(h, "merging") /\ SharedFree
  /\ owned' = (owned \/ ~IsMerged)
  /\ Go(h, IF IsMerged THEN Drawn(h) ELSE "lease")
  /\ UNCHANGED <<enabled, callers, lease, aborted, tasks, shell, retry, more, redraw, shellVars,
                 pipeline, history>>

TakeLease(h) == LET s == shell[h] IN
  /\ At(h, "lease")
  /\ callers' = callers \cup {s} /\ lease' = [lease EXCEPT ![s] = Term]
  /\ Go(h, Drawn(h))
  /\ UNCHANGED <<owned, enabled, aborted, tasks, shell, retry, more, redraw, shellVars, pipeline,
                 history>>

(* ExtendLeaseTo; the first frame with views after one without is submitted again. *)
ExtendLease(h) == LET s == shell[h] IN
  /\ At(h, "extend") /\ MutexFree(s) /\ (enabled => SharedFree)
  /\ callers' = IF enabled THEN callers \cup {s} ELSE callers
  /\ lease' = IF enabled THEN [lease EXCEPT ![s] = Term] ELSE lease
  /\ retry' = [retry EXCEPT ![h] = s \notin hadViews /\ ~redraw[h]]
  /\ last' = IF s \in hadViews THEN [last EXCEPT ![s] = "views"] ELSE last
  /\ hadViews' = hadViews \cup {s}
  /\ Go(h, Drawn(h))
  /\ UNCHANGED <<owned, enabled, aborted, tasks, shell, more, redraw, merger, surface, view,
                 pipeline, history>>

(* Whether a draw counts against the lease, and the lease that should not be 0. *)
(* Mutant: nobody asks whether the threads are merged. *)
Counts_Always == enabled
Counts == IsMerged /\ enabled
Lapsed(s) == s \in callers /\ lease[s] = 0

(* RasterThreadMerger::DecrementLease up to that of the shared merger. *)
DecrementLease(h) ==
  /\ At(h, "decrement") /\ MutexFree(shell[h])
  /\ Go(h, IF Counts THEN "count" ELSE "finish")
  /\ UNCHANGED <<mergerVars, tasks, shell, retry, more, redraw, shellVars, pipeline, history>>

(* SharedThreadMerger::DecrementLease counts, and then unmerges the queues. *)
SharedDecrement(h) == LET s == shell[h] IN
  /\ At(h, "count") /\ SharedFree
  /\ aborted' = IF Lapsed(s) THEN "lease" ELSE aborted
  /\ lease' = IF s \in callers /\ ~Lapsed(s) THEN [lease EXCEPT ![s] = @ - 1] ELSE lease
  /\ Go(h, IF \A t \in callers : lease'[t] = 0 THEN "lapse" ELSE "finish")
  /\ UNCHANGED <<owned, enabled, callers, tasks, shell, retry, more, redraw, shellVars, pipeline,
                 history>>

(* Who unmerges has another draw posted, on the raster thread by now, unless *)
(* its tree is to be retried.                                                *)
UnmergeLapsed(h) ==
  /\ At(h, "lapse")
  /\ Unmerge /\ more' = [more EXCEPT ![h] = @ \/ ~retry[h]]
  /\ Go(h, "finish")
  /\ UNCHANGED <<enabled, callers, lease, tasks, shell, retry, redraw, shellVars, pipeline,
                 history>>

(* Mutant: a tree put back is left to the next one built. *)
Again_NotForRetry(h, back) == more[h]
Again(h, back) == back \/ more[h]

(* The end of Draw: a tree to retry goes back if the pipeline is empty, and *)
(* is dropped otherwise; another draw is posted if there is more to draw.   *)
FinishDraw(h) == LET s == shell[h] IN
  LET back == retry[h] /\ pipeline[s] = <<>> IN
  /\ At(h, "finish")
  /\ pipeline' = IF back THEN [pipeline EXCEPT ![s] = <<TRUE>>] ELSE pipeline
  /\ tasks' = IF Again(h, back) THEN Append(tasks, <<"draw", s>>) ELSE tasks
  /\ retry' = [retry EXCEPT ![h] = FALSE] /\ more' = [more EXCEPT ![h] = FALSE]
  /\ redraw' = [redraw EXCEPT ![h] = FALSE]
  /\ Go(h, "idle")
  /\ UNCHANGED <<mergerVars, shell, shellVars, history>>

-----------------------------------------------------------------------------
(* The raster tasks of Shell::OnPlatformViewCreated and ...Destroyed.  Every *)
(* shell joins the shared merger of the one it was spawned from.             *)
Setup(h) == LET s == shell[h] IN
  /\ At(h, "setup") /\ MutexFree(s)
  /\ enabled' = (enabled \/ s \in merger)
  /\ thawed' = (thawed \/ (s \in merger /\ pc["platform"] \in Leaving))
  /\ surface' = surface \cup {s} /\ merger' = merger \cup {s}
  /\ Go(h, "idle")
  /\ UNCHANGED <<owned, callers, lease, aborted, tasks, shell, retry, more, redraw, view,
                 hadViews, last, pipeline, inputs, ahead, yielded>>

(* The thread is done with a teardown, which the platform thread waits for. *)
TornDown(h) ==
  pc' = [g \in Threads |-> IF g = h \/ pc[g] = "wait" THEN "idle" ELSE pc[g]]

MustUnmerge(s) == s \in merger /\ IsMerged

Teardown(h) == LET s == shell[h] IN
  /\ At(h, "teardown") /\ MutexFree(s)
  /\ enabled' = (enabled \/ s \in merger)
  /\ surface' = surface \ {s} /\ last' = [last EXCEPT ![s] = "none"]
  /\ IF MustUnmerge(s) THEN Go(h, "unmerge") ELSE TornDown(h)
  /\ UNCHANGED <<owned, callers, lease, aborted, tasks, shell, retry, more, redraw, merger, view,
                 hadViews, pipeline, history>>

(* UnMergeNowIfLastOne: not while another shell holds a lease. *)
(* Mutant: who leaves unmerges. *)
LastOne_Always(s) == enabled
LastOne(s) == enabled /\ \A t \in callers \ {s} : lease[t] = 0
UnmergeIfLast(h) == LET s == shell[h] IN
  /\ At(h, "unmerge") /\ MutexFree(s) /\ (enabled => SharedFree)
  /\ callers' = IF enabled THEN callers \ {s} ELSE callers
  /\ lease' = IF enabled THEN [lease EXCEPT ![s] = 0] ELSE lease
  /\ IF LastOne(s) THEN Go(h, "last") ELSE TornDown(h)
  /\ UNCHANGED <<owned, enabled, aborted, tasks, shell, retry, more, redraw, shellVars, pipeline,
                 history>>

UnmergeLast(h) ==
  /\ At(h, "last")
  /\ Unmerge /\ TornDown(h)
  /\ UNCHANGED <<enabled, callers, lease, tasks, shell, retry, more, redraw, shellVars, pipeline,
                 history>>

-----------------------------------------------------------------------------
(* OnPlatformViewCreated and OnPlatformViewDestroyed, on the platform thread *)
(* between its tasks: Disable, which does nothing when it has no merger yet. *)
Merging == \E h \in Threads : pc[h] = "merging"
(* Mutant: the merger is left enabled. *)
StaysEnabled_Always(s) == enabled
StaysEnabled(s) == enabled /\ s \notin merger

(* A shell is spawned from one that has a merger. *)
Spawned(s) == s = Root \/ Root \in merger

Call(s, step) ==
  /\ At("platform", "idle") /\ MutexFree(s)
  /\ inputs < MaxInputs /\ inputs' = inputs + 1
  /\ enabled' = StaysEnabled(s)
  /\ Go("platform", step)
  /\ shell' = [shell EXCEPT !["platform"] = s]
  /\ UNCHANGED <<owned, callers, lease, aborted, tasks, retry, more, redraw, merger, surface,
                 hadViews, last, pipeline, ahead, yielded>>

PlatformViewCreated(s) ==
  /\ Spawned(s) /\ s \notin view /\ view' = view \cup {s}
  /\ UNCHANGED thawed /\ Call(s, "created")

(* What may still merge while the call goes on is recorded in thawed. *)
PlatformViewDestroyed(s) ==
  /\ s \in view /\ view' = view \ {s}
  /\ thawed' = (s \notin merger \/ Merging)
  /\ Call(s, "destroyed")

(* should_post_raster_task: the set-up runs here if this thread has the raster *)
(* queue, and is posted, without waiting for it, otherwise.                    *)
RunOrPostSetup == LET s == shell["platform"] IN
  /\ At("platform", "created")
  /\ Go("platform", IF owned THEN "setup" ELSE "idle")
  /\ tasks' = IF owned THEN tasks ELSE Append(tasks, <<"setup", s>>)
  /\ UNCHANGED <<mergerVars, shell, retry, more, redraw, shellVars, pipeline, history>>

(* RunNowOrPostTask for the teardown: the question, and the post. *)
(* Mutant: it runs here in any case. *)
RunTeardown_Here ==
  /\ At("platform", "destroyed")
  /\ Go("platform", "teardown")
  /\ UNCHANGED <<mergerVars, tasks, shell, retry, more, redraw, shellVars, pipeline, history>>

RunTeardown ==
  /\ At("platform", "destroyed")
  /\ Go("platform", IF owned THEN "teardown" ELSE "post")
  /\ UNCHANGED <<mergerVars, tasks, shell, retry, more, redraw, shellVars, pipeline, history>>

PostTeardown ==
  /\ At("platform", "post")
  /\ Go("platform", "wait")
  /\ tasks' = Append(tasks, <<"teardown", shell["platform"]>>)
  /\ UNCHANGED <<mergerVars, shell, retry, more, redraw, shellVars, pipeline, history>>

(* The animator of s produces a tree; the first in the pipeline posts a draw. *)
Build(s) ==
  /\ aborted = "none" /\ Spawned(s)
  /\ inputs < MaxInputs /\ inputs' = inputs + 1
  /\ Len(pipeline[s]) < Depth
  /\ \E views \in BOOLEAN : pipeline' = [pipeline EXCEPT ![s] = Append(@, views)]
  /\ tasks' = IF pipeline[s] = <<>> THEN Append(tasks, <<"draw", s>>) ELSE tasks
  /\ UNCHANGED <<mergerVars, threadVars, shellVars, ahead, thawed, yielded>>

(* OnAnimatorDrawLastLayerTrees: a frame for which no tree is built. *)
Redraw(s) ==
  /\ aborted = "none" /\ Spawned(s)
  /\ inputs + 2 <= MaxInputs /\ inputs' = inputs + 2
  /\ tasks' = Append(tasks, <<"redraw", s>>)
  /\ UNCHANGED <<mergerVars, threadVars, shellVars, pipeline, ahead, thawed, yielded>>

-----------------------------------------------------------------------------
RunRaster(h) ==
  \/ Take(h) \/ DrawNothing(h) \/ DrawTree(h) \/ DrawLast(h) \/ Preroll(h)
  \/ MergeWithLease(h) \/ SharedMerge(h) \/ TakeLease(h) \/ ExtendLease(h)
  \/ DecrementLease(h) \/ SharedDecrement(h) \/ UnmergeLapsed(h) \/ FinishDraw(h)
  \/ Setup(h) \/ Teardown(h) \/ UnmergeIfLast(h) \/ UnmergeLast(h)
FinishCall == RunOrPostSetup \/ RunTeardown \/ PostTeardown
PlatformCall(s) == PlatformViewCreated(s) \/ PlatformViewDestroyed(s)

Next ==
  \/ \E h \in Threads : RunRaster(h)
  \/ FinishCall
  \/ \E s \in Shells : PlatformCall(s) \/ Build(s) \/ Redraw(s)

(* Both threads go on with what they have begun, and run what is posted. *)
Fairness == /\ \A h \in Threads : WF_vars(RunRaster(h))
            /\ WF_vars(FinishCall)
Spec == Init /\ [][Next]_vars /\ Fairness

-----------------------------------------------------------------------------
(* The two records of the merge, in the queues and in the leases, differ only *)
(* while a thread is between the two, with the shared mutex held that the     *)
(* readers of the leases do not take: the queues are merged then already, or  *)
(* still, and no lease says so (SharedThreadMerger, MessageLoopTaskQueues).   *)
MergedByLease ==
  aborted = "none" =>
    /\ IsMerged => owned
    /\ owned => IsMerged \/ ~SharedFree

(* The FML_CHECK on Unmerge only fails under a draw whose own lease the      *)
(* teardown of its surface has taken away before it could count against it.  *)
UnmergeNeedsTeardown ==
  aborted = "unmerge" =>
    \E h \in Threads : pc[h] = "finish" /\ shell[h] \notin callers

(* A lease only runs out under its owner (the FML_CHECK of DecrementLease)   *)
(* when another shell keeps the threads merged: an engine by itself never    *)
(* aborts there.                                                             *)
AbortNeedsOther ==
  aborted = "lease" => \E s, t \in callers : lease[s] = 0 /\ lease[t] > 0

(* Rasterizer::Draw finds itself on the wrong thread, and leaves its tree,  *)
(* only between the merge of the queues for another shell and its lease: no *)
(* draw is left behind on the other thread by a merge or an unmerge.        *)
OnRightThread ==
  \A h \in Threads :
    pc[h] = "draw" /\ MutexFree(shell[h]) /\ ~RightThread(h, shell[h]) =>
      \E g \in Threads : pc[g] = "lease" /\ shell[g] # shell[h]

(* A thread without the raster queue is at most at the end of the draw that  *)
(* gave it away, from the merge of the queues on: two raster tasks never     *)
(* overlap but for that end of one.                                          *)
OverlapOnlyAtTheEnd ==
  \A h \in Threads :
    /\ aborted = "none" /\ pc[h] \in RasterSteps
    /\ ~(owned <=> (h = "platform"))
    => pc[h] \in {"lease", "decrement", "count", "finish"}

(* OnPlatformViewDestroyed waits for a task its own thread would have to run *)
(* only if the merger, which it disabled, was enabled while it went on, or   *)
(* was never disabled for who merged.                                        *)
StuckOnlyIfThawed == pc["platform"] = "wait" /\ owned => thawed

(* Every tree built is drawn or dropped in the end: no draw is missing for   *)
(* what is in a pipeline (the draw posted after an unmerge, the retried      *)
(* tree), unless the latest draw of it yielded, which nobody posts again.    *)
TreesServed ==
  <>[](\/ \A s \in Shells : pipeline[s] = <<>> \/ s \in yielded
       \/ aborted # "none"
       \/ pc["platform"] = "wait" /\ owned)
=============================================================================
