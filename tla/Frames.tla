------------------------------- MODULE Frames -------------------------------
(***************************************************************************)
(* How a frame gets from a request to the screen, in the engine vendored   *)
(* under flutter/: Animator and VsyncWaiter on the UI thread, the          *)
(* FramePipeline between the threads, Rasterizer on the raster thread and  *)
(* the platform view whose surface it draws to (shell/common).             *)
(*                                                                         *)
(* The two threads interleave at every semaphore and every mutex; what a   *)
(* thread does between two of them is one action.  One view: Render        *)
(* commits at once (RuntimeController::CheckIfAllViewsRendered).           *)
(***************************************************************************)
EXTENDS Naturals, Sequences, Functions

CONSTANTS
  Depth,      \* slots of layer_tree_pipeline_
  Callbacks,  \* ids of secondary vsync callbacks
  MaxTrees,   \* bound: layer trees rendered
  MaxPosted   \* bound: redraws of the last tree that wait for the raster thread

ASSUME DepthAssumption == Depth \in Nat \ {0}
ASSUME CallbacksAssumption == Callbacks \cap {"schedule", "await", "vsync"} = {}
ASSUME BoundsAssumption == MaxTrees \in Nat /\ MaxPosted \in Nat

VARIABLES
  uiTasks,       \* tasks the engine has posted to the UI thread
  upc,           \* UI thread: "idle", in a "frame", or committing: "signal", "notify"
  regenerate,    \* regenerate_layer_trees_
  sem,           \* pending_frame_semaphore_
  continuation,  \* producer_continuation_ holds a slot
  trees,         \* layer trees rendered so far: the number of the newest
  first,         \* is_first_item of the commit under way
  callback,      \* VsyncWaiter::callback_ is set
  secondary,     \* secondary_callbacks_: ids, none twice
  armed,         \* requests to the platform for a vsync, not answered yet
  queue,         \* Pipeline::queue_, of tree numbers
  empty,         \* the semaphore empty_
  available,     \* the semaphore available_
  rasterTasks,   \* tasks posted to the raster thread
  rpc,           \* step of Rasterizer::Draw under way
  item,          \* the tree Draw holds, 0 for none
  retry,         \* draw_result.resubmitted_item is set
  more,          \* consume_result = MoreAvailable
  retried,       \* the tree resubmitted last
  view,          \* platform view: "down", "asked" (UI told, raster not), "up", "leaving"
  surface,       \* surface_ is set
  last,          \* last_successful_task, 0 for none
  shown,         \* the tree drawn last
  overtaken      \* history: a Draw came between the push and the signal of an
                 \* item nobody else is told of

animatorVars == <<regenerate, sem, continuation, trees, first>>
waiterVars   == <<callback, secondary, armed>>
uiVars       == <<uiTasks, upc, animatorVars, waiterVars>>
pipelineVars == <<queue, empty, available>>
drawVars     == <<rpc, item, retry, more, retried>>
surfaceVars  == <<surface, last, shown>>
vars == <<uiVars, pipelineVars, rasterTasks, drawVars, view, surfaceVars, overtaken>>

UiTasks     == {"schedule", "await", "vsync"} \cup Callbacks
RasterTasks == {"draw", "last", "setup", "teardown"}
Drawing     == {"pop", "draw", "release", "reproduce", "recommit", "resignal", "post"}

TypeOK ==
  /\ uiTasks \in Seq(UiTasks)
  /\ upc \in {"idle", "frame", "signal", "notify"}
  /\ regenerate \in BOOLEAN /\ continuation \in BOOLEAN /\ first \in BOOLEAN
  /\ sem \in Nat /\ trees \in Nat /\ armed \in Nat
  /\ callback \in BOOLEAN /\ secondary \in Seq(Callbacks)
  /\ queue \in Seq(Nat) /\ empty \in Nat /\ available \in Nat
  /\ rasterTasks \in Seq(RasterTasks)
  /\ rpc \in Drawing \cup {"idle"} /\ item \in Nat /\ retried \in Nat
  /\ retry \in BOOLEAN /\ more \in BOOLEAN
  /\ view \in {"down", "asked", "up", "leaving"}
  /\ surface \in BOOLEAN /\ last \in Nat /\ shown \in Nat
  /\ overtaken \in BOOLEAN

Init ==
  /\ uiTasks = <<>> /\ upc = "idle"
  /\ regenerate = FALSE /\ sem = 1 /\ continuation = FALSE
  /\ trees = 0 /\ first = FALSE
  /\ callback = FALSE /\ secondary = <<>> /\ armed = 0
  /\ queue = <<>> /\ empty = Depth /\ available = 0
  /\ rasterTasks = <<>>
  /\ rpc = "idle" /\ item = 0 /\ retry = FALSE /\ more = FALSE /\ retried = 0
  /\ view = "down" /\ surface = FALSE /\ last = 0 /\ shown = 0
  /\ overtaken = FALSE

-----------------------------------------------------------------------------
(* UI thread: requests.  Framework code runs in tasks of its own and inside
   a frame; the engine's tasks wait in uiTasks. *)

Running == upc \in {"idle", "frame"}
NextUi(task) == upc = "idle" /\ uiTasks # <<>> /\ Head(uiTasks) = task

(* Multiple calls result in a single request to the VsyncWaiter. *)
RequestFrame(rest, again) ==
  /\ regenerate' = (regenerate \/ again)
  /\ \/ sem > 0 /\ sem' = sem - 1 /\ uiTasks' = Append(rest, "await")
     \/ sem = 0 /\ UNCHANGED sem /\ uiTasks' = rest

(* ScheduleFrame of the framework (again), or of a texture with a new frame. *)
ScheduleFrame(again) ==
  /\ Running
  /\ RequestFrame(uiTasks, again)
  /\ UNCHANGED <<upc, continuation, trees, first, waiterVars, pipelineVars,
                 rasterTasks, drawVars, view, surfaceVars, overtaken>>

(* The ui_task of OnPlatformViewCreated. *)
ScheduleForView ==
  /\ NextUi("schedule")
  /\ RequestFrame(Tail(uiTasks), TRUE)
  /\ UNCHANGED <<upc, continuation, trees, first, waiterVars, pipelineVars,
                 rasterTasks, drawVars, view, surfaceVars, overtaken>>

(* The platform is asked unless a callback of either kind already waits. *)
AskForVsync == armed' = IF callback \/ secondary # <<>> THEN armed ELSE armed + 1

AwaitVSync ==
  /\ NextUi("await")
  /\ uiTasks' = Tail(uiTasks)
  /\ callback' = TRUE /\ AskForVsync
  /\ UNCHANGED <<upc, animatorVars, secondary, pipelineVars, rasterTasks,
                 drawVars, view, surfaceVars, overtaken>>

ScheduleSecondaryCallback(id) ==
  /\ Running
  /\ id \notin Range(secondary)
  /\ id \notin Range(uiTasks)  \* bound: the last one has run
  /\ secondary' = Append(secondary, id) /\ AskForVsync
  /\ UNCHANGED <<uiTasks, upc, animatorVars, callback, pipelineVars, rasterTasks,
                 drawVars, view, surfaceVars, overtaken>>

RunSecondary(id) ==
  /\ NextUi(id)
  /\ uiTasks' = Tail(uiTasks)
  /\ UNCHANGED <<upc, animatorVars, waiterVars, pipelineVars, rasterTasks,
                 drawVars, view, surfaceVars, overtaken>>

(* Mutant: without a frame callback the secondary ones are forgotten. *)
FireForgets ==
  /\ armed > 0 /\ armed' = armed - 1
  /\ uiTasks' = uiTasks \o (IF callback THEN <<"vsync">> \o secondary ELSE <<>>)
  /\ callback' = FALSE /\ secondary' = IF callback THEN <<>> ELSE secondary
  /\ UNCHANGED <<upc, animatorVars, pipelineVars, rasterTasks, drawVars, view,
                 surfaceVars, overtaken>>

(* The platform answers, on a thread of its own. *)
FireCallback ==
  /\ armed > 0 /\ armed' = armed - 1
  /\ uiTasks' = uiTasks \o (IF callback THEN <<"vsync">> ELSE <<>>) \o secondary
  /\ callback' = FALSE /\ secondary' = <<>>
  /\ UNCHANGED <<upc, animatorVars, pipelineVars, rasterTasks, drawVars, view,
                 surfaceVars, overtaken>>

-----------------------------------------------------------------------------
(* UI thread: a vsync *)

(* Mutant: the semaphore is not given back. *)
DrawLastKeepsSemaphore ==
  /\ NextUi("vsync") /\ ~regenerate
  /\ Len(rasterTasks) < MaxPosted
  /\ uiTasks' = Tail(uiTasks)
  /\ rasterTasks' = Append(rasterTasks, "last")
  /\ UNCHANGED <<upc, animatorVars, waiterVars, pipelineVars, drawVars, view,
                 surfaceVars, overtaken>>

(* No tree has to be built: the raster thread draws the last one again. *)
DrawLastLayerTrees ==
  /\ NextUi("vsync") /\ ~regenerate
  /\ Len(rasterTasks) < MaxPosted
  /\ uiTasks' = Tail(uiTasks) /\ sem' = sem + 1
  /\ rasterTasks' = Append(rasterTasks, "last")
  /\ UNCHANGED <<upc, regenerate, continuation, trees, first, waiterVars,
                 pipelineVars, drawVars, view, surfaceVars, overtaken>>

(* A slot left from a frame that rendered nothing is used again. *)
BeginFrame ==
  /\ NextUi("vsync") /\ regenerate
  /\ regenerate' = FALSE /\ sem' = sem + 1
  /\ \/ continuation /\ UNCHANGED <<continuation, empty>>
     \/ ~continuation /\ empty > 0 /\ empty' = empty - 1 /\ continuation' = TRUE
  /\ uiTasks' = Tail(uiTasks) /\ upc' = "frame"
  /\ UNCHANGED <<trees, first, waiterVars, queue, available, rasterTasks,
                 drawVars, view, surfaceVars, overtaken>>

(* Mutant: the frame is requested before the semaphore is given back. *)
FullBeforeSignal ==
  /\ NextUi("vsync") /\ regenerate /\ ~continuation /\ empty = 0
  /\ uiTasks' = Tail(uiTasks) /\ sem' = sem + 1
  /\ UNCHANGED <<upc, regenerate, continuation, trees, first, waiterVars,
                 pipelineVars, rasterTasks, drawVars, view, surfaceVars, overtaken>>

(* regenerate_ and the semaphore are reset and taken again at once. *)
PipelineFull ==
  /\ NextUi("vsync") /\ regenerate /\ ~continuation /\ empty = 0
  /\ uiTasks' = Append(Tail(uiTasks), "await")
  /\ UNCHANGED <<upc, animatorVars, waiterVars, pipelineVars, rasterTasks,
                 drawVars, view, surfaceVars, overtaken>>

(* Render and, with the only view rendered, EndFrame: ProducerCommit pushes
   under the lock.  Without a slot, the tree is dropped. *)
Render ==
  /\ Running /\ continuation
  /\ trees < MaxTrees /\ trees' = trees + 1
  /\ first' = (queue = <<>>)
  /\ queue' = Append(queue, trees + 1)
  /\ continuation' = FALSE /\ upc' = "signal"
  /\ UNCHANGED <<uiTasks, regenerate, sem, waiterVars, empty, available,
                 rasterTasks, drawVars, view, surfaceVars, overtaken>>

EndFrame ==
  /\ upc = "frame" /\ upc' = "idle"
  /\ UNCHANGED <<uiTasks, animatorVars, waiterVars, pipelineVars, rasterTasks,
                 drawVars, view, surfaceVars, overtaken>>

(* ProducerCommit signals once the lock is released. *)
SignalAvailable ==
  /\ upc = "signal"
  /\ available' = available + 1
  /\ upc' = IF first THEN "notify" ELSE "idle"
  /\ UNCHANGED <<uiTasks, animatorVars, waiterVars, queue, empty, rasterTasks,
                 drawVars, view, surfaceVars, overtaken>>

OnAnimatorDraw ==
  /\ upc = "notify" /\ upc' = "idle"
  /\ rasterTasks' = Append(rasterTasks, "draw")
  /\ UNCHANGED <<uiTasks, animatorVars, waiterVars, pipelineVars, drawVars, view,
                 surfaceVars, overtaken>>

-----------------------------------------------------------------------------
(* Raster thread.  Draw consumes one item, draws it and, where more may wait,
   posts itself once more. *)

NextRaster(task) == rpc = "idle" /\ rasterTasks # <<>> /\ Head(rasterTasks) = task

Draw ==
  /\ NextRaster("draw") /\ rasterTasks' = Tail(rasterTasks)
  /\ available > 0 /\ available' = available - 1
  /\ rpc' = "pop"
  /\ UNCHANGED <<uiVars, queue, empty, item, retry, more, retried, view,
                 surfaceVars, overtaken>>

(* NoneAvailable: nothing is drawn and nothing posted. *)
DrawNothing ==
  /\ NextRaster("draw") /\ rasterTasks' = Tail(rasterTasks)
  /\ available = 0
  /\ overtaken' = (overtaken \/ (upc = "signal" /\ ~first))
  /\ UNCHANGED <<uiVars, pipelineVars, drawVars, view, surfaceVars>>

(* Mutant: items_count is not asked for. *)
PopBlindly ==
  /\ rpc = "pop"
  /\ queue # <<>>
  /\ item' = Head(queue) /\ queue' = Tail(queue)
  /\ rpc' = "draw"
  /\ UNCHANGED <<uiVars, empty, available, rasterTasks, retry, more, retried, view,
                 surfaceVars, overtaken>>

Pop ==
  /\ rpc = "pop"
  /\ queue # <<>>
  /\ item' = Head(queue) /\ queue' = Tail(queue)
  /\ more' = (Tail(queue) # <<>>)
  /\ rpc' = "draw"
  /\ UNCHANGED <<uiVars, empty, available, rasterTasks, retry, retried, view,
                 surfaceVars, overtaken>>

DrawSuccess ==
  /\ rpc = "draw" /\ surface
  /\ last' = item /\ shown' = item
  /\ rpc' = "release"
  /\ UNCHANGED <<uiVars, pipelineVars, rasterTasks, item, retry, more, retried,
                 view, surface, overtaken>>

(* No surface, no GPU, a tree of the wrong size or a frame that failed. *)
DrawFailure ==
  /\ rpc = "draw" /\ rpc' = "release"
  /\ UNCHANGED <<uiVars, pipelineVars, rasterTasks, item, retry, more, retried,
                 view, surfaceVars, overtaken>>

(* The threads are merged first, and the tree is drawn by the next Draw: a
   tree is resubmitted once. *)
DrawRetry ==
  /\ rpc = "draw" /\ surface /\ item # retried
  /\ retry' = TRUE /\ retried' = item
  /\ rpc' = "release"
  /\ UNCHANGED <<uiVars, pipelineVars, rasterTasks, item, more, view,
                 surfaceVars, overtaken>>

(* kEnqueuePipeline: the lease on the merged threads ended with this frame. *)
DrawUnmerges ==
  /\ rpc = "draw" /\ surface
  /\ last' = item /\ shown' = item
  /\ more' = TRUE /\ rpc' = "release"
  /\ UNCHANGED <<uiVars, pipelineVars, rasterTasks, item, retry, retried, view,
                 surface, overtaken>>

ReleaseSlot ==
  /\ rpc = "release"
  /\ empty' = empty + 1
  /\ rpc' = IF retry THEN "reproduce" ELSE "post"
  /\ UNCHANGED <<uiVars, queue, available, rasterTasks, item, retry, more,
                 retried, view, surfaceVars, overtaken>>

(* ProduceIfEmpty *)
TakeSlotAgain ==
  /\ rpc = "reproduce"
  /\ \/ empty > 0 /\ empty' = empty - 1 /\ rpc' = "recommit"
     \/ empty = 0 /\ UNCHANGED empty /\ rpc' = "post"
  /\ UNCHANGED <<uiVars, queue, available, rasterTasks, item, retry, more,
                 retried, view, surfaceVars, overtaken>>

(* Mutant: bailing out, it keeps the slot. *)
CommitKeepsSlot ==
  /\ rpc = "recommit"
  /\ \/ queue # <<>> /\ rpc' = "post" /\ UNCHANGED queue
     \/ queue = <<>> /\ queue' = <<item>> /\ rpc' = "resignal"
  /\ UNCHANGED <<uiVars, empty, available, rasterTasks, item, retry, more, retried,
                 view, surfaceVars, overtaken>>

(* Mutant: bailing out, it signals all the same. *)
CommitSignals ==
  /\ rpc = "recommit" /\ rpc' = "resignal"
  /\ \/ queue # <<>> /\ empty' = empty + 1 /\ UNCHANGED queue
     \/ queue = <<>> /\ queue' = <<item>> /\ UNCHANGED empty
  /\ UNCHANGED <<uiVars, available, rasterTasks, item, retry, more, retried,
                 view, surfaceVars, overtaken>>

(* Mutant: Produce in place of ProduceIfEmpty. *)
CommitAnyway ==
  /\ rpc = "recommit" /\ rpc' = "resignal"
  /\ queue' = Append(queue, item)
  /\ UNCHANGED <<uiVars, empty, available, rasterTasks, item, retry, more, retried,
                 view, surfaceVars, overtaken>>

(* ProducerCommitIfEmpty: a newer tree has come, or this one goes back. *)
CommitIfEmpty ==
  /\ rpc = "recommit"
  /\ \/ /\ queue # <<>> /\ empty' = empty + 1 /\ rpc' = "post"
        /\ UNCHANGED queue
     \/ /\ queue = <<>> /\ queue' = <<item>> /\ rpc' = "resignal"
        /\ UNCHANGED empty
  /\ UNCHANGED <<uiVars, available, rasterTasks, item, retry, more, retried,
                 view, surfaceVars, overtaken>>

SignalAgain ==
  /\ rpc = "resignal"
  /\ available' = available + 1
  /\ more' = TRUE /\ rpc' = "post"
  /\ UNCHANGED <<uiVars, queue, empty, rasterTasks, item, retry, retried, view,
                 surfaceVars, overtaken>>

(* Mutant: what remains is left to the next commit. *)
DrawReturnsAtOnce ==
  /\ rpc = "post" /\ rpc' = "idle"
  /\ item' = 0 /\ retry' = FALSE /\ more' = FALSE
  /\ UNCHANGED <<uiVars, pipelineVars, rasterTasks, retried, view, surfaceVars, overtaken>>

DrawReturns ==
  /\ rpc = "post" /\ rpc' = "idle"
  /\ rasterTasks' = IF more THEN Append(rasterTasks, "draw") ELSE rasterTasks
  /\ item' = 0 /\ retry' = FALSE /\ more' = FALSE
  /\ UNCHANGED <<uiVars, pipelineVars, retried, view, surfaceVars, overtaken>>

(* The record gives its tree away: what is not drawn again is lost to it. *)
Redraw ==
  /\ NextRaster("last") /\ rasterTasks' = Tail(rasterTasks)
  /\ \/ surface /\ last # 0 /\ shown' = last /\ UNCHANGED last
     \/ surface /\ last # 0 /\ last' = 0 /\ UNCHANGED shown
     \/ (~surface \/ last = 0) /\ UNCHANGED <<last, shown>>
  /\ UNCHANGED <<uiVars, pipelineVars, drawVars, view, surface, overtaken>>

Setup ==
  /\ NextRaster("setup") /\ rasterTasks' = Tail(rasterTasks)
  /\ surface' = TRUE
  /\ UNCHANGED <<uiVars, pipelineVars, drawVars, view, last, shown, overtaken>>

Teardown ==
  /\ NextRaster("teardown") /\ rasterTasks' = Tail(rasterTasks)
  /\ surface' = FALSE /\ last' = 0
  /\ view' = "down"
  /\ UNCHANGED <<uiVars, pipelineVars, drawVars, shown, overtaken>>

-----------------------------------------------------------------------------
(* Platform and IO threads.  Both calls block the platform thread: the first
   until its tasks are posted, the second until the surface is gone. *)

OnPlatformViewCreated ==
  /\ view = "down" /\ view' = "asked"
  /\ "schedule" \notin Range(uiTasks)  \* bound: the UI thread knows of the last one
  /\ uiTasks' = Append(uiTasks, "schedule")
  /\ UNCHANGED <<upc, animatorVars, waiterVars, pipelineVars, rasterTasks,
                 drawVars, surfaceVars, overtaken>>

PostSetup ==
  /\ view = "asked" /\ view' = "up"
  /\ rasterTasks' = Append(rasterTasks, "setup")
  /\ UNCHANGED <<uiVars, pipelineVars, drawVars, surfaceVars, overtaken>>

OnPlatformViewDestroyed ==
  /\ view = "up" /\ view' = "leaving"
  /\ rasterTasks' = Append(rasterTasks, "teardown")
  /\ UNCHANGED <<uiVars, pipelineVars, drawVars, surfaceVars, overtaken>>

UiStep ==
  \/ ScheduleForView \/ AwaitVSync \/ (\E id \in Callbacks : RunSecondary(id))
  \/ DrawLastLayerTrees \/ BeginFrame \/ PipelineFull
  \/ EndFrame \/ SignalAvailable \/ OnAnimatorDraw

RasterStep ==
  \/ Draw \/ DrawNothing \/ Pop
  \/ DrawSuccess \/ DrawFailure \/ DrawRetry \/ DrawUnmerges
  \/ ReleaseSlot \/ TakeSlotAgain \/ CommitIfEmpty \/ SignalAgain \/ DrawReturns
  \/ Redraw \/ Setup \/ Teardown

Framework ==
  \/ \E again \in BOOLEAN : ScheduleFrame(again)
  \/ \E id \in Callbacks : ScheduleSecondaryCallback(id)
  \/ Render

PlatformStep ==
  \/ FireCallback
  \/ OnPlatformViewCreated \/ PostSetup \/ OnPlatformViewDestroyed

Next == UiStep \/ RasterStep \/ Framework \/ PlatformStep

Spec == Init /\ [][Next]_vars

(* The threads run their tasks and the platform answers a request for a vsync;
   nothing makes the framework ask, or build, anything. *)
FairSpec ==
  /\ Spec
  /\ WF_vars(UiStep) /\ WF_vars(RasterStep)
  /\ WF_vars(FireCallback) /\ WF_vars(PostSetup)

-----------------------------------------------------------------------------
(* Properties *)

In(q, x) == x \in Range(q)
One(b) == IF b THEN 1 ELSE 0

(* A slot is free, held by the animator, filled, or held by the rasterizer;
   none is lost and none is made up, whichever way a commit ends. *)
SlotsAccounted ==
  empty + One(continuation) + Len(queue) + One(rpc \in {"draw", "release", "recommit"})
    = Depth

(* A signal is given for every item and for nothing else, so Consume never
   takes the front of an empty queue (pipeline.h:198). *)
SignalsAccounted ==
  available + One(rpc = "pop") + One(upc = "signal") + One(rpc = "resignal") = Len(queue)

(* pending_frame_semaphore_ does what it is for: while it is taken, exactly
   one request is under way (to be waited for, waited for or answered), and a
   request to rebuild is never left without one (animator.cc:239). *)
Request == {"await", "vsync"}
OneRequest ==
  /\ sem <= 1 /\ (regenerate => sem = 0)
  /\ sem = 0 <=> callback \/ Range(uiTasks) \cap Request # {}
  /\ callback => Range(uiTasks) \cap Request = {}
  /\ \A i, j \in DOMAIN uiTasks :
        uiTasks[i] \in Request /\ uiTasks[j] \in Request => i = j

(* The platform is asked exactly while somebody waits. *)
AskedWhileWaiting == armed = One(callback \/ secondary # <<>>)

(* An item in the pipeline has a Draw to come, unless a Draw overtook the
   signal of its commit. *)
DrawComing ==
  \/ In(rasterTasks, "draw")
  \/ upc = "notify" \/ (upc = "signal" /\ first)
  \/ rpc = "pop" \/ rpc = "resignal"
  \/ more
WakeUpComing == queue # <<>> => DrawComing \/ overtaken

(* What is drawn is never older than what was drawn before, through retries,
   redraws and new surfaces. *)
NeverBackwards == [][shown' >= shown]_vars

(* Every committed tree is taken up, unless a Draw overtook a signal. *)
TakenUnlessOvertaken ==
  \A t \in 1..MaxTrees : In(queue, t) ~> (item = t \/ overtaken)

(* The comment at animator.cc:149: "Eventually the 'Rasterizer' will consume
   it, so we don't need to notify the delegate." *)
EventuallyConsumed == \A t \in 1..MaxTrees : In(queue, t) ~> (item = t)

(* A request to rebuild begins a frame. *)
RequestServed == regenerate ~> (~regenerate \/ overtaken)

(* A secondary callback runs in one of the next vsyncs. *)
SecondaryServed ==
  \A id \in Callbacks : In(secondary, id) ~> In(uiTasks, id)
=============================================================================
