---------------------------- MODULE FramesProofs ----------------------------
(***************************************************************************)
(* Proofs about Frames: its type invariant, its safety invariants and that *)
(* the screen never goes back, for any depth of the pipeline and any       *)
(* bounds; and that a pipeline of depth 1 loses no wake-up.                *)
(***************************************************************************)
EXTENDS Frames, TLAPS

-----------------------------------------------------------------------------
(* Sequences, by the set of their elements *)

LEMMA RangeAppend ==
  ASSUME NEW S, NEW s \in Seq(S), NEW x \in S
  PROVE  /\ Append(s, x) \in Seq(S)
         /\ Range(Append(s, x)) = Range(s) \cup {x}
<1>1. Append(s, x) \in Seq(S)
  OBVIOUS
<1>2. ASSUME NEW y \in Range(Append(s, x)) PROVE y \in Range(s) \cup {x}
  <2>1. PICK i \in 1..(Len(s) + 1) : y = Append(s, x)[i]
    BY <1>2 DEF Range
  <2> QED BY <2>1 DEF Range
<1>3. ASSUME NEW y \in Range(s) \cup {x} PROVE y \in Range(Append(s, x))
  <2>1. CASE y = x
    <3>1. Append(s, x)[Len(s) + 1] = x /\ Len(s) + 1 \in DOMAIN Append(s, x)
      OBVIOUS
    <3> QED BY <2>1, <3>1 DEF Range
  <2>2. CASE y \in Range(s)
    <3>1. PICK i \in DOMAIN s : y = s[i]
      BY <2>2 DEF Range
    <3>2. Append(s, x)[i] = y /\ i \in DOMAIN Append(s, x)
      BY <3>1
    <3> QED BY <3>2 DEF Range
  <2> QED BY <1>3, <2>1, <2>2
<1> QED BY <1>1, <1>2, <1>3

LEMMA RangeTail ==
  ASSUME NEW S, NEW s \in Seq(S), s # <<>>
  PROVE  /\ Head(s) \in S /\ Tail(s) \in Seq(S)
         /\ Len(Tail(s)) = Len(s) - 1
         /\ \A i \in 1..Len(Tail(s)) : Tail(s)[i] = s[i + 1]
         /\ Range(s) = Range(Tail(s)) \cup {Head(s)}
<1>1. /\ Len(s) > 0 /\ Head(s) = s[1] /\ Head(s) \in S /\ Tail(s) \in Seq(S)
      /\ Len(Tail(s)) = Len(s) - 1
      /\ \A i \in 1..Len(Tail(s)) : Tail(s)[i] = s[i + 1]
  OBVIOUS
<1>2. ASSUME NEW y \in Range(s) PROVE y \in Range(Tail(s)) \cup {Head(s)}
  <2>1. PICK i \in 1..Len(s) : y = s[i]
    BY <1>2 DEF Range
  <2>2. CASE i = 1
    BY <1>1, <2>1, <2>2
  <2>3. CASE i # 1
    <3>1. i - 1 \in 1..Len(Tail(s)) /\ (i - 1) + 1 = i
      BY <1>1, <2>1, <2>3
    <3>2. Tail(s)[i - 1] = y /\ i - 1 \in DOMAIN Tail(s)
      BY <1>1, <2>1, <3>1
    <3> QED BY <3>2 DEF Range
  <2> QED BY <2>2, <2>3
<1>3. ASSUME NEW y \in Range(Tail(s)) \cup {Head(s)} PROVE y \in Range(s)
  <2>1. CASE y = Head(s)
    <3>1. 1 \in DOMAIN s
      BY <1>1
    <3> QED BY <1>1, <2>1, <3>1 DEF Range
  <2>2. CASE y \in Range(Tail(s))
    <3>1. PICK i \in 1..Len(Tail(s)) : y = Tail(s)[i]
      BY <1>1, <2>2 DEF Range
    <3>2. s[i + 1] = y /\ i + 1 \in DOMAIN s
      BY <1>1, <3>1
    <3> QED BY <3>2 DEF Range
  <2> QED BY <1>3, <2>1, <2>2
<1> QED BY <1>1, <1>2, <1>3

-----------------------------------------------------------------------------
(* The order of the trees: on screen, in hand, in the pipeline. *)
Holding == rpc \in {"draw", "release", "reproduce", "recommit"}

InOrder ==
  /\ last # 0 => last = shown
  /\ shown <= trees
  /\ Holding => shown <= item /\ item <= trees
  /\ \A i \in DOMAIN queue : shown <= queue[i] /\ queue[i] <= trees
  /\ Holding => \A i \in DOMAIN queue : item <= queue[i]
  /\ \A i, j \in DOMAIN queue : i < j => queue[i] <= queue[j]

LEMMA TypeStep ==
  ASSUME TypeOK, [Next]_vars
  PROVE  TypeOK'
<1> USE DEF TypeOK, Drawing, uiVars, animatorVars,
        waiterVars, pipelineVars, drawVars, surfaceVars, vars, NextUi, NextRaster,
        Running, RequestFrame, AskForVsync
<1>0. /\ {"schedule", "await", "vsync"} \subseteq UiTasks /\ Callbacks \subseteq UiTasks
      /\ {"draw", "last", "setup", "teardown"} \subseteq RasterTasks
      /\ "await" \in UiTasks
  BY DEF UiTasks, RasterTasks
<1>1. CASE ScheduleForView
  <2>1. regenerate' \in BOOLEAN
    BY <1>0, <1>1, Zenon DEF ScheduleForView
  <2>2. sem' \in Nat
    BY <1>0, <1>1 DEF ScheduleForView
  <2>3. Tail(uiTasks) \in Seq(UiTasks)
    BY <1>0, <1>1, RangeTail DEF ScheduleForView
  <2>4. uiTasks' = Append(Tail(uiTasks), "await") \/ uiTasks' = Tail(uiTasks)
    BY <1>0, <1>1, Zenon DEF ScheduleForView
  <2>5. Append(Tail(uiTasks), "await") \in Seq(UiTasks)
    BY <1>0, <2>3
  <2>6. uiTasks' \in Seq(UiTasks)
    BY <2>3, <2>4, <2>5, Zenon
  <2> QED BY <1>1, <2>1, <2>2, <2>6 DEF ScheduleForView
<1>2. CASE AwaitVSync
  BY <1>0, <1>2 DEF AwaitVSync
<1>3. ASSUME NEW id \in Callbacks, RunSecondary(id) PROVE TypeOK'
  BY <1>0, <1>3 DEF RunSecondary
<1>4. CASE DrawLastLayerTrees
  BY <1>0, <1>4 DEF DrawLastLayerTrees
<1>5. CASE BeginFrame
  <2>1. continuation' \in BOOLEAN
    BY <1>0, <1>5, Zenon DEF BeginFrame
  <2>2. empty' \in Nat
    BY <1>0, <1>5 DEF BeginFrame
  <2>3. uiTasks' \in Seq(UiTasks)
    BY <1>0, <1>5, RangeTail DEF BeginFrame
  <2>4. regenerate' = FALSE /\ sem' = sem + 1 /\ upc' = "frame"
    BY <1>5, Zenon DEF BeginFrame
  <2>5. UNCHANGED <<trees, first, waiterVars, queue, available>>
    BY <1>5, Zenon DEF BeginFrame
  <2>6. UNCHANGED <<rasterTasks, drawVars, view, surfaceVars, overtaken>>
    BY <1>5, Zenon DEF BeginFrame
  <2>7. /\ first' \in BOOLEAN /\ trees' \in Nat /\ armed' \in Nat
        /\ callback' \in BOOLEAN /\ secondary' \in Seq(Callbacks)
        /\ queue' \in Seq(Nat) /\ available' \in Nat
    BY <2>5
  <2>8. /\ rasterTasks' \in Seq(RasterTasks)
        /\ rpc' \in Drawing \cup {"idle"} /\ item' \in Nat /\ retried' \in Nat
        /\ retry' \in BOOLEAN /\ more' \in BOOLEAN
        /\ view' \in {"down", "asked", "up", "leaving"}
        /\ surface' \in BOOLEAN /\ last' \in Nat /\ shown' \in Nat
        /\ overtaken' \in BOOLEAN
    BY <2>6
  <2>9. regenerate' \in BOOLEAN /\ upc' \in {"idle", "frame", "signal", "notify"}
    BY <2>4, Zenon
  <2>10. sem' \in Nat
    BY <2>4
  <2> QED BY <2>1, <2>2, <2>3, <2>7, <2>8, <2>9, <2>10, Zenon
<1>6. CASE PipelineFull
  BY <1>0, <1>6 DEF PipelineFull
<1>7. CASE EndFrame
  BY <1>0, <1>7 DEF EndFrame
<1>8. CASE SignalAvailable
  BY <1>0, <1>8 DEF SignalAvailable
<1>9. CASE OnAnimatorDraw
  BY <1>0, <1>9 DEF OnAnimatorDraw
<1>10. CASE Draw
  BY <1>0, <1>10 DEF Draw
<1>11. CASE DrawNothing
  BY <1>0, <1>11 DEF DrawNothing
<1>12. CASE Pop
  BY <1>0, <1>12 DEF Pop
<1>13. CASE DrawSuccess
  BY <1>0, <1>13 DEF DrawSuccess
<1>14. CASE DrawFailure
  BY <1>0, <1>14 DEF DrawFailure
<1>15. CASE DrawRetry
  BY <1>0, <1>15 DEF DrawRetry
<1>16. CASE DrawUnmerges
  BY <1>0, <1>16 DEF DrawUnmerges
<1>17. CASE ReleaseSlot
  BY <1>0, <1>17 DEF ReleaseSlot
<1>18. CASE TakeSlotAgain
  BY <1>0, <1>18 DEF TakeSlotAgain
<1>19. CASE CommitIfEmpty
  <2>1. queue' = queue \/ queue' = <<item>>
    BY <1>19, Zenon DEF CommitIfEmpty
  <2>3. queue' \in Seq(Nat)
    <3>1. <<item>> \in Seq(Nat)
      OBVIOUS
    <3> QED BY <2>1, <3>1
  <2>4. empty' \in Nat
    BY <1>0, <1>19 DEF CommitIfEmpty
  <2>2. rpc' \in Drawing
    BY <1>0, <1>19 DEF CommitIfEmpty
  <2> QED BY <1>0, <1>19, <2>2, <2>3, <2>4 DEF CommitIfEmpty
<1>20. CASE SignalAgain
  BY <1>0, <1>20 DEF SignalAgain
<1>21. CASE DrawReturns
  <2>1. Append(rasterTasks, "draw") \in Seq(RasterTasks)
    BY <1>0
  <2>2. rasterTasks' \in Seq(RasterTasks)
    BY <1>0, <1>21, <2>1, Zenon DEF DrawReturns
  <2> QED BY <1>0, <1>21, <2>2 DEF DrawReturns
<1>22. CASE Redraw
  BY <1>0, <1>22 DEF Redraw
<1>23. CASE Setup
  BY <1>0, <1>23 DEF Setup
<1>24. CASE Teardown
  <2>1. rasterTasks' \in Seq(RasterTasks)
    BY <1>0, <1>24, RangeTail DEF Teardown
  <2> QED BY <1>0, <1>24, <2>1 DEF Teardown
<1>25. ASSUME NEW again \in BOOLEAN, ScheduleFrame(again) PROVE TypeOK'
  <2>1. regenerate' \in BOOLEAN
    BY <1>0, <1>25, Zenon DEF ScheduleFrame
  <2>2. sem' \in Nat
    BY <1>0, <1>25 DEF ScheduleFrame
  <2>3. uiTasks' = Append(uiTasks, "await") \/ uiTasks' = uiTasks
    BY <1>0, <1>25, Zenon DEF ScheduleFrame
  <2>4. Append(uiTasks, "await") \in Seq(UiTasks)
    BY <1>0
  <2>5. uiTasks' \in Seq(UiTasks)
    BY <2>3, <2>4, Zenon
  <2> QED BY <1>25, <2>1, <2>2, <2>5 DEF ScheduleFrame
<1>26. ASSUME NEW id \in Callbacks, ScheduleSecondaryCallback(id) PROVE TypeOK'
  BY <1>0, <1>26 DEF ScheduleSecondaryCallback
<1>27. CASE Render
  <2>1. first' \in BOOLEAN
    BY <1>0, <1>27, Zenon DEF Render
  <2>2. queue' \in Seq(Nat) /\ trees' \in Nat
    BY <1>0, <1>27 DEF Render
  <2> QED BY <1>0, <1>27, <2>1, <2>2 DEF Render
<1>28. CASE FireCallback
  <2>1. \A s \in Seq(Callbacks) : s \in Seq(UiTasks)
    BY <1>0
  <2>5. <<"vsync">> \in Seq(UiTasks) /\ <<>> \in Seq(UiTasks)
    BY <1>0
  <2>2. (IF callback THEN <<"vsync">> ELSE <<>>) \in Seq(UiTasks)
    BY <2>5, Zenon
  <2>3. uiTasks' \in Seq(UiTasks)
    BY <1>0, <1>28, <2>1, <2>2 DEF FireCallback
  <2>4. armed' \in Nat
    BY <1>0, <1>28 DEF FireCallback
  <2>6. callback' = FALSE /\ secondary' \in Seq(Callbacks)
    BY <1>0, <1>28 DEF FireCallback
  <2>7. UNCHANGED <<upc, animatorVars, pipelineVars>>
    BY <1>28, Zenon DEF FireCallback
  <2>8. UNCHANGED <<rasterTasks, drawVars, view, surfaceVars, overtaken>>
    BY <1>28, Zenon DEF FireCallback
  <2>9. /\ upc' \in {"idle", "frame", "signal", "notify"}
        /\ regenerate' \in BOOLEAN /\ continuation' \in BOOLEAN /\ first' \in BOOLEAN
        /\ sem' \in Nat /\ trees' \in Nat
        /\ queue' \in Seq(Nat) /\ empty' \in Nat /\ available' \in Nat
    BY <2>7
  <2>10. /\ rasterTasks' \in Seq(RasterTasks)
         /\ rpc' \in Drawing \cup {"idle"} /\ item' \in Nat /\ retried' \in Nat
         /\ retry' \in BOOLEAN /\ more' \in BOOLEAN
         /\ view' \in {"down", "asked", "up", "leaving"}
         /\ surface' \in BOOLEAN /\ last' \in Nat /\ shown' \in Nat
         /\ overtaken' \in BOOLEAN
    BY <2>8
  <2> QED BY <2>3, <2>4, <2>6, <2>9, <2>10, Zenon
<1>29. CASE OnPlatformViewCreated
  BY <1>0, <1>29 DEF OnPlatformViewCreated
<1>30. CASE PostSetup
  BY <1>0, <1>30 DEF PostSetup
<1>31. CASE OnPlatformViewDestroyed
  BY <1>0, <1>31 DEF OnPlatformViewDestroyed
<1>32. CASE UNCHANGED vars
  BY <1>0, <1>32
<1> QED
  BY <1>1, <1>2, <1>3, <1>4, <1>5, <1>6, <1>7, <1>8, <1>9, <1>10, <1>11, <1>12, <1>13, <1>14, <1>15, <1>16, <1>17, <1>18, <1>19, <1>20, <1>21, <1>22, <1>23, <1>24, <1>25, <1>26, <1>27, <1>28, <1>29, <1>30, <1>31, <1>32 DEF Next, UiStep, RasterStep, Framework, PlatformStep

(* Slots and signals: each action keeps both sums. *)
LEMMA CountsStep ==
  ASSUME TypeOK, TypeOK', SlotsAccounted, SignalsAccounted, [Next]_vars
  PROVE  SlotsAccounted' /\ SignalsAccounted'
<1> USE DepthAssumption DEF SlotsAccounted, SignalsAccounted, One
<1>0. /\ queue \in Seq(Nat) /\ Len(queue) \in Nat /\ (queue = <<>> <=> Len(queue) = 0)
      /\ empty \in Nat /\ available \in Nat
      /\ rpc \in Drawing \cup {"idle"} /\ upc \in {"idle", "frame", "signal", "notify"}
      /\ continuation \in BOOLEAN
  BY DEF TypeOK
<1>1. CASE UNCHANGED <<empty, continuation, queue, rpc, available, upc>>
  BY <1>1
<1>2. CASE UiStep
  <2>1. CASE BeginFrame
    <3>1. UNCHANGED <<queue, rpc, available>>
      BY <2>1, Zenon DEF BeginFrame, drawVars
    <3>2. upc = "idle" /\ upc' = "frame"
      BY <2>1, Zenon DEF BeginFrame, NextUi
    <3>3. CASE continuation
      <4>1. continuation' /\ empty' = empty
        BY <2>1, <3>3, Zenon DEF BeginFrame
      <4> QED BY <1>0, <3>1, <3>2, <3>3, <4>1
    <3>4. CASE ~continuation
      <4>1. continuation' /\ empty' = empty - 1
        BY <2>1, <3>4, Zenon DEF BeginFrame
      <4> QED BY <1>0, <3>1, <3>2, <3>4, <4>1
    <3> QED BY <3>3, <3>4
  <2>2. CASE EndFrame
    BY <1>0, <2>2 DEF EndFrame, pipelineVars, animatorVars, drawVars
  <2>3. CASE SignalAvailable
    <3>1. upc' \in {"notify", "idle"}
      BY <2>3, Zenon DEF SignalAvailable
    <3>2. upc = "signal" /\ available' = available + 1
      BY <2>3, Zenon DEF SignalAvailable
    <3>3. UNCHANGED <<queue, empty, rpc, continuation>>
      BY <2>3, Zenon DEF SignalAvailable, animatorVars, drawVars
    <3>4. SlotsAccounted'
      BY <3>3, Zenon
    <3>5. SignalsAccounted'
      BY <1>0, <3>1, <3>2, <3>3
    <3> QED BY <3>4, <3>5
  <2>4. CASE OnAnimatorDraw
    BY <1>0, <2>4 DEF OnAnimatorDraw, pipelineVars, animatorVars, drawVars
  <2> QED BY <1>1, <1>2, <2>1, <2>2, <2>3, <2>4
          DEF UiStep, ScheduleForView, AwaitVSync, RunSecondary, DrawLastLayerTrees,
              PipelineFull, pipelineVars, animatorVars, drawVars
<1>3. CASE RasterStep
  <2> USE DEF uiVars, animatorVars, pipelineVars, drawVars, Drawing
  <2>1. CASE Draw
    BY <1>0, <2>1 DEF Draw, NextRaster
  <2>2. CASE Pop
    BY <1>0, <2>2 DEF Pop
  <2>3. CASE DrawSuccess \/ DrawFailure \/ DrawRetry \/ DrawUnmerges
    <3>1. rpc = "draw" /\ rpc' = "release"
      BY <2>3, Zenon DEF DrawSuccess, DrawFailure, DrawRetry, DrawUnmerges
    <3>2. UNCHANGED <<queue, empty, available, continuation, upc>>
      BY <2>3 DEF DrawSuccess, DrawFailure, DrawRetry, DrawUnmerges
    <3> QED BY <1>0, <3>1, <3>2
  <2>4. CASE ReleaseSlot
    BY <1>0, <2>4 DEF ReleaseSlot
  <2>5. CASE TakeSlotAgain
    BY <1>0, <2>5 DEF TakeSlotAgain
  <2>6. CASE CommitIfEmpty
    <3>1. UNCHANGED <<available, continuation, upc>>
      BY <2>6 DEF CommitIfEmpty
    <3>2. CASE queue # <<>>
      <4>1. empty' = empty + 1 /\ rpc' = "post" /\ queue' = queue /\ rpc = "recommit"
        BY <2>6, <3>2, Zenon DEF CommitIfEmpty
      <4> QED BY <1>0, <3>1, <4>1
    <3>3. CASE queue = <<>>
      <4>1. empty' = empty /\ rpc' = "resignal" /\ queue' = <<item>> /\ rpc = "recommit"
        BY <2>6, <3>3, Zenon DEF CommitIfEmpty
      <4>2. Len(<<item>>) = 1
        OBVIOUS
      <4> QED BY <1>0, <3>1, <3>3, <4>1, <4>2
    <3> QED BY <3>2, <3>3
  <2>7. CASE SignalAgain
    BY <1>0, <2>7 DEF SignalAgain
  <2>8. CASE DrawReturns
    BY <1>0, <2>8 DEF DrawReturns
  <2>9. CASE DrawNothing \/ Redraw \/ Setup \/ Teardown
    BY <1>1, <2>9 DEF DrawNothing, Redraw, Setup, Teardown
  <2> QED BY <1>3, <2>1, <2>2, <2>3, <2>4, <2>5, <2>6, <2>7, <2>8, <2>9 DEF RasterStep
<1>4. CASE Framework
  <2>1. CASE Render
    BY <1>0, <2>1 DEF Render, Running, drawVars
  <2> QED BY <1>1, <1>4, <2>1
          DEF Framework, ScheduleFrame, ScheduleSecondaryCallback,
              pipelineVars, animatorVars, drawVars
<1>5. CASE PlatformStep
  BY <1>1, <1>5 DEF PlatformStep, FireCallback, OnPlatformViewCreated, PostSetup,
     OnPlatformViewDestroyed, uiVars, pipelineVars, animatorVars, drawVars
<1>6. CASE UNCHANGED vars
  BY <1>1, <1>6 DEF vars, uiVars, pipelineVars, animatorVars, drawVars
<1> QED BY <1>2, <1>3, <1>4, <1>5, <1>6 DEF Next

(* A request is under way exactly while the semaphore is taken. *)
LEMMA OneRequestStep ==
  ASSUME TypeOK, OneRequest, [Next]_vars
  PROVE  OneRequest'
<1> USE DEF OneRequest, Request
<1>0. /\ uiTasks \in Seq(UiTasks) /\ sem \in Nat /\ secondary \in Seq(Callbacks)
      /\ regenerate \in BOOLEAN /\ callback \in BOOLEAN
      /\ {"schedule", "await", "vsync"} \subseteq UiTasks
  BY DEF TypeOK, UiTasks
<1>1. CASE UNCHANGED <<uiTasks, sem, regenerate, callback>>
  BY <1>1
<1>2. ASSUME NEW rest \in Seq(UiTasks), NEW again \in BOOLEAN, UNCHANGED callback,
             RequestFrame(rest, again),
             Range(rest) \cap Request = Range(uiTasks) \cap Request,
             \A i, j \in DOMAIN rest :
               rest[i] \in Request /\ rest[j] \in Request => i = j
      PROVE  OneRequest'
  <2>1. CASE sem = 0
    <3>1. uiTasks' = rest /\ sem' = 0
      BY <1>2, <2>1, <1>0 DEF RequestFrame
    <3> QED BY <1>2, <2>1, <3>1
  <2>2. CASE sem # 0
    <3>1. uiTasks' = Append(rest, "await") /\ sem' = 0
      BY <1>2, <2>2, <1>0 DEF RequestFrame
    <3>2. Range(rest) \cap Request = {} /\ ~callback'
      BY <1>2, <2>2
    <3>3. Range(uiTasks') = Range(rest) \cup {"await"}
      BY <1>0, <1>2, <3>1, RangeAppend
    <3>4. ASSUME NEW i \in DOMAIN uiTasks', NEW j \in DOMAIN uiTasks',
                 uiTasks'[i] \in Request, uiTasks'[j] \in Request
          PROVE  i = j
      <4>1. \A k \in 1..Len(rest) : uiTasks'[k] = rest[k] /\ rest[k] \in Range(rest)
        BY <1>2, <3>1 DEF Range
      <4>2. \A k \in DOMAIN uiTasks' : k \in 1..Len(rest) \/ k = Len(rest) + 1
        BY <1>2, <3>1
      <4> QED BY <3>2, <3>4, <4>1, <4>2
    <3> QED BY <3>1, <3>2, <3>3, <3>4
  <2> QED BY <2>1, <2>2
(* What is left when the first task is taken off. *)
<1>3. ASSUME uiTasks # <<>>
      PROVE  /\ Tail(uiTasks) \in Seq(UiTasks)
             /\ Range(uiTasks) = Range(Tail(uiTasks)) \cup {Head(uiTasks)}
             /\ \A i, j \in DOMAIN Tail(uiTasks) :
                  Tail(uiTasks)[i] \in Request /\ Tail(uiTasks)[j] \in Request => i = j
             /\ Head(uiTasks) \in Request => Range(Tail(uiTasks)) \cap Request = {}
  <2>1. /\ Head(uiTasks) = uiTasks[1] /\ Tail(uiTasks) \in Seq(UiTasks)
        /\ Len(Tail(uiTasks)) = Len(uiTasks) - 1
        /\ \A i \in 1..Len(Tail(uiTasks)) : Tail(uiTasks)[i] = uiTasks[i + 1]
        /\ Range(uiTasks) = Range(Tail(uiTasks)) \cup {Head(uiTasks)}
    BY <1>0, <1>3, RangeTail
  <2>2. \A i \in DOMAIN Tail(uiTasks) : i + 1 \in DOMAIN uiTasks /\ 1 \in DOMAIN uiTasks
    BY <1>0, <2>1
  <2>3. \A i, j \in DOMAIN Tail(uiTasks) :
          Tail(uiTasks)[i] \in Request /\ Tail(uiTasks)[j] \in Request => i = j
    BY <1>0, <2>1, <2>2
  <2>4. ASSUME Head(uiTasks) \in Request, NEW x \in Range(Tail(uiTasks)) \cap Request
        PROVE  FALSE
    <3>1. PICK i \in DOMAIN Tail(uiTasks) : x = Tail(uiTasks)[i]
      BY <2>4 DEF Range
    <3>2. uiTasks[1] \in Request /\ uiTasks[i + 1] \in Request /\ i \in Nat /\ i > 0
      BY <1>0, <2>1, <2>4, <3>1
    <3> QED BY <2>2, <3>1, <3>2
  <2> QED BY <2>1, <2>3, <2>4
<1>4. CASE ScheduleForView
  <2>1. uiTasks # <<>> /\ Head(uiTasks) = "schedule" /\ UNCHANGED callback
    BY <1>4 DEF ScheduleForView, NextUi, waiterVars
  <2>2. Range(Tail(uiTasks)) \cap Request = Range(uiTasks) \cap Request
    BY <1>3, <2>1
  <2>3. RequestFrame(Tail(uiTasks), TRUE)
    BY <1>4 DEF ScheduleForView
  <2> QED BY <1>2, <1>3, <2>1, <2>2, <2>3
<1>5. ASSUME NEW again \in BOOLEAN, ScheduleFrame(again)
      PROVE  OneRequest'
  <2>1. UNCHANGED callback /\ RequestFrame(uiTasks, again)
    BY <1>5 DEF ScheduleFrame, waiterVars
  <2> QED BY <1>0, <1>2, <2>1
<1>6. CASE AwaitVSync
  <2>1. /\ uiTasks # <<>> /\ Head(uiTasks) = "await" /\ uiTasks' = Tail(uiTasks)
        /\ callback' /\ sem' = sem /\ regenerate' = regenerate
    BY <1>6, Zenon DEF AwaitVSync, NextUi, animatorVars
  <2>2. "await" \in Range(uiTasks)
    BY <1>3, <2>1
  <2> QED BY <1>0, <1>3, <2>1, <2>2
<1>7. ASSUME NEW id \in Callbacks, RunSecondary(id)
      PROVE  OneRequest'
  <2>1. /\ uiTasks # <<>> /\ Head(uiTasks) = id /\ uiTasks' = Tail(uiTasks)
        /\ callback' = callback /\ sem' = sem /\ regenerate' = regenerate
    BY <1>7, Zenon DEF RunSecondary, NextUi, animatorVars, waiterVars
  <2>2. id \notin Request
    BY CallbacksAssumption
  <2> QED BY <1>0, <1>3, <2>1, <2>2
(* A vsync that gives the semaphore back was the only request. *)
<1>8. CASE DrawLastLayerTrees \/ BeginFrame
  <2>1. /\ uiTasks # <<>> /\ Head(uiTasks) = "vsync" /\ uiTasks' = Tail(uiTasks)
        /\ sem' = sem + 1 /\ callback' = callback /\ ~regenerate'
    <3>1. CASE DrawLastLayerTrees
      BY <3>1 DEF DrawLastLayerTrees, NextUi, waiterVars
    <3>2. CASE BeginFrame
      BY <3>2, Zenon DEF BeginFrame, NextUi, waiterVars
    <3> QED BY <1>8, <3>1, <3>2
  <2>2. "vsync" \in Range(uiTasks)
    BY <1>3, <2>1
  <2>3. sem = 0 /\ ~callback
    BY <1>0, <2>2
  <2> QED BY <1>0, <1>3, <2>1, <2>3
<1>9. CASE PipelineFull
  <2>1. /\ uiTasks # <<>> /\ Head(uiTasks) = "vsync"
        /\ uiTasks' = Append(Tail(uiTasks), "await")
        /\ sem' = sem /\ callback' = callback /\ regenerate' = regenerate
    BY <1>9, Zenon DEF PipelineFull, NextUi, animatorVars, waiterVars
  <2>2. "vsync" \in Range(uiTasks)
    BY <1>3, <2>1
  <2>3. sem = 0 /\ ~callback
    BY <1>0, <2>2
  <2>4. Range(Tail(uiTasks)) \cap Request = {}
    BY <1>3, <2>1
  <2>5. Range(uiTasks') = Range(Tail(uiTasks)) \cup {"await"}
    <3>1. Tail(uiTasks) \in Seq(UiTasks) /\ "await" \in UiTasks
      BY <1>0, <1>3, <2>1
    <3> QED BY <2>1, <3>1, RangeAppend
  <2>6. ASSUME NEW i \in DOMAIN uiTasks', NEW j \in DOMAIN uiTasks',
               uiTasks'[i] \in Request, uiTasks'[j] \in Request
        PROVE  i = j
    <3>1. Tail(uiTasks) \in Seq(UiTasks)
      BY <1>3, <2>1
    <3>2. \A k \in 1..Len(Tail(uiTasks)) :
            uiTasks'[k] = Tail(uiTasks)[k] /\ Tail(uiTasks)[k] \in Range(Tail(uiTasks))
      BY <2>1, <3>1 DEF Range
    <3>3. \A k \in DOMAIN uiTasks' :
            k \in 1..Len(Tail(uiTasks)) \/ k = Len(Tail(uiTasks)) + 1
      BY <2>1, <3>1
    <3> QED BY <2>4, <2>6, <3>2, <3>3
  <2> QED BY <1>0, <2>1, <2>3, <2>4, <2>5, <2>6
<1>10. ASSUME NEW id \in Callbacks, ScheduleSecondaryCallback(id)
       PROVE  OneRequest'
  BY <1>1, <1>10 DEF ScheduleSecondaryCallback, animatorVars
<1>11. CASE FireCallback
  <2> DEFINE fired == IF callback THEN <<"vsync">> ELSE <<>>
             before == uiTasks \o fired
  <2>1. /\ uiTasks' = before \o secondary /\ ~callback'
        /\ sem' = sem /\ regenerate' = regenerate
    <3>1. uiTasks' = uiTasks \o fired \o secondary
      BY <1>11, Zenon DEF FireCallback
    <3>2. ~callback' /\ sem' = sem /\ regenerate' = regenerate
      BY <1>11, Zenon DEF FireCallback, animatorVars
    <3> QED BY <3>1, <3>2
  <2>2. \A k \in DOMAIN secondary : secondary[k] \notin Request
    BY <1>0, CallbacksAssumption
  <2>3. CASE ~callback
    <3>1. fired = <<>> /\ before = uiTasks
      BY <1>0, <2>3
    <3>2. Len(uiTasks') = Len(uiTasks) + Len(secondary)
      BY <1>0, <2>1, <3>1
    <3>3. \A k \in DOMAIN uiTasks' :
            \/ k \in DOMAIN uiTasks /\ uiTasks'[k] = uiTasks[k]
            \/ uiTasks'[k] \notin Request
      BY <1>0, <2>1, <2>2, <3>1, <3>2
    <3>4. \A k \in DOMAIN uiTasks : k \in DOMAIN uiTasks' /\ uiTasks'[k] = uiTasks[k]
      BY <1>0, <2>1, <3>1, <3>2
    <3>5. Range(uiTasks') \cap Request = Range(uiTasks) \cap Request
      BY <3>3, <3>4 DEF Range
    <3> QED BY <1>0, <2>1, <2>3, <3>3, <3>5
  <2>4. CASE callback
    <3>1. fired = <<"vsync">> /\ before = Append(uiTasks, "vsync")
      BY <1>0, <2>4
    <3>2. before \in Seq(UiTasks) /\ Len(before) = Len(uiTasks) + 1
      BY <1>0, <3>1
    <3>3. Len(uiTasks') = Len(uiTasks) + 1 + Len(secondary)
      BY <1>0, <2>1, <3>2
    <3>4. \A k \in DOMAIN uiTasks : uiTasks[k] \notin Request
      BY <2>4 DEF Range
    <3>5. \A k \in DOMAIN uiTasks' : uiTasks'[k] \in Request => k = Len(uiTasks) + 1
      BY <1>0, <2>1, <2>2, <3>1, <3>2, <3>3, <3>4
    <3>6. /\ Len(uiTasks) + 1 \in DOMAIN uiTasks'
          /\ uiTasks'[Len(uiTasks) + 1] = "vsync"
      <4>1. uiTasks'[Len(uiTasks) + 1] = before[Len(uiTasks) + 1]
        <5>1. Len(uiTasks) + 1 \in 1..Len(before) /\ secondary \in Seq(Callbacks)
          BY <1>0, <3>2
        <5>2. \A s \in Seq(UiTasks), t \in Seq(Callbacks) :
                \A k \in 1..Len(s) : (s \o t)[k] = s[k]
          OBVIOUS
        <5> QED BY <2>1, <3>2, <5>1, <5>2
      <4>2. before[Len(uiTasks) + 1] = "vsync"
        BY <1>0, <3>1
      <4>3. Len(uiTasks) + 1 \in DOMAIN uiTasks'
        BY <1>0, <2>1, <3>2, <3>3
      <4> QED BY <4>1, <4>2, <4>3
    <3>7. Range(uiTasks') \cap Request # {}
      BY <3>6 DEF Range
    <3>8. sem = 0
      BY <1>0, <2>4
    <3> QED BY <2>1, <3>5, <3>7, <3>8
  <2> QED BY <2>3, <2>4
<1>12. CASE OnPlatformViewCreated
  <2>1. /\ uiTasks' = Append(uiTasks, "schedule")
        /\ sem' = sem /\ regenerate' = regenerate /\ callback' = callback
    BY <1>12 DEF OnPlatformViewCreated, animatorVars, waiterVars
  <2>2. Range(uiTasks') = Range(uiTasks) \cup {"schedule"}
    <3>1. "schedule" \in UiTasks
      BY <1>0
    <3> QED BY <1>0, <2>1, <3>1, RangeAppend
  <2>3. \A k \in DOMAIN uiTasks' :
          uiTasks'[k] \in Request => k \in DOMAIN uiTasks /\ uiTasks'[k] = uiTasks[k]
    BY <1>0, <2>1
  <2> QED BY <2>1, <2>2, <2>3
<1>13. CASE RasterStep
  BY <1>1, <1>13 DEF RasterStep, Draw, DrawNothing, Pop, DrawSuccess, DrawFailure,
     DrawRetry, DrawUnmerges, ReleaseSlot, TakeSlotAgain, CommitIfEmpty, SignalAgain,
     DrawReturns, Redraw, Setup, Teardown, uiVars, animatorVars, waiterVars
<1>14. CASE Render \/ EndFrame \/ SignalAvailable \/ OnAnimatorDraw
            \/ PostSetup \/ OnPlatformViewDestroyed \/ UNCHANGED vars
  BY <1>1, <1>14 DEF Render, EndFrame, SignalAvailable, OnAnimatorDraw, PostSetup,
     OnPlatformViewDestroyed, vars, uiVars, animatorVars, waiterVars
<1> QED BY <1>4, <1>5, <1>6, <1>7, <1>8, <1>9, <1>10, <1>11, <1>12, <1>13, <1>14
        DEF Next, UiStep, Framework, PlatformStep

(* Somebody who waits first asks the platform, once. *)
LEMMA AskedStep ==
  ASSUME TypeOK, AskedWhileWaiting, [Next]_vars
  PROVE  AskedWhileWaiting'
<1> USE DEF AskedWhileWaiting, One
<1>0. /\ armed \in Nat /\ callback \in BOOLEAN /\ secondary \in Seq(Callbacks)
  BY DEF TypeOK
<1>1. CASE UNCHANGED waiterVars
  BY <1>1 DEF waiterVars
<1>2. CASE AwaitVSync
  BY <1>0, <1>2 DEF AwaitVSync, AskForVsync
<1>3. ASSUME NEW id \in Callbacks, ScheduleSecondaryCallback(id)
      PROVE  AskedWhileWaiting'
  <2>1. Append(secondary, id) # <<>>
    BY <1>0
  <2> QED BY <1>0, <1>3, <2>1 DEF ScheduleSecondaryCallback, AskForVsync
<1>4. CASE FireCallback
  BY <1>0, <1>4 DEF FireCallback
<1>5. CASE RasterStep
  BY <1>1, <1>5 DEF RasterStep, Draw, DrawNothing, Pop, DrawSuccess, DrawFailure,
     DrawRetry, DrawUnmerges, ReleaseSlot, TakeSlotAgain, CommitIfEmpty, SignalAgain,
     DrawReturns, Redraw, Setup, Teardown, uiVars
<1>6. ASSUME UiStep \/ Framework \/ PlatformStep \/ UNCHANGED vars,
             ~AwaitVSync, ~FireCallback,
             \A id \in Callbacks : ~ScheduleSecondaryCallback(id)
      PROVE  UNCHANGED waiterVars
  BY <1>6 DEF UiStep, Framework, PlatformStep, ScheduleForView, RunSecondary,
     DrawLastLayerTrees, BeginFrame, PipelineFull, EndFrame, SignalAvailable,
     OnAnimatorDraw, ScheduleFrame, Render, OnPlatformViewCreated, PostSetup,
     OnPlatformViewDestroyed, uiVars, vars
<1> QED BY <1>1, <1>2, <1>3, <1>4, <1>5, <1>6 DEF Next

(* Whoever takes the token of the pipeline hands it on. *)
LEMMA WakeUpStep ==
  ASSUME TypeOK, TypeOK', SignalsAccounted, WakeUpComing, [Next]_vars
  PROVE  WakeUpComing'
<1> USE DEF WakeUpComing, DrawComing, In
<1>0. /\ queue \in Seq(Nat) /\ available \in Nat
      /\ rasterTasks \in Seq(RasterTasks)
      /\ {"draw", "last", "setup", "teardown"} \subseteq RasterTasks
      /\ rpc \in Drawing \cup {"idle"} /\ upc \in {"idle", "frame", "signal", "notify"}
  BY DEF TypeOK, RasterTasks
<1>1. CASE UNCHANGED <<queue, rasterTasks, upc, first, rpc, more, overtaken>>
  BY <1>1
<1>2. ASSUME NEW task \in RasterTasks, rasterTasks' = Append(rasterTasks, task)
      PROVE  Range(rasterTasks') = Range(rasterTasks) \cup {task}
  BY <1>0, <1>2, RangeAppend
<1>3. ASSUME NEW task \in RasterTasks \ {"draw"}, NextRaster(task),
             rasterTasks' = Tail(rasterTasks)
      PROVE  In(rasterTasks, "draw") => In(rasterTasks', "draw")
  BY <1>0, <1>3, RangeTail DEF NextRaster
<1>4. CASE UiStep
  <2>1. CASE DrawLastLayerTrees
    BY <1>0, <1>2, <2>1 DEF DrawLastLayerTrees, pipelineVars, drawVars
  <2>2. CASE BeginFrame
    BY <2>2, Zenon DEF BeginFrame, NextUi, drawVars
  <2>3. CASE EndFrame
    BY <2>3 DEF EndFrame, pipelineVars, drawVars, animatorVars
  <2>4. CASE SignalAvailable
    BY <2>4, Zenon DEF SignalAvailable, drawVars, animatorVars
  <2>5. CASE OnAnimatorDraw
    BY <1>0, <1>2, <2>5 DEF OnAnimatorDraw
  <2> QED BY <1>1, <1>4, <2>1, <2>2, <2>3, <2>4, <2>5
          DEF UiStep, ScheduleForView, AwaitVSync, RunSecondary, PipelineFull,
              pipelineVars, drawVars, animatorVars
<1>5. CASE RasterStep
  <2> USE DEF uiVars, animatorVars, pipelineVars, drawVars, surfaceVars
  <2>1. CASE Draw
    BY <2>1, Zenon DEF Draw
  <2>2. CASE DrawNothing
    <3>1. rpc = "idle" /\ available = 0 /\ rpc' = "idle" /\ upc' = upc /\ queue' = queue
      BY <2>2 DEF DrawNothing, NextRaster
    <3>2. queue # <<>> => upc = "signal"
      BY <1>0, <3>1 DEF SignalsAccounted, One
    <3>3. overtaken' = (overtaken \/ (upc = "signal" /\ ~first)) /\ first' = first
      BY <2>2, Zenon DEF DrawNothing
    <3> QED BY <3>1, <3>2, <3>3, Zenon
  <2>3. CASE Pop
    <3>1. more' = (queue' # <<>>)
      BY <2>3, Zenon DEF Pop
    <3> QED BY <3>1, Zenon
  <2>4. CASE DrawSuccess \/ DrawFailure \/ DrawRetry
    BY <2>4, Zenon DEF DrawSuccess, DrawFailure, DrawRetry
  <2>5. CASE DrawUnmerges
    BY <2>5, Zenon DEF DrawUnmerges
  <2>6. CASE ReleaseSlot \/ TakeSlotAgain
    <3>1. UNCHANGED <<queue, rasterTasks, upc, first, more, overtaken>>
      BY <2>6, Zenon DEF ReleaseSlot, TakeSlotAgain
    <3>2. rpc \in {"release", "reproduce"}
      BY <2>6, Zenon DEF ReleaseSlot, TakeSlotAgain
    <3>3. rpc # "pop" /\ rpc # "resignal"
      BY <3>2
    <3> QED BY <3>1, <3>3, Zenon
  <2>7. CASE CommitIfEmpty
    <3>1. CASE queue = <<>>
      BY <2>7, <3>1, Zenon DEF CommitIfEmpty
    <3>2. CASE queue # <<>>
      <4>1. UNCHANGED <<queue, rasterTasks, upc, first, more, overtaken>> /\ rpc = "recommit"
        BY <2>7, <3>2, Zenon DEF CommitIfEmpty
      <4>2. rpc # "pop" /\ rpc # "resignal"
        BY <4>1
      <4> QED BY <4>1, <4>2, Zenon
    <3> QED BY <3>1, <3>2
  <2>8. CASE SignalAgain
    BY <2>8, Zenon DEF SignalAgain
  <2>9. CASE DrawReturns
    <3>1. UNCHANGED <<queue, upc, first, overtaken>> /\ rpc = "post"
      BY <2>9, Zenon DEF DrawReturns
    <3>2. CASE more
      <4>1. rasterTasks' = Append(rasterTasks, "draw")
        BY <2>9, <3>2, Zenon DEF DrawReturns
      <4> QED BY <1>0, <1>2, <4>1
    <3>3. CASE ~more
      <4>1. rasterTasks' = rasterTasks
        BY <2>9, <3>3, Zenon DEF DrawReturns
      <4>2. rpc # "pop" /\ rpc # "resignal"
        BY <3>1
      <4> QED BY <3>1, <3>3, <4>1, <4>2, Zenon
    <3> QED BY <3>2, <3>3
  <2>10. CASE Redraw \/ Setup \/ Teardown
    <3>1. \E task \in RasterTasks \ {"draw"} :
            NextRaster(task) /\ rasterTasks' = Tail(rasterTasks)
      BY <1>0, <2>10 DEF Redraw, Setup, Teardown
    <3>2. UNCHANGED <<queue, upc, first, rpc, more, overtaken>>
      BY <2>10, Zenon DEF Redraw, Setup, Teardown
    <3> QED BY <1>3, <3>1, <3>2
  <2> QED BY <1>5, <2>1, <2>2, <2>3, <2>4, <2>5, <2>6, <2>7, <2>8, <2>9, <2>10
          DEF RasterStep
<1>6. CASE Framework
  <2>1. CASE Render
    <3>1. CASE queue = <<>>
      BY <2>1, <3>1, Zenon DEF Render
    <3>2. CASE queue # <<>>
      <4>1. UNCHANGED <<rasterTasks, rpc, more, overtaken>>
        BY <2>1, Zenon DEF Render, drawVars
      <4>2. upc # "signal" /\ upc # "notify"
        BY <2>1 DEF Render, Running
      <4> QED BY <3>2, <4>1, <4>2, Zenon
    <3> QED BY <3>1, <3>2
  <2> QED BY <1>1, <1>6, <2>1
          DEF Framework, ScheduleFrame, ScheduleSecondaryCallback,
              pipelineVars, drawVars, animatorVars
<1>7. CASE PlatformStep
  <2>1. CASE PostSetup \/ OnPlatformViewDestroyed
    <3>1. UNCHANGED <<queue, upc, first, rpc, more, overtaken>>
      BY <2>1, Zenon DEF PostSetup, OnPlatformViewDestroyed, uiVars, animatorVars,
         pipelineVars, drawVars
    <3>2. \E task \in RasterTasks : rasterTasks' = Append(rasterTasks, task)
      BY <1>0, <2>1 DEF PostSetup, OnPlatformViewDestroyed
    <3> QED BY <1>2, <3>1, <3>2
  <2> QED BY <1>1, <1>7, <2>1
          DEF PlatformStep, FireCallback, OnPlatformViewCreated, animatorVars,
              pipelineVars, drawVars
<1>8. CASE UNCHANGED vars
  BY <1>1, <1>8 DEF vars, uiVars, animatorVars, pipelineVars, drawVars
<1> QED BY <1>4, <1>5, <1>6, <1>7, <1>8 DEF Next

(* Trees keep their order: those that wait are no older than the one in hand,
   and that one no older than the one on screen. *)
LEMMA OrderStep ==
  ASSUME TypeOK, TypeOK', InOrder, [Next]_vars
  PROVE  InOrder' /\ shown' >= shown
<1> USE DEF InOrder, Holding
<1>0. /\ queue \in Seq(Nat) /\ item \in Nat /\ last \in Nat /\ shown \in Nat /\ trees \in Nat
      /\ rpc \in Drawing \cup {"idle"}
  BY DEF TypeOK
<1>1. CASE UNCHANGED <<queue, item, last, shown, trees, rpc>>
  BY <1>0, <1>1
<1>2. CASE UiStep
  BY <1>1, <1>2 DEF UiStep, ScheduleForView, AwaitVSync, RunSecondary,
     DrawLastLayerTrees, BeginFrame, PipelineFull, EndFrame, SignalAvailable,
     OnAnimatorDraw, animatorVars, pipelineVars, drawVars, surfaceVars
<1>3. CASE Framework
  <2>1. CASE Render
    <3>1. /\ queue' = Append(queue, trees + 1) /\ trees' = trees + 1
          /\ UNCHANGED <<item, last, shown, rpc>>
      BY <2>1 DEF Render, drawVars, surfaceVars
    <3>2. /\ DOMAIN queue' = 1..(Len(queue) + 1)
          /\ \A i \in DOMAIN queue : queue'[i] = queue[i]
          /\ queue'[Len(queue) + 1] = trees + 1
      BY <1>0, <3>1
    <3>3. \A i \in DOMAIN queue' : i \in DOMAIN queue \/ i = Len(queue) + 1
      BY <1>0, <3>2
    <3>4. \A i \in DOMAIN queue' : queue'[i] \in Nat /\ queue'[i] <= trees + 1
      BY <1>0, <3>2, <3>3
    <3>5. \A i, j \in DOMAIN queue' : i < j => queue'[i] <= queue'[j]
      BY <1>0, <3>2, <3>3
    <3>6. \A i \in DOMAIN queue' : shown <= queue'[i]
      BY <1>0, <3>2, <3>3
    <3>7. Holding => \A i \in DOMAIN queue' : item <= queue'[i]
      BY <1>0, <3>2, <3>3
    <3>8. /\ last' # 0 => last' = shown'
          /\ shown' <= trees' /\ shown' >= shown
          /\ Holding' => shown' <= item' /\ item' <= trees'
      BY <1>0, <3>1
    <3>9. \A i \in DOMAIN queue' : shown' <= queue'[i] /\ queue'[i] <= trees'
      BY <3>1, <3>4, <3>6
    <3>10. Holding' => \A i \in DOMAIN queue' : item' <= queue'[i]
      BY <3>1, <3>7
    <3> QED BY <3>5, <3>8, <3>9, <3>10
  <2>2. CASE ~Render
    <3>1. UNCHANGED <<queue, item, last, shown, trees, rpc>>
      BY <1>3, <2>2, Zenon DEF Framework, ScheduleFrame, ScheduleSecondaryCallback,
         animatorVars, pipelineVars, drawVars, surfaceVars
    <3> QED BY <1>1, <3>1
  <2> QED BY <2>1, <2>2
<1>4. CASE PlatformStep
  BY <1>1, <1>4 DEF PlatformStep, FireCallback, OnPlatformViewCreated, PostSetup,
     OnPlatformViewDestroyed, uiVars, animatorVars, pipelineVars, drawVars, surfaceVars
<1>5. CASE RasterStep
  <2> USE DEF uiVars, animatorVars, pipelineVars, drawVars, surfaceVars
  <2>1. CASE Draw
    BY <1>0, <2>1 DEF Draw, NextRaster
  <2>2. CASE DrawNothing
    BY <1>1, <2>2 DEF DrawNothing
  <2>3. CASE Pop
    <3>1. /\ queue # <<>> /\ item' = Head(queue) /\ queue' = Tail(queue)
          /\ UNCHANGED <<last, shown, trees>>
      BY <2>3 DEF Pop
    <3>2. /\ item' = queue[1] /\ 1 \in DOMAIN queue
          /\ Len(Tail(queue)) = Len(queue) - 1
          /\ \A i \in 1..Len(Tail(queue)) : Tail(queue)[i] = queue[i + 1]
      BY <1>0, <3>1
    <3>3. \A i \in DOMAIN queue' : i + 1 \in DOMAIN queue /\ queue'[i] = queue[i + 1] /\ 1 < i + 1
      BY <1>0, <3>1, <3>2
    <3>4. \A i \in DOMAIN queue' : shown <= queue'[i] /\ queue'[i] <= trees /\ item' <= queue'[i]
      BY <1>0, <3>2, <3>3
    <3>5. \A i, j \in DOMAIN queue' : i < j => queue'[i] <= queue'[j]
      <4>1. SUFFICES ASSUME NEW i \in DOMAIN queue', NEW j \in DOMAIN queue', i < j
                     PROVE  queue'[i] <= queue'[j]
        OBVIOUS
      <4>2. i \in Nat /\ j \in Nat
        BY <1>0, <3>1, <3>2
      <4> QED BY <1>0, <3>3, <4>1, <4>2
    <3>6. shown <= item' /\ item' <= trees
      BY <1>0, <3>2
    <3> QED BY <1>0, <3>1, <3>4, <3>5, <3>6
  <2>4. CASE DrawSuccess \/ DrawUnmerges
    BY <1>0, <2>4 DEF DrawSuccess, DrawUnmerges
  <2>5. CASE DrawFailure \/ DrawRetry
    BY <1>0, <2>5 DEF DrawFailure, DrawRetry
  <2>6. CASE ReleaseSlot
    BY <1>0, <2>6 DEF ReleaseSlot
  <2>7. CASE TakeSlotAgain
    BY <1>0, <2>7 DEF TakeSlotAgain
  <2>8. CASE CommitIfEmpty
    <3>1. CASE queue # <<>>
      <4>1. UNCHANGED <<queue, item, last, shown, trees>> /\ rpc' = "post"
        BY <2>8, <3>1, Zenon DEF CommitIfEmpty
      <4> QED BY <1>0, <4>1
    <3>2. CASE queue = <<>>
      <4>1. /\ UNCHANGED <<item, last, shown, trees>>
            /\ rpc = "recommit" /\ rpc' = "resignal" /\ queue' = <<item>>
        BY <2>8, <3>2, Zenon DEF CommitIfEmpty
      <4>2. DOMAIN queue' = {1} /\ queue'[1] = item
        BY <4>1
      <4>3. shown <= item /\ item <= trees
        BY <4>1
      <4> QED BY <1>0, <4>1, <4>2, <4>3
    <3> QED BY <3>1, <3>2
  <2>9. CASE SignalAgain
    BY <1>0, <2>9 DEF SignalAgain
  <2>10. CASE DrawReturns
    BY <1>0, <2>10 DEF DrawReturns
  <2>11. CASE Redraw
    BY <1>0, <2>11 DEF Redraw
  <2>12. CASE Setup
    BY <1>1, <2>12 DEF Setup
  <2>13. CASE Teardown
    BY <1>0, <2>13 DEF Teardown
  <2> QED BY <1>5, <2>1, <2>2, <2>3, <2>4, <2>5, <2>6, <2>7, <2>8, <2>9, <2>10,
             <2>11, <2>12, <2>13 DEF RasterStep
<1>6. CASE UNCHANGED vars
  BY <1>1, <1>6 DEF vars, uiVars, animatorVars, pipelineVars, drawVars, surfaceVars
<1> QED BY <1>2, <1>3, <1>4, <1>5, <1>6 DEF Next

-----------------------------------------------------------------------------
IInv ==
  /\ TypeOK
  /\ SlotsAccounted
  /\ SignalsAccounted
  /\ OneRequest
  /\ AskedWhileWaiting
  /\ WakeUpComing
  /\ InOrder

LEMMA Initially == Init => IInv
<1> SUFFICES ASSUME Init PROVE IInv
  OBVIOUS
<1>1. TypeOK
  <2>1. \A S : <<>> \in Seq(S)
    OBVIOUS
  <2> QED BY <2>1, DepthAssumption DEF Init, TypeOK, Drawing
<1>2. SlotsAccounted /\ SignalsAccounted /\ AskedWhileWaiting
  BY DepthAssumption DEF Init, SlotsAccounted, SignalsAccounted, AskedWhileWaiting, One
<1>3. OneRequest /\ WakeUpComing
  BY DEF Init, OneRequest, WakeUpComing, Request, Range
<1>4. InOrder
  BY DEF Init, InOrder, Holding
<1> QED BY <1>1, <1>2, <1>3, <1>4 DEF IInv

LEMMA Inductive == Spec => []IInv
<1>1. IInv /\ [Next]_vars => IInv'
  BY TypeStep, CountsStep, OneRequestStep, AskedStep, WakeUpStep, OrderStep DEF IInv
<1> QED BY Initially, <1>1, PTL DEF Spec

(* Every variable keeps its type. *)
THEOREM TypeCorrect == Spec => []TypeOK
<1>1. IInv => TypeOK
  BY DEF IInv
<1> QED BY Inductive, <1>1, PTL

(* Slots are neither lost nor made up, for any depth and whichever way a
   commit ends. *)
THEOREM SlotsRight == Spec => []SlotsAccounted
<1>1. IInv => SlotsAccounted
  BY DEF IInv
<1> QED BY Inductive, <1>1, PTL

(* There is one signal for every item, given or on its way: the consumer
   never takes the front of an empty queue. *)
THEOREM SignalsRight == Spec => []SignalsAccounted
<1>1. IInv => SignalsAccounted
  BY DEF IInv
<1> QED BY Inductive, <1>1, PTL

(* However requests, vsyncs and frames interleave, one request is under way
   while the semaphore is taken, and the platform has been asked once. *)
THEOREM RequestsRight == Spec => [](OneRequest /\ AskedWhileWaiting)
<1>1. IInv => OneRequest /\ AskedWhileWaiting
  BY DEF IInv
<1> QED BY Inductive, <1>1, PTL

(* An item that waits has a Draw to come, unless a Draw overtook a signal. *)
THEOREM WakeUpRight == Spec => []WakeUpComing
<1>1. IInv => WakeUpComing
  BY DEF IInv
<1> QED BY Inductive, <1>1, PTL

(* The screen never shows an older tree than before. *)
THEOREM ForwardOnly == Spec => NeverBackwards
<1>1. IInv /\ IInv' /\ [Next]_vars => [shown' >= shown]_vars
  BY OrderStep DEF IInv
<1> QED BY Inductive, <1>1, PTL DEF Spec, NeverBackwards

(* With a pipeline of depth 1, as where the platform thread is the raster
   thread, no signal is ever overtaken: what is committed is always first. *)
THEOREM DepthOneLosesNothing == ASSUME Depth = 1 PROVE Spec => []~overtaken
<1> DEFINE Inv == IInv /\ ~overtaken /\ (upc = "signal" => first)
<1>1. Init => Inv
  BY Initially DEF Init
<1>2. ASSUME Inv, [Next]_vars PROVE Inv'
  <2>1. IInv' /\ TypeOK /\ SlotsAccounted /\ SlotsAccounted'
    BY <1>2, TypeStep, CountsStep, OneRequestStep, AskedStep, WakeUpStep, OrderStep DEF IInv
  <2>2. CASE DrawNothing
    BY <1>2, <2>1, <2>2, Zenon DEF DrawNothing, uiVars, animatorVars
  <2>3. CASE Render
    <3>1. continuation /\ first' = (queue = <<>>) /\ overtaken' = overtaken
      BY <2>3, Zenon DEF Render
    <3>2. Len(queue) = 0
      BY <2>1, <3>1 DEF SlotsAccounted, TypeOK, One
    <3>3. queue = <<>>
      BY <2>1, <3>2 DEF TypeOK
    <3> QED BY <1>2, <2>1, <3>1, <3>3, Zenon
  <2>4. CASE UNCHANGED <<upc, first, overtaken>>
    BY <1>2, <2>1, <2>4, Zenon
  <2>5. CASE UiStep /\ ~(UNCHANGED <<upc, first, overtaken>>)
    <3>1. upc' # "signal" /\ overtaken' = overtaken
      BY <2>5 DEF UiStep, ScheduleForView, AwaitVSync, RunSecondary, DrawLastLayerTrees,
         BeginFrame, PipelineFull, EndFrame, SignalAvailable, OnAnimatorDraw, animatorVars
    <3> QED BY <1>2, <2>1, <3>1, Zenon
  <2>6. ASSUME RasterStep, ~DrawNothing PROVE UNCHANGED <<upc, first, overtaken>>
    BY <2>6 DEF RasterStep, Draw, Pop, DrawSuccess, DrawFailure, DrawRetry,
       DrawUnmerges, ReleaseSlot, TakeSlotAgain, CommitIfEmpty, SignalAgain,
       DrawReturns, Redraw, Setup, Teardown, uiVars, animatorVars
  <2>7. ASSUME Framework \/ PlatformStep \/ UNCHANGED vars, ~Render
        PROVE  UNCHANGED <<upc, first, overtaken>>
    BY <2>7 DEF Framework, PlatformStep, ScheduleFrame, ScheduleSecondaryCallback,
       FireCallback, OnPlatformViewCreated, PostSetup, OnPlatformViewDestroyed,
       vars, uiVars, animatorVars
  <2> QED BY <1>2, <2>2, <2>3, <2>4, <2>5, <2>6, <2>7 DEF Next
<1>3. Inv => ~overtaken
  OBVIOUS
<1> QED BY <1>1, <1>2, <1>3, PTL DEF Spec
=============================================================================
