CONSTANTS
  Queues = {"platform", "raster", "ui"}
  DartQueues = {"ui"}
  Mergeable <- Pairs
  None = None
  MaxTasks = 3
  MaxTime = 1
  MaxFrames = 2
SPECIFICATION Spec
INVARIANTS
  OneOfThreeStates
  SleeperWillWake
  OneAtATime
PROPERTIES
  FramesFirst
  EveryTaskRuns
CHECK_DEADLOCK FALSE
