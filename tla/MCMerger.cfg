SPECIFICATION Spec
CONSTANTS
  Shells = {a, b}
  Root = a
  Depth = 2
  Term = 3
  Lag = 1
  MaxInputs = 7
INVARIANTS MergedByLease AbortNeedsOther OnRightThread
  OverlapOnlyAtTheEnd StuckOnlyIfThawed
PROPERTY TreesServed
\* The trees end, a check fails, or the platform thread waits for itself.
CHECK_DEADLOCK FALSE
