SPECIFICATION FairSpec
CONSTANTS
  c1 = c1
  Callbacks <- MCCallbacks
  Depth = 2
  MaxTrees = 2
  MaxPosted = 1
CHECK_DEADLOCK FALSE
INVARIANTS
  SlotsAccounted SignalsAccounted OneRequest WakeUpComing
PROPERTIES
  NeverBackwards TakenUnlessOvertaken RequestServed SecondaryServed
