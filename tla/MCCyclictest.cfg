CONSTANTS
  NumThreads = 2
  KernVars <- TwoVars
  KVARS = 3
  ValbufSize = 2
  Options <- ManyOptions
  MaxFaults = 1
SPECIFICATION FairSpec
INVARIANTS RestoredUnlessLost NoUseAfterFree PrintsItsCycle
PROPERTIES EndsUnlessItimer
CHECK_DEADLOCK FALSE
