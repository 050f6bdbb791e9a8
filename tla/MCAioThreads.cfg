CONSTANTS
  NumFiles = 2
  NumContexts = 2
  OptThreads = 2
  OptDepth = 1
  OptIoIter = 2
  OptSubmit = 0
  OptStages = {0, 1}
  FileSize = 3
  ContextOffset = 1
  RecLen = 1
  Iterations <- RUN_FOREVER
  Stonewall = 1
  CtxEvents = 1
  InitSizes = {0}
  MaxFaults = 1
SPECIFICATION FairSpec
INVARIANTS OpersAccounted NeverStarved StageEnd
PROPERTIES ReturnUnlessError BarrierRefinement
CHECK_DEADLOCK FALSE
