CONSTANTS
  NumFiles = 2
  NumContexts = 2
  OptThreads = 1
  OptDepth = 2
  OptIoIter = 2
  OptSubmit = 4
  OptStages = {0, 1}
  FileSize = 5
  ContextOffset = 1
  RecLen = 1
  Iterations <- RUN_FOREVER
  Stonewall = 1
  CtxEvents = 3
  InitSizes = {0, 5}
  MaxFaults = 0
SPECIFICATION FairSpec
INVARIANTS Bookkeeping StageComplete RotationFair
PROPERTIES AllReturn
CHECK_DEADLOCK FALSE
