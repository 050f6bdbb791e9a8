CONSTANTS
  NumThreads = 4
  Loops = 2
  MaxEvents = 1
  MaxFaults = 1
SPECIFICATION FairSpec
INVARIANTS TokenAlive RoundsInOrder NoUseAfterFree
PROPERTIES EndsOrStuck
CHECK_DEADLOCK FALSE
