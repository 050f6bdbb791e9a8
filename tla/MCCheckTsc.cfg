CONSTANTS
  Cpus = {0, 1, 3}
  MaxCpus = 32
  Threshold = 1
  NumIters = 2
  MaxWord = 64
  MaxSkew = 3
  MaxTime = 2
  MaxFaults = 1
SPECIFICATION FairSpec
INVARIANTS DeltaAccurate PassHonest
PROPERTIES ReturnsUnlessSlaveError
CHECK_DEADLOCK FALSE
