CONSTANTS
  NCpus = 2
  Threshold = 1
  MaxSkew = 2
  MaxTime = 2
  MaxLoops = 3
SPECIFICATION FairSpec
INVARIANTS NoFalseWarp VerdictMatchesWorst EveryWarpCounted
PROPERTIES RunTestReturns
CHECK_DEADLOCK FALSE
