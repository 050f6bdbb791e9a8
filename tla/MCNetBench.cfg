CONSTANTS
  StreamList <- Streams
  StartWait = 4
  ServerWait = 2
  ClientWait = 2
  RunLimits <- Limits
  MaxFaults = 1
SPECIFICATION FairSpec
INVARIANTS ServerServesRun ServerEndsClean
PROPERTIES RoleEnds
CHECK_DEADLOCK FALSE
