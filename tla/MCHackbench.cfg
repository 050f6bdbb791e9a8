CONSTANTS
  NumGroups = 1
  NumFds = 2
  Loops = 2
  DataSize = 2
  Capacity = 3
  ReadyCapacity = 2
  MaxFaults = 1
SPECIFICATION HackFairSpec
INVARIANTS StartTogether TimeMeansDelivered
PROPERTIES EndsUnlessFault KilledIsNoticed
CHECK_DEADLOCK FALSE
