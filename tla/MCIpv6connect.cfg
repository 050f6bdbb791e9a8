CONSTANTS
  Types <- AllTypes
  Outer = 2
  Inner = 2
  MaxFaults = 1
SPECIFICATION ConnectFairSpec
INVARIANTS FailureIsReal FdsConserved
PROPERTIES EndsUnlessNoThread
CHECK_DEADLOCK FALSE
