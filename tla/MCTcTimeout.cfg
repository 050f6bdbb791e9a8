CONSTANTS
  TST_TOTAL = 1
  Users = {u1, u2}
  Groups = {g1, g2}
  Sleepers = {s1}
  ExitCodes = 2
  MaxTests = 1
  MaxFails = 1
SPECIFICATION Spec
INVARIANT TimeoutAttributed
CHECK_DEADLOCK FALSE
