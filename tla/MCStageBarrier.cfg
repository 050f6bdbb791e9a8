CONSTANTS
  Threads = {t1, t2, t3, t4}
  MaxRound = 3
SPECIFICATION FairSpec
PROPERTIES ImplementsStageSync AllStagesDone
CHECK_DEADLOCK FALSE
