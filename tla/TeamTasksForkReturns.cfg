CONSTANTS
  Thread = {i1, i2}
  Task = {t1, t2}
  NumBarriers = 0
SPECIFICATION FairSpec
CHECK_DEADLOCK FALSE
PROPERTIES
  ForkReturns
