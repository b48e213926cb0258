CONSTANTS
  IntMax = 15
  NumThreads = 2
  Programs <- NowaitPrograms
SPECIFICATION Spec
CHECK_DEADLOCK FALSE
INVARIANTS
  NoIterationTwice
