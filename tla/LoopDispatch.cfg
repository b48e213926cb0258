CONSTANTS
  IntMax = 31
  NumThreads = 3
  Programs <- BarrierPrograms
SPECIFICATION FairSpec
CHECK_DEADLOCK FALSE
INVARIANTS
  NoIterationTwice
  AllIterationsRun
  OrderedInSequence
  NoDangling
PROPERTIES
  LoopsComplete
