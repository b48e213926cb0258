CONSTANTS
  IntMax = 15
  MaxThreads = 4
  Lowers = {0, 1}
  MaxTrip = 10
  Increments <- Increasing
  MaxChunk = 3
SPECIFICATION StaticSpec
CHECK_DEADLOCK FALSE
INVARIANTS
  IterationsExact
