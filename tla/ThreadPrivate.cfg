CONSTANTS
  NumTeams = 2
  MaxThreads = 3
  Sizes <- MCSizes
  NumCalls = 2
  Together = FALSE
  None = None
SPECIFICATION FairSpec
CHECK_DEADLOCK FALSE
INVARIANTS
  InBounds
  OwnCopy
PROPERTIES
  CallsReturn
