CONSTANTS
  Thread = {i1, i2, i3}
  NumConstructs = 2
  None = None
SPECIFICATION FairSpec
CHECK_DEADLOCK FALSE
INVARIANTS
  SingleExactlyOnce
  ReduceExact
PROPERTIES
  CopyprivateDelivers
  TeamCompletes
