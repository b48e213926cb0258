CONSTANTS
  Thread = {i1, i2, i3}
  i1 = i1
  i2 = i2
  i3 = i3
  l1 = l1
  l2 = l2
  Name = {"a", "b"}
  Lock = {l1, l2}
  Programs <- MCPrograms
  None = None
SPECIFICATION FairSpec
CHECK_DEADLOCK FALSE
INVARIANTS
  UpdatesExact
  ReduceComplete
  HoldersGoOn
PROPERTIES
  ProgramsComplete
