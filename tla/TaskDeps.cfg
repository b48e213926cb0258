CONSTANTS
  i1 = i1
  i2 = i2
  x = x
  y = y
  Thread = {i1, i2}
  Task = {t1, t2, t3}
  Creator = {i1, i2}
  Addr = {x, y}
  Depends <- MCDepends
SPECIFICATION FairSpec
CHECK_DEADLOCK FALSE
INVARIANTS
  DependencesHold
  CountersExact
PROPERTIES
  BarrierCompletesTasks
  TaskwaitCompletesChildren
  ImplementsOrder
  RegionEnds
