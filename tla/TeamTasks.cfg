CONSTANTS
  Thread = {i1, i2}
  Task = {t1, t2}
  NumBarriers = 2
SPECIFICATION FairSpec
CHECK_DEADLOCK FALSE
INVARIANTS
  TypeOK
  CountersExact
  TeamOutlivesTasks
PROPERTIES
  BarrierCompletesTasks
  TaskwaitCompletesChildren
  ImplementsRegion
  TasksEnd
  ThreadsEnd
