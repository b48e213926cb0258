CONSTANTS
  c1 = c1
  c2 = c2
  None = None
  Caller = {c1, c2}
  FirstCaller = {c1}
  InitialNumThreads = 2
  Programs <- MCMixedPrograms
SPECIFICATION Spec
CHECK_DEADLOCK FALSE
INVARIANT TeamSizeAgrees
