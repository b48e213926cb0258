CONSTANTS
  c1 = c1
  c2 = c2
  None = None
  Caller = {c1, c2}
  FirstCaller = {c1}
  InitialNumThreads = 2
  Programs <- MCPrograms
SPECIFICATION FairSpec
CHECK_DEADLOCK FALSE
INVARIANTS
  OneRuntime
  StartedBeforeUse
  FramesOutlive
  RegionEndsFirst
  TeamSizeAgrees
  RequestHonoured
PROPERTIES
  CallsReturn
