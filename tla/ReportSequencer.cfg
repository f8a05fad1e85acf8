SPECIFICATION FairSpec
CONSTANTS
  r1 = r1
  r2 = r2
  Refs <- MCRefs
  Capacity = 2
  Volumes = {1, 3}
  GapCapacity = 2
  CacheCapacity = 1
  MaxReports <- MCMaxReports
  None = None
INVARIANTS OrdersSound ExactlyOnce NoReadyReportStranded LateReportsRecognised ReservedIsLiveVolume
PROPERTY CatchesUp
CHECK_DEADLOCK FALSE
