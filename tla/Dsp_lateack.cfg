SPECIFICATION Spec
CONSTANTS
  FWDownloadData <- TwoSegments
  FWDnldLoader <- Loader
  dwFWExecAdrs = 4
  Depth = 2
  MaxLoads = 1
  MaxCalls = 2
CHECK_DEADLOCK FALSE
INVARIANT AckIsOwn
