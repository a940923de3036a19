SPECIFICATION Spec
CONSTANTS
  FWDownloadData <- TwoSegments
  FWDnldLoader <- Loader
  dwFWExecAdrs = 4
  Depth = 2
  MaxLoads = 3
  MaxCalls = 2
CHECK_DEADLOCK FALSE
INVARIANTS InStep NoMixing LoadedWhole
PROPERTY FailsOnlyLate
