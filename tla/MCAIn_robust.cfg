SPECIFICATION Spec
CONSTANTS
  ScanSize = 2
  FrameSize = 1
  NumFrames = 2
  FifoSize = 4
  BlkXferValues = 2
  XferBufValues = 4
  Word = 16
  MaxSamples = 4
  MaxSetups = 3
  DspFaults = TRUE
  RacingConversions = TRUE
  ImmediateUpdates = TRUE
  Modes <- AllModes
  Waits = {TRUE, FALSE}
INVARIANT TypeOK
PROPERTY FailedGetScansTakesNothing
