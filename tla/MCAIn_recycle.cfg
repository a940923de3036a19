SPECIFICATION Spec
CONSTANTS
  ScanSize = 1
  FrameSize = 2
  NumFrames = 3
  FifoSize = 4
  BlkXferValues = 2
  XferBufValues = 4
  Word = 16
  MaxSamples = 12
  MaxSetups = 2
  DspFaults = FALSE
  RacingConversions = FALSE
  ImmediateUpdates = FALSE
  Modes <- RecycleModes
  Waits = {TRUE}
INVARIANT RecycleKeepsNewest
