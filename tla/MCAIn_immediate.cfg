SPECIFICATION Spec
CONSTANTS
  ScanSize = 1
  FrameSize = 2
  NumFrames = 3
  FifoSize = 4
  BlkXferValues = 2
  XferBufValues = 4
  Word = 64
  MaxSamples = 5
  MaxSetups = 2
  DspFaults = FALSE
  RacingConversions = FALSE
  ImmediateUpdates = TRUE
  Modes <- QueueModes
  Waits = {TRUE}
INVARIANT StreamUnbroken
