SPECIFICATION FairSpec
CONSTANTS
  ScanSize = 1
  FrameSize = 4
  NumFrames = 2
  TranSize = 6
  FifoSize = 6
  Word = 9
  MaxSetups = 3
  Checks = {FALSE}
  Requests = {3}
  Layouts = {"pairs"}
  Modes <- Queues
  MaxFaults = 1
  Reconfigures = TRUE
INVARIANTS TypeOK QueueOK PendingIsFresh GrantedIsPlayed OutputInOrder StoppedMeansIdle
PROPERTIES ImplementsRing FrameDoneRaised EndOfDataStops
