SPECIFICATION FairSpec
CONSTANTS
  DspFaults = TRUE
  Disciplined = TRUE
  Diagnostics = TRUE
  EnableArgs = {TRUE}
  MaxUsers = 4
INVARIANTS UsersCounted RunningIsServed
PROPERTY RequestServed
