SPECIFICATION FairSpec
CONSTANTS
  DspFaults = FALSE
  Disciplined = TRUE
  Diagnostics = TRUE
  EnableArgs = {TRUE}
  MaxUsers = 2
PROPERTY ServedIsReenabled
