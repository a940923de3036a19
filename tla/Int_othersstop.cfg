SPECIFICATION Spec
CONSTANTS
  DspFaults = FALSE
  Disciplined = FALSE
  Diagnostics = FALSE
  EnableArgs = {TRUE}
  MaxUsers = 3
INVARIANT RunningIsServed
