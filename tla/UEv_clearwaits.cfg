SPECIFICATION Spec
CONSTANTS
  Subsystem = "AnalogIn"
  Events = {eScanDone}
  EnableArgs = {TRUE}
  ConcurrentCalls = TRUE
  Diagnostics = FALSE
  BufferedInits = FALSE
  MaxUnreturned = 0
PROPERTY ClearedIsSignalled
