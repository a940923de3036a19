SPECIFICATION Spec
CONSTANTS
  Subsystem = "AnalogIn"
  Events = {eScanDone}
  EnableArgs = {TRUE}
  ConcurrentCalls = FALSE
  Diagnostics = FALSE
  BufferedInits = FALSE
  MaxUnreturned = 0
PROPERTY NotifiedAsSet
