SPECIFICATION Spec
CONSTANTS
  Subsystem = "DigitalIn"
  Events = {eDInEvent}
  EnableArgs = {TRUE}
  ConcurrentCalls = FALSE
  Diagnostics = FALSE
  BufferedInits = TRUE
  MaxUnreturned = 0
INVARIANT OnItsWay
