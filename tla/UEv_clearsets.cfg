SPECIFICATION Spec
CONSTANTS
  Subsystem = "DigitalIn"
  Events = {eDInEvent}
  EnableArgs = {TRUE}
  ConcurrentCalls = FALSE
  Diagnostics = FALSE
  BufferedInits = FALSE
  MaxUnreturned = 0
PROPERTY NotifiedAsSet
