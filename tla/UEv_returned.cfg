SPECIFICATION Spec
CONSTANTS
  Subsystem = "CounterTimer"
  Events = {eUct0Event, eUct1Event}
  EnableArgs = {TRUE}
  ConcurrentCalls = TRUE
  Diagnostics = TRUE
  BufferedInits = TRUE
  MaxUnreturned = 3
INVARIANTS TypeOK ReturnedOnce
