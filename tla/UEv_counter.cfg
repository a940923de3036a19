SPECIFICATION FairSpec
CONSTANTS
  Subsystem = "CounterTimer"
  Events = {eUct0Event, eUct1Event}
  EnableArgs = {TRUE}
  ConcurrentCalls = FALSE
  Diagnostics = FALSE
  BufferedInits = FALSE
  MaxUnreturned = 0
INVARIANTS OnItsWay WokenWithEvents
PROPERTY EventEndsWait
