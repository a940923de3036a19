SPECIFICATION Spec
CONSTANTS
  Processes = {p1, p2}
  Minors = {"AIN", "AOUT", "UCT", "DSPCT", "DRV"}
  Acquiring = {"AIN", "AOUT"}
  Sizes = {1, 2}
  MaxBuffers = 2
  OpensOverlap = FALSE
  BufferCallsOverlap = FALSE
INVARIANTS OneHolder InUseIsHeld NothingLeft
PROPERTY FreedOnceWhole
