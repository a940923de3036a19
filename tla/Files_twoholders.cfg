SPECIFICATION Spec
CONSTANTS
  Processes = {p1, p2}
  Minors = {"AIN", "DIN"}
  Acquiring = {"AIN"}
  Sizes = {1, 2}
  MaxBuffers = 2
  OpensOverlap = TRUE
  BufferCallsOverlap = FALSE
INVARIANT OneHolder
