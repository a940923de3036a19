SPECIFICATION Spec
CONSTANTS
  Processes = {1, 2, 3}
  NbBoards = 2
  Descriptor <- TwoAlike
  MaxLoads = 3
  Faults = {}
INVARIANT DescribedByOne
