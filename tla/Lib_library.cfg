SPECIFICATION Spec
CONSTANTS
  Processes = {1, 2, 3}
  NbBoards = 2
  Descriptor <- TwoAlike
  MaxLoads = 3
  Faults = {"death", "failure"}
INVARIANTS SegmentGoes EveryBoardDescribed OnlyWordsSet ResultIsTheDrivers
