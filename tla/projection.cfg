SPECIFICATION Spec
CONSTANTS
  Publishers = {p1}
  Nodes <- MCNodes
  Spaces = {w1, w2}
  w1 = w1
  w2 = w2
  Months <- MCMonths
  None = None
  Folder = Folder
  Deleted = Deleted
  Limit = 1
  Retained = 1
  Values <- MCValues
  Baseline <- MCBaseline
  MaxEdits = 2
  MaxFaults = 1
  MaxOps = 1
INVARIANTS CountersMatchFacts StaleIsQueued IncrementalIsFull FramesValidate
