\* Two rows of one document, two attempts each.
SPECIFICATION FairSpec
CONSTANTS
  N = 2
  Kinds = {"remote", "local"}
  Biz = {b1}
  Nodes = {n1}
  Batch = 1
  SweepBatch = 1
  LocateBudget = 1
  FinishBudget = 1
  MaxAttempts = 2
  CompBatch = 1
  MaxFaults = 1
  MaxRuns = 1
  None = none
INVARIANTS AttemptsArePaid AppliedIsFresh
PROPERTIES EndsOnce EveryRowEnds
