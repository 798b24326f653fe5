\* A restore or delete event dropped against a row that does not reflect it.
SPECIFICATION FairSpec
CONSTANTS
  Files = {1, 3}
  Folders = {2}
  Root = Root
  Gone = Gone
  None = None
  PageSize = 1
  Batch = 1
  DeleteMisses = 2
  MaxRuns = 1
  MaxChanges = 2
  MaxFaults = 1

PROPERTY SupersededIsNewer
\* Nothing is left to do once the bounds are used up.
CHECK_DEADLOCK FALSE
