\* Two files and a folder, two remote changes and a fault during one run.
SPECIFICATION FairSpec
CONSTANTS
  Files = {1, 3}
  Folders = {2}
  Root = Root
  Gone = Gone
  None = None
  PageSize = 1
  Batch = 1
  DeleteMisses = 2
  MaxRuns = 1
  MaxChanges = 2
  MaxFaults = 1
INVARIANTS MissesHaveCause Calibrated
PROPERTIES WalkKeepsNewer RunsComplete
\* Nothing is left to do once the bounds are used up.
CHECK_DEADLOCK FALSE
