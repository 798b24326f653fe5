\* Two libraries and the watcher.
\* The month may end with nothing left to do.
CHECK_DEADLOCK FALSE
SPECIFICATION FairSpec
CONSTANTS
  l1 = l1
  l2 = l2
  Scopes <- MCScopes
  Libs = {l1, l2}
  Watcher = Watcher
  Procs = {Watcher}
  None = None
  MaxAttempts = 2
  SliceSize = 2
  MaxRecoveries = 1
  MaxResumes = 1
  MaxBreaks = 1
INVARIANT AttemptsAreFair
PROPERTIES CollectedOnce RateLimitStopsAll CycleEnds
