\* The comment of enqueue_review: two clicks cannot queue one document twice.
SPECIFICATION Spec
CONSTANTS
  Docs = {d1}
  Contents = {c1}
  None = None
  Clients = {u1, u2}
  NotifyEnabled = FALSE
  NotifyOnPass = FALSE
  QueueLimit = 2
  JobsPerRound = 1
  Quiet = 1
  MaxBatch = 1
  MaxCrashes = 0
  MaxDays = 0
INVARIANT ClicksQueueOnce
