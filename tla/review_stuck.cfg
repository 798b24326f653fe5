\* The docstring of sweep_stale_runs: interrupted jobs are queued again.
SPECIFICATION FairSpec
CONSTANTS
  Docs = {d1}
  Contents = {c1}
  None = None
  Clients = {u1}
  NotifyEnabled = FALSE
  NotifyOnPass = FALSE
  QueueLimit = 1
  JobsPerRound = 1
  Quiet = 1
  MaxBatch = 1
  MaxCrashes = 1
  MaxDays = 0
PROPERTY InterruptedJobsReturn
