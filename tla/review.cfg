\* One document, one administrator, one crash; with notifications one text over two days.
SPECIFICATION MCSpec
CONSTANTS
  Docs = {d1}
  Contents = {c1, c2}
  None = None
  Clients = {u1}
  NotifyEnabled = FALSE
  NotifyOnPass = FALSE
  QueueLimit = 2
  JobsPerRound = 2
  Quiet = 2
  MaxBatch = 2
  MaxCrashes = 1
  MaxDays = 0
INVARIANTS NoLostEdit QuietAfterDelete NoRepeatScore RepeatNeedsCrash
PROPERTY EditsAreReviewed
