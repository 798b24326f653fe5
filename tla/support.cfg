\* Components that stand alone, one at a time; each finishes at its own bounds.
SPECIFICATION MCSpec
CONSTANTS
  None = None
  MaxTime = 5
  MaxFaults = 1
  Biz = {1, 2}
  Modes = {"metadata", "legacy"}
  Lag = 1
  Lookback = 1
  Day = 2
  PageSize = 1
  MaxPages = 2
  MaxEvents = 2
  Clients = {1, 2}
  Scanners = {1}
  DaysPerMonth = 2
  DailyLimit = 3
  MonthlyLimit = 4
  NodesLimit = 3
  DailyReserve = 1
  MonthlyReserve = 2
  ScanMax = 3
  MaxDays = 2
  MaxCalls = 4
  Senders = {1, 2}
  Interval = 2
  MaxReboots = 1
  Processes = {1, 2}
  TTL = 1
  MaxAge = 2
  Lease = 1
  Patience = 1
  MaxReads = 2
  CacheTime = 3
  PageMonths = {1, 2}
  Keys = {1}
  Workers = {"worker"}
  Builders = {"publisher"}
  DirectoryPages = 2
  MaxVersion = 2
  MaxUploads = 2
  Admins = {1, 2}
  Scopes = {"global", "rd"}
  Configs = {"c1", "c2"}
  Models = {"m1", "m2"}
  MaxSaves = 4
  Spaces = {1, 2}
  Robots = {"kr"}
  Nodes = {1, 2, 3}
  Users = {"a", "robot"}
  Days <- MCDays
  Rows <- MCRows
  Baselines <- MCBaselines
  Staffings <- MCStaffings
  BulkMin = 2
  TopRows = 2
  Folder = Folder
  Deleted = Deleted
  KeyOf <- MCKeyOf
  Official = {"a", "robot"}
  Ignored = {}
  Excluded = {}
  Reviews <- MCReviews
  WindowMonths = 1
  FactFiles = {1, 2}
  FactMonths = {1, 2}
  Facts <- MCFacts
  Resolutions <- MCResolutions
  BulkDay = 2
  Retained = 2
  MaxEdits = 3
INVARIANTS NothingSkipped BudgetHolds RequestsAreSpaced AnswersAreFresh IdentitiesSettle
INVARIANTS ViewsAgree SnapshotIsWhole DepartmentsStandAlone OneModelEnabled
PROPERTY PublishedAdvances
CHECK_DEADLOCK FALSE
