\* The docstring of ModelConfigHistory: every saved configuration can be rolled back.
SPECIFICATION Spec
CONSTANTS
  None = None
  Admins = {1, 2}
  Scopes = {"global", "rd"}
  Configs = {"c1", "c2", "c3"}
  Models = {"m1", "m2"}
  MaxSaves = 3
INVARIANT EverySaveCanBeUndone
CHECK_DEADLOCK FALSE
