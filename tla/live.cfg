\* Convergence of the outbox and of the projection, one at a time.
SPECIFICATION FairSpec
CONSTANTS
  None = None
  Folder = Folder
  Deleted = Deleted
  Absent = absent
PROPERTIES Delivery CatchesUp
