\* As StorageTools, with what the cleanup says of the next reconciliation.
SPECIFICATION StorageSpec
CONSTANTS
  u1 = u1
  Uids <- MCUids
  Annotated <- MCUids
  NumViews = 2
  MaxLabels = 0
PROPERTY
  MissingMeshIsPending
CHECK_DEADLOCK FALSE
