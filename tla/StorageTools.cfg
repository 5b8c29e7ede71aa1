\* One model, ingested or uploaded, with two views and two labels.
SPECIFICATION StorageSpec
CONSTANTS
  u1 = u1
  Uids <- MCUids
  Annotated <- MCUids
  NumViews = 2
  MaxLabels = 2
INVARIANTS
  StorageTypeOK
  RowsAreBacked
PROPERTIES
  KeepsTheDataset
  IndexAgrees
  DecisionsStay
CHECK_DEADLOCK FALSE
