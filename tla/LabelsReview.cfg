\* Two requests and two backfills at once, four label transactions.
SPECIFICATION LabelsSpec
CONSTANTS
  u1 = u1
  u2 = u2
  a1 = a1
  a2 = a2
  b1 = b1
  b2 = b2
  NoUid = NoUid
  Uids <- MCUids
  WeakCsv <- MCUids
  Gold <- MCGold
  Requests <- MCRequests
  Backfills <- MCBackfills
  MaxClock = 4
SYMMETRY Actors
INVARIANTS
  LabelsTypeOK
  ReviewedStays
  RerunAddsNothing
  EarlyReservationHolds
CHECK_DEADLOCK FALSE
