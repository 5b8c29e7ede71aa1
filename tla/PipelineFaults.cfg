\* One upload in another format, two faults, one retry, two instances.
SPECIFICATION FairSpec
CONSTANTS
  o1 = o1
  p1 = p1
  w1 = w1
  w2 = w2
  NoRow = NoRow
  None = None
  Objaverse <- MCNoUids
  Uploads <- MCOneUpload
  UploadSuffix <- MCUploadSuffix
  TexturedSeeds <- MCNoUids
  Workers <- MCWorkers
  Poison <- MCNoPoison
  NumViews = 2
  MaxAttempts = 2
  MaxSubmissions = 0
  MaxFaults = 2
  MaxReplays = 1
INVARIANTS
  NothingLost
PROPERTY AcceptedIsSettled
CHECK_DEADLOCK FALSE
