\* One ingested model, both arms, two instances.
SPECIFICATION Spec
CONSTANTS
  o1 = o1
  p1 = p1
  w1 = w1
  w2 = w2
  NoRow = NoRow
  None = None
  Objaverse <- MCOneModel
  Uploads <- MCNoUids
  UploadSuffix <- MCNoUploads
  TexturedSeeds <- MCOneModel
  Workers <- MCWorkers
  Poison <- MCNoPoison
  NumViews = 2
  MaxAttempts = 2
  MaxSubmissions = 2
  MaxFaults = 1
  MaxReplays = 1
SYMMETRY Instances
INVARIANTS
  TypeOK
  NothingLost
  DoneMeansStored
  ReplayedIsUnderway
PROPERTY KeepsPromise
CHECK_DEADLOCK FALSE
