\* One ingested model whose mesh normalize rejects, brought back twice.
SPECIFICATION FairSpec
CONSTANTS
  o1 = o1
  p1 = p1
  w1 = w1
  w2 = w2
  NoRow = NoRow
  None = None
  Objaverse <- MCOneModel
  Uploads <- MCNoUids
  UploadSuffix <- MCNoUploads
  TexturedSeeds <- MCNoUids
  Workers <- MCWorkers
  Poison <- MCDegenerate
  NumViews = 2
  MaxAttempts = 2
  MaxSubmissions = 1
  MaxFaults = 1
  MaxReplays = 2
PROPERTY PoisonIsQuarantined
CHECK_DEADLOCK FALSE
