\* Retrying the failure of a textured job.
SPECIFICATION HistorySpec
CONSTANTS
  o1 = o1
  w1 = w1
  NoRow = NoRow
  None = None
  Objaverse <- MCOneModel
  Uploads = {}
  UploadSuffix <- MCNoUploads
  TexturedSeeds <- MCOneModel
  Workers <- MCWorkers
  Poison <- MCPoison
  NumViews = 1
  MaxAttempts = 1
  MaxSubmissions = 2
  MaxFaults = 0
  MaxReplays = 1
PROPERTY ReplayRequeuesTheFailedJob
CHECK_DEADLOCK FALSE
