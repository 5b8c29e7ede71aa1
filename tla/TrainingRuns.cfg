\* A run of three epochs and an evaluation, three faults.
SPECIFICATION FairTrainingSpec
CONSTANTS
  j1 = j1
  e1 = e1
  Jobs <- MCJobs
  Evals <- MCEvals
  Epochs = 3
  Batches = 2
  LogEvery = 1
  MaxLoss = 2
  MaxRuns = 2
  MaxFaults = 3
INVARIANTS
  TrainingTypeOK
  WeightsAreBest
  ReportsAgree
  StepsAreFresh
PROPERTIES
  RunsSettle
  EvaluationsSettle
CHECK_DEADLOCK FALSE
