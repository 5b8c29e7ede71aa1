\* One failure: the write that should complete the run.
SPECIFICATION TrainingSpec
CONSTANTS
  j1 = j1
  e1 = e1
  Jobs <- MCJobs
  Evals <- MCEvals
  Epochs = 1
  Batches = 2
  LogEvery = 1
  MaxLoss = 1
  MaxRuns = 2
  MaxFaults = 1
INVARIANT NeverLingers
CHECK_DEADLOCK FALSE
