----------------------------- MODULE MCTraining -----------------------------
(* TrainingRun with one training process and one evaluation.  Processes of *)
(* one kind share nothing but the table their rows are in.                 *)
EXTENDS TrainingRun

CONSTANTS j1, e1

MCJobs == {j1}
MCEvals == {e1}

=============================================================================
