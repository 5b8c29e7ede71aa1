---------------------------- MODULE TrainingRun ----------------------------
(***************************************************************************)
(* The lifecycle of training runs and of their evaluations: the jobs that  *)
(* Vertex runs on spot machines (server/app/training_jobs.py and the       *)
(* launch endpoints of api.py), the training loop with its bookkeeping and *)
(* its one checkpoint blob (ml/train.py), and the scoring of a run         *)
(* (ml/evaluate.py, load_run_model in ml/infer.py).                        *)
(*                                                                         *)
(* Every helper that writes commits a transaction of its own, so others    *)
(* see a run between any two of them, and a process can raise or be killed *)
(* there.  What is trained on is left out; a validation loss is one of a   *)
(* few values, or NaN.                                                     *)
(***************************************************************************)
EXTENDS Naturals

CONSTANTS
  Jobs,       \* training processes: launched, or started by hand
  Evals,      \* evaluation processes
  Epochs,     \* Config.epochs
  Batches,    \* batches of an epoch
  LogEvery,   \* Config.log_every
  MaxLoss,    \* validation losses are 1 .. MaxLoss, and NaN
  MaxRuns,    \* bound: rows of training_run
  MaxFaults   \* bound: exceptions, kills, writes that fail

ASSUME TrainingAssumption ==
  /\ Epochs \in Nat \ {0}
  /\ Batches \in Nat \ {0}
  /\ LogEvery \in Nat \ {0}
  /\ MaxLoss \in Nat \ {0}
  /\ MaxRuns \in Nat
  /\ MaxFaults \in Nat

VARIABLES
  run,         \* run[r]: a row of training_run
  metric,      \* metric[r]: its rows of training_metric
  weights,     \* weights[r]: the epoch whose weights are stored at its key, or 0
  job,         \* job[j]: a training process and its local variables
  evaluation,  \* evaluation[e]: the status of e's row, and the epoch it reports on
  scorer,      \* scorer[e]: an evaluation process
  faults       \* how many more things may go wrong

trainingVars == <<run, metric, weights, job, evaluation, scorer, faults>>

RunIds == 1 .. MaxRuns
EpochOrNone == 0 .. Epochs
Statuses == {"none", "running", "completed", "failed"}

(* NoLoss is what an empty validation split gives.  NaN is less than       *)
(* nothing, and nothing is less than NaN.                                  *)
NoLoss == 0
NaN == MaxLoss + 1
Losses == NoLoss .. NaN
Less(x, y) == x # NaN /\ y # NaN /\ x < y

Policies == {"best_val_loss", "last"}

NoRun == [status |-> "none", uri |-> FALSE, report |-> 0]
NoJob == [pc |-> "none", run |-> 0, epoch |-> 0, batch |-> 0, val |-> NoLoss,
          best |-> NoLoss, kept |-> 0, policy |-> "last", hasVal |-> FALSE]
NoEvaluation == [status |-> "none", epoch |-> 0]
NoScorer == [pc |-> "none", run |-> 0, model |-> 0]

(* A process is over when it exits, with its outcome recorded or, the last *)
(* write having failed, not; or when its machine is taken away.            *)
Over == {"ended", "unrecorded", "killed"}

TrainingTypeOK ==
  /\ run \in [RunIds -> [status : Statuses, uri : BOOLEAN, report : EpochOrNone]]
  /\ metric \in [RunIds -> SUBSET [step : 0 .. Epochs * Batches, val : Losses]]
  /\ weights \in [RunIds -> EpochOrNone]
  /\ job \in [Jobs ->
       [pc : Over \cup {"none", "queued", "train", "validate", "keep", "report",
                        "finalize", "failing"},
        run : 0 .. MaxRuns, epoch : EpochOrNone, batch : 0 .. Batches - 1, val : Losses,
        best : Losses, kept : EpochOrNone, policy : Policies, hasVal : BOOLEAN]]
  /\ evaluation \in [Evals -> [status : Statuses, epoch : EpochOrNone]]
  /\ scorer \in [Evals ->
       [pc : Over \cup {"none", "queued", "row", "blob", "score", "failing"},
        run : 0 .. MaxRuns, model : EpochOrNone]]
  /\ faults \in 0 .. MaxFaults

TrainingInit ==
  /\ run = [r \in RunIds |-> NoRun]
  /\ metric = [r \in RunIds |-> {}]
  /\ weights = [r \in RunIds |-> 0]
  /\ job = [j \in Jobs |-> NoJob]
  /\ evaluation = [e \in Evals |-> NoEvaluation]
  /\ scorer = [e \in Evals |-> NoScorer]
  /\ faults = MaxFaults

Fault == faults > 0 /\ faults' = faults - 1

-----------------------------------------------------------------------------
(* Training.                                                               *)

JobTo(j, pc) == job' = [job EXCEPT ![j].pc = pc]

(* submit_training_job: what Vertex accepts waits for a machine.  Whether  *)
(* the caller was told so is left out: a submit that timed out may have    *)
(* been accepted, and one that was refused changes nothing.                *)
Submit(j, policy) == job' = [job EXCEPT ![j].pc = "queued", ![j].policy = policy]

(* launch_training_run, or train.py by hand.  Vertex starting a preempted  *)
(* job once more is another process.                                       *)
Launch(j) ==
  /\ job[j].pc = "none"
  /\ \E p \in Policies : Submit(j, p)
  /\ UNCHANGED <<run, metric, weights, evaluation, scorer, faults>>

(* main, up to the run row: a bad option or nothing to train on ends it.   *)
StopBeforeRun(j) ==
  /\ job[j].pc = "queued"
  /\ JobTo(j, "ended")
  /\ UNCHANGED <<run, metric, weights, evaluation, scorer, faults>>

(* The validation split may be empty.                                      *)
CreateRun(j) ==
  /\ job[j].pc = "queued"
  /\ \E r \in RunIds, hasVal \in BOOLEAN :
       /\ run[r].status = "none"
       /\ \A q \in 1 .. r - 1 : run[q].status # "none"
       /\ run' = [run EXCEPT ![r].status = "running"]
       /\ job' = [job EXCEPT ![j] = [@ EXCEPT !.pc = "train", !.run = r, !.epoch = 1,
                                              !.hasVal = hasVal]]
  /\ UNCHANGED <<metric, weights, evaluation, scorer, faults>>

(* The step whose metric row comes next.                                   *)
Step(j) == (job[j].epoch - 1) * Batches + job[j].batch

Log(j, val) ==
  metric' = [metric EXCEPT ![job[j].run] = @ \cup {[step |-> Step(j), val |-> val]}]

(* An epoch's last batch is logged with its validation loss.               *)
(* (Mutant: it is logged on the interval as well.)                         *)
TrainBatchLogsAll(j) ==
  /\ job[j].pc = "train"
  /\ IF Step(j) % LogEvery = 0 THEN Log(j, NoLoss) ELSE UNCHANGED metric
  /\ IF job[j].batch = Batches - 1
     THEN JobTo(j, "validate")
     ELSE job' = [job EXCEPT ![j].batch = @ + 1]
  /\ UNCHANGED <<run, weights, evaluation, scorer, faults>>

TrainBatch(j) ==
  /\ job[j].pc = "train"
  /\ IF job[j].batch = Batches - 1
     THEN JobTo(j, "validate") /\ UNCHANGED metric
     ELSE /\ job' = [job EXCEPT ![j].batch = @ + 1]
          /\ IF Step(j) % LogEvery = 0 THEN Log(j, NoLoss) ELSE UNCHANGED metric
  /\ UNCHANGED <<run, weights, evaluation, scorer, faults>>

(* _evaluate: each epoch's loss is computed afresh, whatever the last was. *)
ValLosses(j) == IF job[j].hasVal THEN 1 .. NaN ELSE {NoLoss}

Validate(j) ==
  /\ job[j].pc = "validate"
  /\ \E v \in ValLosses(j) :
       /\ Log(j, v)
       /\ job' = [job EXCEPT ![j].pc = "keep", ![j].val = v]
  /\ UNCHANGED <<run, weights, evaluation, scorer, faults>>

(* _keeps_this_epoch.  (Mutant: unless the loss is worse.)                 *)
KeepsUnlessWorse(policy, val, best) ==
  policy = "last" \/ val = NoLoss \/ best = NoLoss \/ ~Less(best, val)

Keeps(policy, val, best) ==
  policy = "last" \/ val = NoLoss \/ best = NoLoss \/ Less(val, best)

Keeping(j) == Keeps(job[j].policy, job[j].val, job[j].best)

(* The locals after an epoch, and the loop's next turn.                    *)
AfterEpoch(j) ==
  LET kept == IF Keeping(j)
              THEN [job[j] EXCEPT !.kept = job[j].epoch, !.best = job[j].val]
              ELSE job[j]
  IN  IF job[j].epoch = Epochs
      THEN [kept EXCEPT !.pc = "report"]
      ELSE [kept EXCEPT !.pc = "train", !.epoch = @ + 1, !.batch = 0]

(* (Mutant: the run's weights_uri is set with its first checkpoint.)       *)
KeepEpochSetsUri(j) ==
  /\ job[j].pc = "keep"
  /\ IF Keeping(j)
     THEN /\ weights' = [weights EXCEPT ![job[j].run] = job[j].epoch]
          /\ run' = [run EXCEPT ![job[j].run].uri = TRUE]
     ELSE UNCHANGED <<weights, run>>
  /\ job' = [job EXCEPT ![j] = AfterEpoch(j)]
  /\ UNCHANGED <<metric, evaluation, scorer, faults>>

(* (Mutant: an epoch too many.)                                            *)
KeepEpochOneMore(j) ==
  /\ job[j].pc = "keep"
  /\ weights' = [weights EXCEPT ![job[j].run] = IF Keeping(j) THEN job[j].epoch ELSE @]
  /\ job' = [job EXCEPT ![j] =
       IF job[j].epoch > Epochs THEN AfterEpoch(j)
       ELSE [@ EXCEPT !.pc = "train", !.epoch = @ + 1, !.batch = 0]]
  /\ UNCHANGED <<run, metric, evaluation, scorer, faults>>

KeepEpoch(j) ==
  /\ job[j].pc = "keep"
  /\ weights' = [weights EXCEPT ![job[j].run] = IF Keeping(j) THEN job[j].epoch ELSE @]
  /\ job' = [job EXCEPT ![j] = AfterEpoch(j)]
  /\ UNCHANGED <<run, metric, evaluation, scorer, faults>>

(* The report is computed on the kept weights, which are still in memory.  *)
Report(j) ==
  /\ job[j].pc = "report"
  /\ JobTo(j, "finalize")
  /\ UNCHANGED <<run, metric, weights, evaluation, scorer, faults>>

Finalize(j) ==
  /\ job[j].pc = "finalize"
  /\ run' = [run EXCEPT ![job[j].run] =
       [status |-> "completed", uri |-> TRUE,
        report |-> IF job[j].hasVal THEN job[j].kept ELSE 0]]
  /\ JobTo(j, "ended")
  /\ UNCHANGED <<metric, weights, evaluation, scorer, faults>>

(* run_training raises, and main's handler marks the run failed.           *)
(* (Mutant: without the handler.)                                          *)
RaiseUnhandled(j) ==
  /\ job[j].pc \in {"train", "validate", "keep", "report"}
  /\ Fault
  /\ JobTo(j, "ended")
  /\ UNCHANGED <<run, metric, weights, evaluation, scorer>>

Raise(j) ==
  /\ job[j].pc \in {"train", "validate", "keep", "report"}
  /\ Fault
  /\ JobTo(j, "failing")
  /\ UNCHANGED <<run, metric, weights, evaluation, scorer>>

MarkFailed(j) ==
  /\ job[j].pc = "failing"
  /\ run' = [run EXCEPT ![job[j].run].status = "failed"]
  /\ JobTo(j, "ended")
  /\ UNCHANGED <<metric, weights, evaluation, scorer, faults>>

(* finalize_run itself fails, on either path: the handler does not cover   *)
(* it.                                                                     *)
FinalizeRaises(j) ==
  /\ job[j].pc \in {"finalize", "failing"}
  /\ Fault
  /\ JobTo(j, "unrecorded")
  /\ UNCHANGED <<run, metric, weights, evaluation, scorer>>

(* A spot preemption, a cancelled job: no handler runs.                    *)
Kill(j) ==
  /\ job[j].pc \notin Over \cup {"none"}
  /\ Fault
  /\ JobTo(j, "killed")
  /\ UNCHANGED <<run, metric, weights, evaluation, scorer>>

-----------------------------------------------------------------------------
(* Evaluation.                                                             *)

ScorerTo(e, pc) == scorer' = [scorer EXCEPT ![e].pc = pc]

Request(e, r) ==
  /\ scorer[e].pc = "none"
  /\ scorer' = [scorer EXCEPT ![e].pc = "queued", ![e].run = r]
  /\ UNCHANGED <<run, metric, weights, job, evaluation, faults>>

(* The endpoint refuses a run without saved weights; evaluate.py by hand   *)
(* takes any id.                                                           *)
LaunchEvaluation(e) == \E r \in RunIds : run[r].uri /\ Request(e, r)
EvaluateByHand(e) == \E r \in RunIds : Request(e, r)

(* The row comes first; a foreign key refuses an unknown run.              *)
StartEvaluation(e) ==
  /\ scorer[e].pc = "queued"
  /\ IF run[scorer[e].run].status = "none"
     THEN ScorerTo(e, "ended") /\ UNCHANGED evaluation
     ELSE ScorerTo(e, "row") /\ evaluation' = [evaluation EXCEPT ![e].status = "running"]
  /\ UNCHANGED <<run, metric, weights, job, faults>>

(* load_run_model reads the row in one transaction, and then the blob.     *)
LoadRun(e) ==
  /\ scorer[e].pc = "row"
  /\ ScorerTo(e, IF run[scorer[e].run].uri THEN "blob" ELSE "failing")
  /\ UNCHANGED <<run, metric, weights, job, evaluation, faults>>

LoadWeights(e) ==
  /\ scorer[e].pc = "blob"
  /\ scorer' = [scorer EXCEPT ![e].pc = "score", ![e].model = weights[scorer[e].run]]
  /\ UNCHANGED <<run, metric, weights, job, evaluation, faults>>

(* An empty split, or one below the coverage floor: a SystemExit.          *)
(* (Mutant: the handler catches Exception, which SystemExit is not.)       *)
RefuseUncaught(e) ==
  /\ scorer[e].pc = "score"
  /\ ScorerTo(e, "ended")
  /\ UNCHANGED <<run, metric, weights, job, evaluation, faults>>

Refuse(e) ==
  /\ scorer[e].pc = "score"
  /\ ScorerTo(e, "failing")
  /\ UNCHANGED <<run, metric, weights, job, evaluation, faults>>

(* finish_evaluation: the row with the report, which is of the weights     *)
(* that were loaded.                                                       *)
Finished(e) == [status |-> "completed", epoch |-> scorer[e].model]

(* score_and_record.                                                       *)
FinishEvaluation(e) ==
  /\ scorer[e].pc = "score"
  /\ evaluation' = [evaluation EXCEPT ![e] = Finished(e)]
  /\ ScorerTo(e, "ended")
  /\ UNCHANGED <<run, metric, weights, job, faults>>

ScorerRaises(e) ==
  /\ scorer[e].pc \in {"row", "blob", "score"}
  /\ Fault
  /\ ScorerTo(e, "failing")
  /\ UNCHANGED <<run, metric, weights, job, evaluation>>

(* fail_evaluation is best-effort.                                         *)
FailEvaluation(e) ==
  /\ scorer[e].pc = "failing"
  /\ evaluation' = [evaluation EXCEPT ![e].status = "failed"]
  /\ ScorerTo(e, "ended")
  /\ UNCHANGED <<run, metric, weights, job, faults>>

FailEvaluationFails(e) ==
  /\ scorer[e].pc = "failing"
  /\ Fault
  /\ ScorerTo(e, "unrecorded")
  /\ UNCHANGED <<run, metric, weights, job, evaluation>>

KillScorer(e) ==
  /\ scorer[e].pc \notin Over \cup {"none"}
  /\ Fault
  /\ ScorerTo(e, "killed")
  /\ UNCHANGED <<run, metric, weights, job, evaluation>>

-----------------------------------------------------------------------------

JobStep(j) ==
  \/ StopBeforeRun(j) \/ CreateRun(j) \/ TrainBatch(j) \/ Validate(j) \/ KeepEpoch(j)
  \/ Report(j) \/ Finalize(j) \/ MarkFailed(j)

ScorerStep(e) ==
  \/ StartEvaluation(e) \/ LoadRun(e) \/ LoadWeights(e) \/ Refuse(e)
  \/ FinishEvaluation(e) \/ FailEvaluation(e)

TrainingNext ==
  \/ \E j \in Jobs : Launch(j) \/ JobStep(j) \/ Raise(j) \/ FinalizeRaises(j) \/ Kill(j)
  \/ \E e \in Evals :
       \/ LaunchEvaluation(e) \/ EvaluateByHand(e) \/ ScorerStep(e)
       \/ ScorerRaises(e) \/ FailEvaluationFails(e) \/ KillScorer(e)

TrainingSpec == TrainingInit /\ [][TrainingNext]_trainingVars

(* A process that has its machine goes on.                                 *)
FairTrainingSpec ==
  /\ TrainingSpec
  /\ \A j \in Jobs : WF_trainingVars(JobStep(j))
  /\ \A e \in Evals : WF_trainingVars(ScorerStep(e))

-----------------------------------------------------------------------------
(* Properties.                                                             *)

(* The validation loss on record for an epoch: its last step's.            *)
LossesOf(r, epoch) ==
  {m.val : m \in {n \in metric[r] : n.step = epoch * Batches - 1}}

(* A completed run's stored weights are the last epoch's under "last", and *)
(* else those of an epoch with a loss that no other epoch's is lower than; *)
(* except that a first epoch whose loss is NaN is kept for good, as no     *)
(* loss is less than NaN.  Whatever the curve, NaN is not kept later.      *)
WeightsAreBest ==
  \A j \in Jobs :
    LET r == job[j].run
    IN  r # 0 /\ run[r].status = "completed" =>
          IF job[j].policy = "last" \/ ~job[j].hasVal
          THEN weights[r] = Epochs
          ELSE IF NaN \in LossesOf(r, 1)
          THEN weights[r] = 1
          ELSE \A epoch \in 1 .. Epochs :
                 \A x \in LossesOf(r, weights[r]), y \in LossesOf(r, epoch) :
                   x # NaN /\ ~Less(y, x)

(* Whatever reports on a run describes one set of weights, the one at its  *)
(* key: the run's own report, and every evaluation that completed, however *)
(* it was started and whenever it read them ("a run whose recorded metrics *)
(* describe a checkpoint nobody can load back", train.py).                 *)
ReportsAgree ==
  /\ \A r \in RunIds : run[r].report # 0 => run[r].report = weights[r]
  /\ \A e \in Evals : evaluation[e].status = "completed" =>
       /\ run[scorer[e].run].status = "completed"
       /\ evaluation[e].epoch = weights[scorer[e].run]
       /\ evaluation[e].epoch # 0

(* "So each step is one row" (train.py): no row is logged for the step     *)
(* that comes next, which the table's primary key would refuse.            *)
StepsAreFresh ==
  \A j \in Jobs : job[j].pc \in {"train", "validate"} =>
    \A m \in metric[job[j].run] : m.step # Step(j)

(* A run does not stay running for ever, unless the process behind it was  *)
(* killed or could not write how it ended.                                 *)
RunsSettle ==
  \A r \in RunIds :
    run[r].status = "running" ~>
      \/ run[r].status \in {"completed", "failed"}
      \/ \E j \in Jobs : job[j].run = r /\ job[j].pc \in {"killed", "unrecorded"}

(* The same for an evaluation, refusals included: "an evaluation that dies *)
(* leaves a failed row saying why rather than nothing at all".             *)
EvaluationsSettle ==
  \A e \in Evals :
    evaluation[e].status = "running" ~>
      \/ evaluation[e].status \in {"completed", "failed"}
      \/ scorer[e].pc \in {"killed", "unrecorded"}

(* "Any failure marks the run failed (so it never lingers as running)"     *)
(* (main in train.py): no process exits, other than by being killed, and   *)
(* leaves its run running.                                                 *)
NeverLingers ==
  \A j \in Jobs :
    job[j].pc \in {"ended", "unrecorded"} /\ job[j].run # 0 =>
      run[job[j].run].status # "running"

=============================================================================
