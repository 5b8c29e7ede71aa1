# ImageGenie: a TLA+ verification project

ImageGenie ingests 3D models (from the Objaverse store and from uploads), turns
each into a set of rendered views through a four-stage preprocessing pipeline,
lets people label them, trains and evaluates a multi-view classifier on them, and
serves a catalog with predictions. This directory models the parts of it that are
concurrent, restartable or subtle; paths below are relative to the repository.

- [1. The system](#1-the-system): components, state, operations, what is hard
- [2. Plan](#2-plan): modules in order, runs, theorems
- [3. The pipeline, as modelled](#3-the-pipeline-as-modelled)
- [4. What the runs check](#4-what-the-runs-check)
- [5. What is proved](#5-what-is-proved)
- [6. Labels](#6-labels): model, runs, proofs, a divergence
- [7. Training runs](#7-training-runs): model, runs, proofs, a divergence
- [8. Storage tools](#8-storage-tools): model, runs, proofs, a divergence
- [9. The API's own state](#9-the-apis-own-state): accounts, limiters, the loaded model
- [10. Experiments](#10-experiments): lists, subsamples, splits, what is scored
- [11. Summary of runs and proofs](#11-summary-of-runs-and-proofs)
- [12. What is not modelled](#12-what-is-not-modelled)

## 1. The system

### Components

**Preprocessing pipeline** (`server/app/web.py`, `consumer.py`, `workers/`,
`queue.py`, `dead_letters.py`, `replay_dlq.py`, `seed.py`, `seed_variant.py`,
`artifact_keys.py`, the upload endpoint of `api.py`, `infra/pubsub.tf`,
`infra/preprocessing.tf`).
*State*: blobs in the bucket (`raw/`, `converted/`, `normalized/`, `renders/`, the
last three also under a `textured` variant), rows of `models`, `artifacts` and
`dead_letters`, and the messages on four subscriptions and their dead-letter
subscriptions. *Operations*: seed, upload, download → convert → normalize → render
(each: an idempotency gate, the work, the blob, the row, the publish, the ack),
failure recording, admin retry, dead-letter replay. *Interaction*: stages
communicate only through Pub/Sub messages and share the bucket and the database.
*Hard*: at-least-once delivery with several Cloud Run instances per stage; a crash
between any two of blob, row, publish and ack; a lease that runs out under a
running handler; 429s counted as delivery attempts; two arms (variants) sharing
one raw mesh, with rows for one of them only. *Correct when* no accepted model
drops out, a `done` row always has its whole output behind it, failed work is
either delivered again or quarantined, and a retry that leaves the outstanding
list is under way.

**Labels and the catalog** (`api.py` label, dev-set, delete and restore endpoints,
`backfill_labels.py`, `roster.py`). *State*: `labels` (append-only, manual or weak),
`models.deleted_at`, `models.dev_set`. *Operations*: label, delete, restore,
reserve a dev set, backfill. *Hard*: "the latest label wins" against "a manual
label wins over a weak one" when a backfill comes after a person; overlapping
backfills and late commits, since `created_at` is the time a transaction began; the
dev-set refusal is a check followed by an insert, with ingestion and marking
between them. *Correct when* what a person has reviewed stays reviewed, reruns add
nothing, a reserved model is not labeled, and the trainable count the UI shows is
what training loads.

**Storage tools** (`reconcile_from_storage.py`, `cleanup_raw.py`,
`backfill_metadata.py`). *State*: the same bucket and tables, read once at the
start and acted on later. *Hard*: they run beside a live pipeline on a stale
listing; deletion follows a human confirmation. *Correct when* reconciliation never
makes a row claim a blob that is not there, and a deletion takes only what was
eligible.

**Training and evaluation** (`ml/train.py`, `ml/evaluate.py`, `ml/splits.py`,
`training_jobs.py`, the run endpoints of `api.py`). *State*: `training_runs`,
`training_metrics`, checkpoints in the bucket, Vertex jobs. *Operations*: launch,
create run, log metric, checkpoint, finalize, evaluate. *Hard*: a job killed by
preemption leaves its row behind; a submit that times out after Vertex accepted
it; checkpoint selection with NaN losses; the split must not leak. *Correct when* a
completed run's weights are those of its best epoch (a first loss of NaN excepted,
which nothing is lower than), and no evaluation reads weights that are not there; a run
is scored on what it held out, whatever else comes or goes, and on nothing it was trained
on.

**Texture experiment lists** (`ml/texture_census.py`, `ml/build_texture_subset.py`,
`build_dev_set.py`'s push). *State*: a census file, two selections in the operator's
checkout and their copies in the bucket. *Operations*: census, select, verify against
the renders, push, and the reads by training and evaluation, which take the local
file if there is one. *Hard*: several files and objects are rewritten one after the
other while renders arrive, models are deleted and commands stop half way. *Correct
when* a list that was verified names only models with all their views.

**Accounts** (`api.py` signup, login, verification and invites, `security.py`,
`ratelimit.py`, `mail.py`, `create_admin.py`). *State*: users, tokens, invites and
sessions in tables; limiter windows and login streaks in the memory of the process.
*Hard*: overlapping signups, invitations and resends at read committed; the login
backoff is consulted before a slow hash, and updated after it; neither limiter has a
lock, and `login` runs on a pool of threads. *Correct when* a spent invite has its
account, with a role that was offered; a token verifies once; a session belongs to a
proved address; no window lets more than its cap through; every wrong password costs
its rung, and only failures that overlap can shorten a lock.

**Prediction** (`predict.py`, `ml/infer.py`). *State*: a dictionary of loaded models in
the API process. *Hard*: request threads share it without a lock, while runs complete.
*Correct when* an answer names the run whose weights gave it, and a current one.

**Other data tools** (`ml/build_class_list.py`, `weak_label.py`, `taxonomy.py`,
`explore_metadata.py`, …): sequential scripts from file to file.

**Web client** (`web/src`): React pages over the API; shared state is the session
in `AuthContext.tsx`.

### How they interact

The API writes blobs and rows and publishes to the pipeline's topics; pipeline
workers read and write bucket and database and publish to the next topic; training
reads rows (`artifacts`, `labels`) and trusts them to imply blobs; prediction
reads completed runs' weights; the storage tools read and change bucket and rows
behind everybody's back. The database and the bucket have no common transaction:
that is what most of the hazards in `PROJECT.json` are about.

## 2. Plan

| # | Module | Models | Status |
|---|--------|--------|--------|
| 1 | `Pipeline` | the preprocessing pipeline, delivery, faults, retries | checked |
| 2 | `PipelinePromise` | what the pipeline promises of one arm; `Pipeline` refines it | checked, refinement proved |
| 3 | `PipelineProofs` | the inductive invariant of `Pipeline`, for every instance | proved |
| 4 | `PipelineHistory` | a history variable, for one documented claim | checked |
| 5 | `Labels`, `LabelsProofs` | labels, backfill, dev-set reservation, delete and restore | checked, proved |
| 6 | `StorageTools`, `StorageProofs` | reconciler, raw cleanup and metadata backfill, composed with workers, an uploader and people reduced to their blob and row writes | checked, proved |
| 7 | `TrainingRun`, `TrainingProofs` | launch, epochs, checkpoints, checkpoint selection, preemption, evaluation | checked, proved |
| 8 | `Catalog` | labels and deletions as the two modules below read them | (extended by 9 and 10) |
| 9 | `TextureLists`, `TextureListsProofs` | the census, the two selections, verification, pushes, reads | checked, proved |
| 10 | `Experiments`, `ExperimentsProofs` | what training loads, the subsample, the split, what is scored | checked, proved |
| 11 | `Accounts`, `AccountsProofs` | invites, signup, verification, resends, sessions, `create_admin` | checked, proved |
| 12 | `RateLimits` | the fixed window and the login backoff, statement by statement | checked, proved |
| 13 | `ModelCache` | the loaded models of `predict.py` under request threads | checked, proved |
| 14 | `PredictionPromise` | predictions without a loaded model; `ModelCache` refines it | checked, refinement proved |
| 15 | `Server`, `ServerProofs` | the API process, 11 to 13 together; the proofs about 12 to 15 | checked, proved |
| 16 | `Comparison` | 9 and 10 together: runs read the lists in the making, over one catalog; proved in `ExperimentsProofs` | checked, proved |

`MCPipeline`, `MCReplay`, `MCLabels`, `MCTraining`, `MCStorage`, `MCServer` (of 15) and
`MCExperiments` (of 16) are the instances TLC runs.

Order: the pipeline carries the system's core logic and all of its message
handling, so it came first and was proved first. Then the components that read and
change what it wrote (labels, storage tools, training, experiments), then the state
of the API process.

## 3. The pipeline, as modelled

`Pipeline` has one variable per table or kind of blob, the queue, and one record per
worker instance:

| Variable | Code |
|----------|------|
| `raw`, `converted`, `normalized`, `views` | the blobs under the keys of `artifact_keys.py` |
| `model` | a row of `models` and the format its `raw_key` names |
| `artifact` | `done` rows of `artifacts`; only the default arm has any |
| `deadLetter` | a row of `dead_letters`, with or without `replayed_at` |
| `queue`, `dlq` | undelivered messages, each with its delivery attempt; dead-lettered jobs |
| `draining` | what `replay_dlq` has republished and not acknowledged |
| `slot` | an instance handling one message: where it is, whether its lease still holds, which raw key it read, how many views it has written |
| `upload` | how far `POST /models` has come |
| `retry` | the admin retry whose transaction is open |
| `accepted` | history: arms whose processing was promised (published by a seeder, or by an upload that answered) |
| `budget` | bounds on jobs, faults and retries |

A handler is the sequence *gate*, *work*, *record*, *publish*, *ack*; a step is what
no other actor can observe the middle of. The gate's read and the blob check are
one step: nothing in this module removes a row or a blob, so a query followed by
`exists()` gives the value of one atomic read. Work and the blob it writes are one
step because an object write is atomic; render's views are separate objects, so
its loop is one step per view. `Raise` lets every step fail before or after it
took effect, `Crash` kills the instance anywhere, `LeaseExpires` gives the message
to another instance while the first works on, `DeliverTwice` duplicates, and
`Congestion` is a 429, which counts as an attempt without running a handler.

Choices worth knowing:

- Worker slots are generic: the code has instances per stage, and every behaviour
  of those is a behaviour of slots that may take any stage's message.
- The queue is a set of ⟨job, attempt⟩; two equal copies are one element, and
  `DeliverTwice` leaves one behind. Pub/Sub promises no order, and none is modelled.
- A dead-lettered message stays until `replay_dlq` acknowledges it; how long Pub/Sub
  retains an unacknowledged message is not modelled.
- The retries of several admins at once are taken one at a time: `replay` of two
  rows touches two different rows and adds to the queue, so they commute.
- `RecordFailure` then `Nack` is the push path; the pull consumer (`consumer.py`)
  records nothing, which is the behaviour `RecordingFails` allows. That action
  spends the fault budget, so runs see it as often as the budget lasts.
- Two API instances never upload the same uid: `upload_model` makes a new one.

`PipelinePromise` says what an operator sees of one arm: how many stages have left
complete output, and whether a message still stands for it. Progress is never
lost and never skips a stage, and the last message of an arm goes only once the
arm is rendered. `Pipeline!Promise` instantiates it with `Progress`, `accepted` and
the arms of `Live`.

## 4. What the runs check

| Run | Instance | Shows |
|-----|----------|-------|
| `PipelineArms` | one ingested uid, both arms, two instances, two submissions, one fault, one retry | types; nothing accepted is lost, rows are backed by blobs, replayed rows are under way, `PipelinePromise` is implemented: with both arms sharing the raw mesh and two handlers at once |
| `PipelineFaults` | one upload in another format, two instances, two faults, one retry | that nothing accepted is lost with two faults in a row (a lost lease, then a crash of the second handler), and that an accepted model is settled in the end |
| `PipelinePoison` | one uid whose mesh normalize rejects, two retries by an admin or by `replay_dlq` | a job that fails every time ends in quarantine, however often it is brought back |
| `PipelineReplay` | one textured job that always fails, one admin retry | a counterexample, see below |

The properties:

- `NothingLost`: every accepted arm is rendered (and, for the default arm, its render
  row exists) or some message for it is queued, quarantined or leased.
- `DoneMeansStored`: `raw_key` names a stored mesh; a `done` artifact has its whole
  output, for render all the views. Training reads every view of a model on the
  strength of that row alone.
- `ReplayedIsUnderway`: a dead letter that left the outstanding list is queued,
  quarantined again, leased, or past its stage.
- `AcceptedIsSettled` (liveness): accepted arms are rendered or quarantined.
- `PoisonIsQuarantined` (liveness): a job that always raises reaches the dead-letter
  topic.
- `KeepsPromise`: the refinement.

**Bounds.** Two views are enough for a partial view set; two attempts for one
redelivery and one dead-lettering (a single attempt would never redeliver); two
instances for every overlap of two handlers, and with a lost lease for the same
message held twice. One uid is enough because no handler reads or writes the rows
or blobs of another uid; the two arms of one uid do share a mesh, and both are
there. Faults are bounded by `MaxFaults`; the proofs of section 5 hold for every
value of it.

**Fairness.** `FairSpec` assumes that Pub/Sub goes on delivering while it holds a
message and an instance is free, and that a running handler goes on. A push
subscription retries until acknowledged or dead-lettered, and a Cloud Run request is
not suspended, so that is what the deployment gives. Nothing is assumed of
seeders, uploads, admins, faults or `replay_dlq`. The runs' instances are bounded, so
their systems stop when the work is done: hence `CHECK_DEADLOCK FALSE`.

**A divergence.** `dead_letters.py:69` says of `replay` "Re-enqueue a failed job on
its stage topic". The dead-letter row has no variant, and `replay` (line 78) publishes
`publish_next(stage, uid)`, the default arm's job. Retrying a failed *textured* job
therefore queues a job that did not fail, and marks the failure replayed.
`PipelineHistory` adds a history variable with the variant that failed last, and
`PipelineReplay` finds the behaviour: the textured convert fails, is recorded, is
retried, and what is queued is the default's convert. The textured message itself
is not lost: it is in the dead-letter subscription, where `replay_dlq` republishes
the whole body.

## 5. What is proved

`PipelineProofs` proves, for every set of uids, number of workers, views and attempts,
every poison set and every bound (assumption `PipelineAssumption` only):

| Theorem | Statement |
|---------|-----------|
| `TypeCorrect` | `Spec => []TypeOK` |
| `RowsAreBacked` | `Spec => []DoneMeansStored` |
| `NoArmIsLost` | `Spec => []NothingLost` |
| `ReplayedJobsAreUnderway` | `Spec => []ReplayedIsUnderway` |
| `PipelineKeepsPromise` | `Spec => KeepsPromise`, the refinement |

None of the safety properties is inductive: each says what holds between handlers,
and a handler in the middle of its steps has already relied on it. The invariant
`IInv` is `TypeOK` with two parts more.

- `Honest` says what a handler in the middle of its steps relies on: in *record*,
  the output the row will claim is stored; in render's loop, all the views before
  the current one are; an upload past its blob has that blob. With
  `DoneMeansStored` it is kept because no step removes a blob.
- `Handed` says where responsibility is. A slot at *ack* has handed on: its arm is
  accounted for at a later stage without this slot, so that dropping the message
  loses nothing. A job `replay_dlq` is about to acknowledge is held elsewhere or
  handed on. The job of a retry whose transaction is open is in the pipeline.

The main lemmas: `StepGrows` (blobs and artifact rows only grow, which most other
steps cite), `SlotStep` (how one slot can move), `HeldStep` (a job that a message or
a lease holds is kept by every step but its acknowledgement), `AccountedStays`
(what is accounted for stays accounted for), `AckHandedOn` (a slot comes to its
acknowledgement only with its job handed on), `DrainHanded` (the same for the batch
acknowledgement of `replay_dlq`) and `OutsideStep` (submissions, uploads, retries).

`IInv` was itself model-checked on the instances of `PipelineArms` and
`PipelineFaults` before it was proved.

The refinement needs one more invariant, `InOrder`: an arm's output appears only over
its predecessor's, which makes the count of finished stages meaningful. A step either
adds one output and touches no message (`StoreStep`), and then it is an `Advance` of
the arms whose count went up, by one each (`ProgressStep`); or it publishes one job
(an `Accept` or a `Revive`); or it brings no job (`LiveStep`), and then the arms no
message stands for any more are rendered, by `AccountedStays`, so it is a `Release`.

Liveness (`AcceptedIsSettled`, `PoisonIsQuarantined`) is out of the prover's reach and
stays with TLC.

## 6. Labels

`Labels` is the label table and everything that decides what goes into it. Its
variables are `model` (no row, live or soft-deleted), `label` (the rows), `reserved`
(`dev_set_member`), `selection` (the dev set's CSV), one record per `set_label` request
and per run of the backfill, `clock`, and the history variable `early` (uids reserved
while they had no model row).

| Action | Code |
|--------|------|
| `RequireLive`, `RefuseReserved`, `InsertManual`, `EndRequest` | `set_label`: the 404 check, the 409 check, the insert; `EndRequest` is a rollback |
| `ReadModels`, `ReadWeak`, `InsertWeak`, `EndBackfill` | `backfill`: its two reads and its insert, one transaction; `EndBackfill` is a dry run or a rollback |
| `SelectDevSet`, `MarkDevSet` | `build_dev_set`: select and write the CSV; `mark_dev_set`, also later with `--mark-only` |
| `Ingest`, `DeleteModel`, `RestoreModel` | the download worker's or an upload's row; the admin endpoints |

Postgres runs at read committed: each statement sees what is committed when it
runs, so each statement is a step, and a transaction's rows appear at its commit.
`created_at` is `now()`, which in Postgres is when the transaction *began*; the model
takes it from `clock` at the first statement and lets the insert come arbitrarily
later, so rows can appear that are older than rows already there. `Newest` is
`_latest_labels`. Classes of labels are left out, as is which of the gold objects
the balanced choice takes.

Runs (two models, two requests and two backfills at once, four label
transactions: enough for a reviewed label, a backfill that overlaps another, and
one that starts after both; two transactions per kind suffice because the
properties relate at most three rows of one model):

- `LabelsReview`: `ReviewedStays`, a weak label that a person saw (it was committed when
  their request began) is never current again, and no later weak label is;
  `RerunAddsNothing`, a backfill that began after a weak label was committed adds none
  for that model; `EarlyReservationHolds`, a model reserved before its ingestion never
  gets a manual label, which rests on the order of the two checks: what the first
  finds live was reserved before it was live, so the second sees the reservation.
- `LabelsClobber`, a counterexample. `backfill_labels.py:19` says "The API resolves the
  most recent label as current, so a re-import can't clobber human work", but the
  most recent label is the backfill's own if it runs after the person: `backfill`
  skips models that have a *weak* label (line 101), not those that have a manual one.
  A model that was uploaded, or ingested after the last backfill, labeled by hand and
  then met by a backfill has the machine's class as its current one. `ReviewedStays`
  is the part of that claim which holds.

Two transactions may well overlap so that neither sees the other's row; two
backfills that overlap do insert two weak labels for a model (there is no unique
constraint), and `RerunAddsNothing` says no more than the code gives: the second
must have begun before the first committed.

`LabelsProofs` proves all four for every set of models, requests and backfills and
every bound on the clock (`LabelsAssumption` only): `LabelsTypeCorrect`,
`RerunsAddNothing`, `EarlyReservationsHold`, `ReviewedLabelsStay`. The invariant `LInv` adds
to the types `Timely` (no row and no transaction carries a time that has not come),
`Skips` (a backfill about to insert has seen every weak label committed before it
began) and `Unprotected` (a request in progress, and a manual label, is for a model
with a row, and past the second check for one that was not reserved early).
`RerunAddsNothing` is not inductive without `Skips` and `Timely`; `ReviewedStays` follows
from it: a weak label newer than the review began after the reviewed one was
committed.

The system may stop when the clock's bound is reached: `CHECK_DEADLOCK FALSE`. No
liveness is claimed, so no fairness is assumed.

## 7. Training runs

`TrainingRun` follows one training process from its launch to the end of its row, and
one evaluation of it: `run`, `metric` and `evaluation` are rows, `weights` says which epoch's
weights are at a run's key in the bucket, `job` and `scorer` are the processes with
their local variables.

| Action | Code |
|--------|------|
| `Launch`, `StopBeforeRun`, `CreateRun` | `launch_training_run` (or `train.py` by hand), `main` up to `create_run` |
| `TrainBatch`, `Validate`, `KeepEpoch` | the loop of `run_training`: a step with its interval log; validation and the epoch's log; `_keeps_this_epoch` and the overwrite of the blob |
| `Report`, `Finalize` | the end-of-run report; `finalize_run` on success |
| `Raise`, `MarkFailed`, `FinalizeRaises`, `Kill` | an exception in `run_training`; `main`'s handler; `finalize_run` failing; a preemption |
| `LaunchEvaluation`, `EvaluateByHand` | the endpoint with its check of `weights_uri`; `evaluate.py` by hand, without |
| `StartEvaluation`, `LoadRun`, `LoadWeights`, `Refuse`, `FinishEvaluation`, `FailEvaluation`, … | `evaluate_run`: the row first, the run's row, then its blob, then scoring |

Each helper commits on its own, so each is a step. A validation loss is an integer,
missing (empty split) or NaN. Each epoch's is averaged afresh (`_evaluate`), so that any
epoch's may be NaN and the next one's a number. Vertex starting a preempted job once more
is another process with another run. A launch whose submit timed out is a launch: whether
the caller was told is left out. `MaxRuns` is one more than the processes, so that an
evaluation may name a run that does not exist.

`TrainingRuns` (three epochs of two batches, both policies, losses 1, 2, NaN or none, one
evaluation at any time, three faults: an exception, the failure to record it, and
one for the evaluation; three epochs give a best one in any position, and ties and
NaNs before and after it):

- `WeightsAreBest`: a completed run's stored weights are the last epoch's, or an epoch's
  that no logged epoch beats, whatever the curve; NaN never displaces a number. One case
  is an exception, and the property states it: a first epoch whose loss is NaN is kept for
  good, since `val_loss < best_val_loss` (`train.py:452`) is false of every later loss. The
  help of `--checkpoint-selection` ("keep the epoch with the lowest validation loss",
  `train.py:640`) does not say so.
- `ReportsAgree`: a run's report and every completed evaluation describe the epoch
  that is at the run's key for good. It rests on `weights_uri` being set only on
  completion: an evaluation that starts early is refused by `load_run_model`.
- `StepsAreFresh`: no step is logged twice, which the primary key would refuse.
- `RunsSettle`, `EvaluationsSettle` (liveness): a row leaves `running`, unless its process
  was killed or could not write. Fairness: a process that has its machine goes on;
  nothing is assumed of launches or faults.

`TrainingLingers` is a counterexample to the docstring of `main` (`train.py:753`): "Any
failure marks the run ``failed`` (so it never lingers as ``running``)". The `try` covers
`run_training`; if the `finalize_run` after it raises, a run that trained to the end
stays `running` without its weights.

Processes come to an end, hence `CHECK_DEADLOCK FALSE`.

`TrainingProofs` proves the safety properties for any number of processes, epochs,
batches, logging intervals and faults (`TrainingAssumption` only). `WeightsAreBest` speaks of
completed runs and so says nothing of the loop that makes one; the invariant `TInv`
adds to the types:

- `Owned`: a row belongs to one process, and is running while that process is in its
  loop; two processes never log to one curve.
- `OnCurve`: what the loop knows is what it logged. `Logged` says which steps are on
  record at each point of the loop (none twice, all of a finished epoch's), `BestKept`
  that `best` is the loss of the epoch kept, and that no logged epoch beats it, or that
  the first epoch's was NaN and is the one kept.
- `Published`: `WeightsAreBest` as the run's own process states it, with its policy and
  its curve; no other process can write that run's weights.
- `Scored`: an evaluation past the run's row looks at a completed run, and the model it
  holds is that run's final weights.

The arithmetic of steps (`epoch * Batches - 1` for different epochs) is in the lemmas
`Products` and `StepBounds`, which the others cite so that no other leaf multiplies.

## 8. Storage tools

`StorageTools` has the bucket as two sets of keys, the tables that the tools read or
write, and one record each for a run of the reconciler and of the cleanup. Beside
them run the workers, an uploader and people, reduced to what they do to blobs and
rows: the queue is a set of jobs that may be delivered again at any time, and one
worker at a time works on a model.

| Action | Code |
|--------|------|
| `Download`, `RecordDownload`, `UploadBlob`, `UploadRow` | the download worker and `upload_model`: the blob, then the row |
| `Skip`, `Work`, `RenderView`, `RecordStage`, `WorkerDies` | the other stages: gate, blobs (views one by one), row and next job |
| `LabelModel`, `DeleteModel`, `RestoreModel` | the endpoints; `LabelModel` also stands for the weak-label backfill |
| `DropTables` | the schema dropped and made again, which the reconciler is for (`scripts/adopt_schema.sh`) |
| `StartReconcile`, `ListPrefix`, `WriteRows`, `StopReconcile` | `reconcile`: four listings, one after another, then one transaction of upserts |
| `StartCleanup`, `ReadLabels`, `ReadKnown`, `ListCandidates`, `Confirm`, `DeleteCandidate`, `EndCleanup` | `cleanup_raw`: three queries, a listing, the typed confirmation, a deletion per blob |
| `BackfillTitles` | `backfill_metadata` |

Two history variables: `kept`, the models that have been in the dataset (live, newest
label in the roster) ever since the cleanup's first read; `quiet`, that the store has
not changed since the reconciler began.

The run `StorageTools` has one model, ingested or uploaded, two views and two labels. One
model is enough: no tool decides about a model by what it sees of another. Two
labels are what it takes for the newest one to differ from the rest; two views for a
render that is part way.

- `RowsAreBacked`: an artifact row has its whole output in the bucket, though the
  reconciler writes it from a listing made earlier. It holds because nothing deletes
  a processed blob, and because a render counts only with all its views.
- `KeepsTheDataset` (action): the cleanup deletes no mesh of a model in the dataset from
  its first read to the deletion, however long the confirmation was open. A model
  that *enters* the dataset meanwhile is not covered, and the code does not protect it.
- `IndexAgrees` (action): a reconciliation of a store that stood still is exact.
- `DecisionsStay` (action): a deletion and an upload's title outlive every tool.

`StorageForgets`, a counterexample. `cleanup_raw.py:266` says of the models it deletes
that "the next `make reconcile-storage` will mark these `pending` on its own". The
reconciler upserts the uids it saw under some prefix (`reconcile_from_storage.py:187`); a
model of which only the raw mesh was stored is in no listing afterwards, and its row
stays `downloaded`.

`StorageProofs` proves all five for any number of models, views and labels
(`StorageAssumption` only). The invariant `SInv` adds `Orderly` (only a render is part way,
and only a row that exists has columns), `Claimed` (what a worker, or the reconciler
from its listing, is about to record is stored), `Spared` (a model that the cleanup
excludes has not been in the dataset all the time since it began) and `Exact` (the
listings of a quiet store are the store). Their steps rest on three lemmas: `BlobsStay`
(only the cleanup removes a blob, and only a raw mesh), `ListingsStay` (a listing of
processed blobs stays true) and `StepsBeside` (what a step beside the tools does to the
history).

Everything is bounded, so the system may stop: `CHECK_DEADLOCK FALSE`. No liveness is
claimed of operators' commands.

## 9. The API's own state

Three modules, which share no state with each other; `Server` is the process they make up,
where a step is a step of one of them. For TLC, `MCServer` restricts it: the variable `part`
says which module moves in a behavior, so that the run `ServerState` covers them without
the product of their states. The lemma `ServerIsItsParts` is what makes that enough: the
whole process implements the specification of each part, for any interleaving, and
`ServerIsSafe` carries every property of the run over to it. Of the limiters, `MCServer`
makes two parts: "window", where no password is looked at, and "backoff", where the
requests come from clients other than the one whose window it is. The symmetry is over threads,
which are interchangeable in all three; no liveness property is checked with it.

**`Accounts`**: `user`, `invite`, `token` and `login` are tables, `thread[t]` a request with what
its transaction has read. Postgres runs at read committed, so a reading statement is
a step, and the writes at a transaction's end are one step with its commit. The ORM
writes only attributes that differ from what was read: `SaveInvite` clears `accepted`
only if it was read as set. `Expire` lets an invite or a token expire at any moment.

| Action | Code |
|--------|------|
| `Signup`, `ReadUser`, `CreateUser`, `Mail` | `signup`: the invite, the account, then account, mark and token; the mail after the answer |
| `ReadToken`, `Verify` | `verify_email`: the row, then its deletion whatever the answer |
| `Resend`, `DeleteTokens`, `Reissue` | `resend_verification`, `_issue_verification`: the delete sees what is committed then |
| `Invite`, `SaveInvite` | `create_invite` by someone who is an admin now |
| `LogIn`, `LogOutOrExpire`, `CreateAdmin`, `Abandon` | sessions; `create_admin`; an error, a rollback or a crash |

- `SpentInviteHasAccount`: a signup that fails or loses uses no invite up.
- `RoleIsInvited` (action): the role given is one the invite has had since the request
  began, under re-invitations meanwhile.
- `PresentedIsSpent`: a token that was presented is gone, an expired one included.
- `ResendReplaces` (action): no token of the account that was there when a resend began
  outlives it. Two overlapping resends may leave one token each: the comment "exactly
  one live token per account" in `_issue_verification` holds for one at a time.
- `SessionsAreGood`: a session's account is verified, by an operator or by a token that
  was mailed to its address.

Two addresses, two requests at once and two tokens: every pair of requests for one
address overlaps, with a second address to confuse it with.

**`RateLimits`**: the login's window and backoff for one account, which one client and others
try. FastAPI runs `login` on a pool of threads, and neither limiter has a lock, so a
step is one statement that reads the clock, or reads or writes what the threads share. The
entries of the two dictionaries are objects: a thread that has fetched one goes on with it
after another has replaced or dropped the entry. A `+=` on an attribute is one step, since
CPython, with its GIL, switches threads only at calls and jumps. Time is in whole seconds.

| Action | Code |
|--------|------|
| `Check`, `Get`, `Renew`, `Hit`, `Compare` | `FixedWindowRateLimiter.check`: the clock, the entry and its end, a new window, the count, the comparison |
| `CheckOther` | a client with a window of its own |
| `Find`, `ReadClock`, `Gate` | `LoginBackoff.retry_after` and the 429 of `login` |
| `Wrong`, `SetDefault`, `Fail`, `Penalize`, `Lock` | a wrong password: `record_failure` and its clock, the entry, the count, the delay, the lock |
| `Right`, `TurnAway` | `record_success`; an account that is not verified, or a query that fails |

The properties say what holds, which is less than it may seem:

- `WindowBounds`: a window object lets no more than `MaxHits` through. It is not a cap on a
  stretch of time. The docstring of the class grants twice the cap across a boundary; and
  two threads that find a window over both store one (lines 58 and 59), and the first of
  the two can be filled before the second replaces it: another `MaxHits` for each thread.
- `FailuresAreCounted`: all guesses in flight pass the gate, but each that was wrong costs
  its rung: the streak there is counts every one recorded since the last right password,
  those included whose delay overflowed.
- `LocksAreKept` (action): a lock is made shorter only by a failure that was being recorded
  while it was written: a thread preempted between lines 113 and 122 overwrites a longer
  lock with its own (`late`). A guess that merely passed the gate before does not.

A doubling beyond the range of a float (`MaxExponent`) raises `OverflowError`: the failure
is counted, no lock is written, and the answer is a 500. With two threads, three objects, a
cap of two and three seconds of clock, a window can be replaced under a thread that
counts on in it, with both filled; five failures climb the ladder to its top and beyond the
overflow. Two threads bring every pair of statements into either order, which each of the
races takes. Other endpoints use the same window with other keys. Four fields are
history: `through` of a window, `fresh` and `late` of a thread, and `wrongs`.

**`ModelCache`**: `loaded` is `_loaded`; `Look`, `Load`, `Clear`, `Store` are the statements of
`_current_model`, each its own step, while `Complete` finishes runs in any order.
`AnswersAreCurrent`: an answer names the run whose weights gave it, none older than the
newest when the request came. `ResidentsAreBounded`: no more models stay loaded than
there are threads; the comment at `predict.py:98` speaks of one, which two threads that
both miss exceed. `CacheKeepsPromise`: the module implements `PredictionPromise`, in which
nothing is kept loaded and a prediction chooses the newest run at one moment and answers
by its weights. The mapping `Seen` shows what a caller could: the choice is `Look`, loading
and replacing are steps that nobody sees, and what answers is the model, not the run it
was kept under; so a model under another run's id, or a stale one, breaks it. It is the
claim of the comment on `_loaded`: a copy of its own in every instance would be "still
correct, just less useful" (`predict.py:41-43`).

`AccountsProofs` proves the five properties and the types for any sets of addresses and
threads (`AccountsAssumption`). The invariant `AInv` adds `Minted` (ids of tokens, and of what
threads hold, have been issued), `Founded` (a token's address has an account) and `Read`
(what a request read still bounds what the tables say: its role is among those
offered, the tokens that were there when a resend began are doomed or gone).
`ServerProofs` proves the rest, for any finite sets of threads and any caps and delays:

- Loaded models. The invariant `CInv` adds `Named` (a model is under its own run), `Fresh` (a
  request's run is no older than its floor, its model is its run's) and `Room` (loaded
  models and threads about to store are together no more than the threads), whose steps
  count finite sets. `CacheIsInvisible` shows the refinement from it, action by action:
  `Named` is why a model found loaded may answer.
- The window. `Caps` says that a hit which was counted and is not yet compared has its room:
  what a window let through and the threads about to compare are together no more than
  its hits, as long as those are within the cap. Its steps count a finite set of threads.
- The ladder. `Counted`: a failure that is `fresh` and about to count holds the streak that
  the dictionary has, since only a right password drops one, and it makes the others stale.
- The locks. `Rungs`: a lock is no longer from now than the rung of the failures counted by
  now (`LocksStayEarned` is its consequence), and so is a delay about to be written. `Kept`: a thread
  that is not `late` has a clock from which its own rung reaches as far as the lock there
  is. `Delay` never decreases: the doubling is a recursive function, `PowerOfTwo`, whose
  defining equation the proof establishes itself (`PowersExist`, `PowersAgree`), by
  induction. The library states induction with an operator as parameter, out of reach
  here; `NatSetInduction` states it with a set, from the well-foundedness of <.

Tokens and runs are bounded, so parts may stop: `CHECK_DEADLOCK FALSE`.

## 10. Experiments

`Catalog` is the catalog as experiments see it: current class and liveness of each model,
changed by `Relabel`, `Delete` and `Restore`, and the two queries `Rendered` and
`Trainable`. `Limited` is what a limit takes of a sorted list: a slice's end, so that 0 is
nothing, and a negative one drops from the end. Hashes of uids (census, subset, subsample,
split) are constants, any function, since nothing depends on which one.

`TextureLists` is the operator's side. `LoadTrainable`, `LoadGold` and `WriteCensus` are
`texture_census.py`; `SelectSubset` and `SelectDev` write the two selections; `ListRenders`,
`Rewrite` and `Push…` are `--verify-renders` and the pushes, file by file; `StopTool` stops
a command between any two. `RenderView` adds views meanwhile. `Read` takes the local
copy if there is one, else the bucket's. `VerifiedListsRender`: a list that was cut down
to the renders names only models with every view, from wherever it is read.

`Experiments` is training and evaluation: `LoadSamples` and `CreateRun` (the query, then
subset, limit and the row with its snapshot), `Resolved` (`resolve_scored_samples`: recorded
uids still trainable; or, for `train` and for runs that recorded none, the split computed
again as it is made today), `LoadRendered` and `Clean`
(`resolve_external_dev_set`'s two queries), beside every change of the catalog.

`Comparison` composes the two over one catalog: `CreateArm` is a run on the subset that `Read`
finds, in whatever stage of its making, and `LoadDev` an evaluation on such a dev list; gold
lists of other commands (`DevLists`) stay inputs.

- `ScoresFollowTheRun`: where a run recorded its val and test, nothing it was trained on is
  scored there, whichever version of the code split it, and whatever was relabeled,
  deleted, restored, limited or listed in between; scored on `train`, which is never
  recorded, a run sees no more strangers than models that came or went since. Of a run whose
  split was a shuffle and was not recorded (2 to 4), nothing is claimed: the comment at
  `evaluate.py:293` says that "a recomputed partition is not theirs". The table may
  begin with such a run (`OldTables`).
- `SubsampleIsStable`: two runs under one seed and limit differ in no more models than
  what they were chosen from differs in (the docstring of `subsample`).
- `GoldIsClean`: no run is scored on a gold model it was trained on; the exception is a
  model deleted between the evaluation's two queries.

One disagreement needs no run: the docstring of `_trainable_count` (`api.py:1156`) says that
it and `load_trainable_samples` must agree, but only the latter drops labels whose class
has left the roster (`Trainable` is what training loads).

The run `Experiments` has three models of the corpus and two gold ones, one of them with a
weak label too, two seeds, limits of none, two, 0 and one less than there are, two runs,
of which the first may be of an earlier version, recorded or not, and four events
(commands, jobs and catalog changes, which share the count): a run, a change, a second run
and another change (the constraint `OldRunIsAnEvent` takes one event off where a run is
there from the start); or a selection, its verification, and a run on it while the catalog
changes. It is `Comparison` itself: lists and runs interleave in it. One model's texture
cannot be sampled and one source is not a GLB, so that the census leaves some out.

`ExperimentsProofs` proves the three for catalogs, lists, limits and seeds of any size
(`CatalogAssumption`, `ExperimentsAssumption`: hashes tell uids apart, and the uids are
finitely many). `EInv` adds `Sampled` (a population is the subsample of its basis),
`Tagged` (a gold model that was ever trainable keeps a class of the roster: the backfill
writes no second label over it, and people label the corpus) and `Seen` (what an
evaluation took to be rendered and is no longer was deleted since). `SubsampleIsStable`
is the lemma `LowestIsStable`, a counting argument: an element of the *n* lowest of one
set that is not among those of the other is either not in the other, or crowded out
by as many that are new there. `DropIsStable` is the same of a negative limit, where the two
sets also keep different numbers, and `SubsampleMovesLittle` has them all; it also bounds the
strangers of `ScoresFollowTheRun`. `TextureListsProofs` proves `VerifiedListsRender`; its
invariant `XInv` says that what a running rewrite found complete is complete, and so is
every model of a verified copy, in the checkout and in the bucket.

Of the composition, `ComparisonInvariant` shows that both invariants hold together: `EInv` is
preserved for any list a run may read (`AnyList`), not only those of `SubsetLists`, and a step
of either part leaves the other's variables or only the catalog's alone. From it follow
`ComparisonIsSafe` (all four properties), the types, and an action property that neither
part can state: `ArmsStayRendered`, that a run on a list that was cut down to the renders
is trained on models that all have their textured views when it begins, which is what
makes the two arms comparable.

## 11. Summary of runs and proofs

| Run | Question | Proved for all instances |
|-----|----------|--------------------------|
| `PipelineArms`, `PipelineFaults` | safety of the pipeline; refinement; settlement | safety: yes; refinement: yes; liveness: TLC only |
| `PipelinePoison` | quarantine of what always fails | TLC only (liveness) |
| `PipelineReplay` | divergence | counterexample |
| `LabelsReview` | reviewed labels, reruns, early reservations | yes |
| `LabelsClobber` | divergence | counterexample |
| `TrainingRuns` | weights, reports, curves; settlement | safety: yes; liveness: TLC only |
| `TrainingLingers` | divergence | counterexample |
| `StorageTools` | reconciler and cleanup | yes |
| `StorageForgets` | divergence | counterexample |
| `ServerState` | accounts, limiters, loaded models; refinement of predictions | yes, and of the whole process |
| `Experiments` | lists, splits, subsamples, held-out scoring | yes, of the parts and of the composition |

Every theorem rests on its module's named assumption and nothing else, and every
property was model-checked before it was proved. What stays with TLC: liveness under
fairness (`AcceptedIsSettled`, `PoisonIsQuarantined` and the settlement of training runs),
since the prover has neither `ENABLED` nor the rules for it; and the counterexamples of
the runs that expect one. Every invariant, action property and refinement of the passing
runs is a theorem. Two abstract specifications are implemented, each proved step by
step: `PipelinePromise` and `PredictionPromise`.

## 12. What is not modelled

- The content of a mesh, of an image, of a message's JSON; logging; reports; the paced
  publishing of large seeds (`publish_paced`), which changes when messages appear and
  not which; validation of an upload's bytes.
- Database outages as such: they appear as `Raise` and `RecordingFails`. Retention limits
  of Pub/Sub and object versions in the bucket.
- The API's reads: lists, details, thumbnails and downloads change no state. One of them is
  delicate: a model's page takes the textured views as soon as the first of them is there
  (`api.py:1692`), while the others are still being rendered.
- Password hashing, cookies and their CSRF check; the wording of mail.
- `LocalStorage`, whose file writes are not atomic: it serves development and tests, and
  the deployed store is `RoutedGcsStorage`, which `StorageTools` has. Signed URLs.
- Arithmetic of networks, losses, metrics and rendering (`ml/model.py`, `ml/metrics.py`,
  `dataset.py`, `workers/mesh.py`): numerical code without state of its own.
- The other data tools (`weak_label.py`, `taxonomy.py`, `build_class_list.py`,
  `explore_metadata.py`, `review_queue.py`, the evaluations of weak labels): one file in,
  one file out, by hand, and mostly text processing.
- The balanced choice of a dev set among eligible objects: a pure choice no other step
  depends on.
- Schema migrations (generated, run once per deployment), deployment scripts (but for the
  drop of the schema, `DropTables`), and the web client, whose only shared state is a
  session one call deep.
