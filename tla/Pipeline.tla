------------------------------ MODULE Pipeline ------------------------------
(***************************************************************************)
(* The preprocessing pipeline: four Pub/Sub topics (download-jobs,         *)
(* convert-jobs, normalize-jobs, render-jobs), a push worker per stage     *)
(* (server/app/web.py), the handlers in server/app/workers/, the blobs     *)
(* they write, the model / artifact / dead_letter rows they record, and    *)
(* the two ways a failed job is tried again (server/app/dead_letters.py    *)
(* and server/app/replay_dlq.py).                                          *)
(*                                                                         *)
(* Delivery is at-least-once.  A message is a job and its delivery count;  *)
(* the queue is a set, so equal copies of a message are one element, and a *)
(* copy that Pub/Sub delivers again is an action of its own.  A delivered  *)
(* message belongs to its slot until it is acked, nacked, or its lease     *)
(* runs out, in which case the slot works on without it.                   *)
(*                                                                         *)
(* No action here deletes a blob or a row (server/app/cleanup_raw.py and   *)
(* server/app/reconcile_from_storage.py are not part of this module), so   *)
(* one atomic read of a row and a blob gives what the handlers get from a  *)
(* query followed by exists().                                             *)
(***************************************************************************)
EXTENDS Naturals

CONSTANTS
  Objaverse,       \* uids ingested from the store
  Uploads,         \* uids of the meshes admins upload
  UploadSuffix,    \* the format of each upload, .glb or not
  TexturedSeeds,   \* uids of the texture A/B's subset (seed_variant's CSV)
  Workers,         \* worker instances, over all four stages
  Poison,          \* jobs whose handler raises on every delivery
  NumViews,        \* views per model (12 in artifact_keys.py)
  MaxAttempts,     \* max_delivery_attempts of a subscription (20 in infra/)
  MaxSubmissions,  \* bound: jobs published by the seeders
  MaxFaults,       \* bound: crashes, exceptions, lost leases, 429s, duplicates
  MaxReplays,      \* bound: retries by an admin, of either kind
  NoRow,           \* no model row
  None             \* no message, no retry in progress

Uids == Objaverse \cup Uploads

(* Stages in pipeline order: numbers, because what follows what matters.   *)
Download == 1
Convert == 2
Normalize == 3
Render == 4
Stages == Download .. Render

Default == "default"
Textured == "textured"
Variants == {Default, Textured}
Arms == Uids \X Variants

Suffixes == {"glb", "other"}
Views == 0 .. (NumViews - 1)

Job == [stage : Stages, uid : Uids, variant : Variants]
Message == [job : Job, attempt : 1 .. MaxAttempts]
ArmOf(j) == <<j.uid, j.variant>>
JobFor(a, s) == [stage |-> s, uid |-> a[1], variant |-> a[2]]
Fresh(j) == [job |-> j, attempt |-> 1]

BudgetKinds == {"submit", "fault", "replay"}

ASSUME PipelineAssumption ==
  /\ Objaverse \cap Uploads = {}
  /\ UploadSuffix \in [Uploads -> Suffixes]
  /\ TexturedSeeds \subseteq Uids
  /\ Poison \subseteq Job
  /\ NumViews \in Nat \ {0}
  /\ MaxAttempts \in Nat \ {0}
  /\ MaxSubmissions \in Nat /\ MaxFaults \in Nat /\ MaxReplays \in Nat
  /\ NoRow \notin Suffixes
  /\ None \notin Message
  /\ None \notin Uids \X Stages

VARIABLES
  raw,         \* raw[u]: the formats u's source mesh is stored in
  converted,   \* arms whose convert output is stored
  normalized,  \* arms whose normalize output is stored
  views,       \* views[a]: the view PNGs stored for arm a
  model,       \* model[u]: the format raw_key names, or NoRow
  artifact,    \* <<uid, stage>> of the artifact rows, all of them done
  deadLetter,  \* deadLetter[u, s]: the failure row of a uid and a stage
  queue,       \* messages waiting on the stages' subscriptions
  dlq,         \* jobs waiting on the dead-letter subscriptions
  draining,    \* jobs replay_dlq has republished and not yet acked
  slot,        \* slot[w]: what a worker instance is doing
  upload,      \* upload[u]: how far POST /models has come with u
  accepted,    \* arms the system has promised to process
  retry,       \* the dead letter whose replay is not yet committed
  budget       \* what is left of each bound

store == <<raw, converted, normalized, views>>
tables == <<model, artifact, deadLetter>>
pubsub == <<queue, dlq, draining>>
outside == <<upload, accepted, retry, budget>>
vars == <<store, tables, pubsub, slot, outside>>

-----------------------------------------------------------------------------

PCs == {"idle", "gate", "work", "record", "publish", "ack", "failed", "nack"}
Busy == PCs \ {"idle"}

Idle == [pc |-> "idle", msg |-> None, leased |-> FALSE, src |-> "glb", view |-> 0]

SlotType ==
  [pc : PCs, msg : Message \cup {None}, leased : BOOLEAN, src : Suffixes,
   view : 0 .. NumViews]

StoreOK ==
  /\ raw \in [Uids -> SUBSET Suffixes]
  /\ converted \subseteq Arms
  /\ normalized \subseteq Arms
  /\ views \in [Arms -> SUBSET Views]

TablesOK ==
  /\ model \in [Uids -> Suffixes \cup {NoRow}]
  /\ artifact \subseteq Uids \X {Convert, Normalize, Render}
  /\ deadLetter \in [Uids \X Stages -> {"none", "outstanding", "replayed"}]

(* replay_dlq holds jobs of one stage, and only jobs that are still there. *)
PubsubOK ==
  /\ queue \subseteq Message
  /\ dlq \subseteq Job
  /\ draining \subseteq dlq
  /\ \A j, k \in draining : j.stage = k.stage

(* A busy slot has a message, and only a busy slot holds a lease.          *)
SlotsOK ==
  /\ slot \in [Workers -> SlotType]
  /\ \A w \in Workers : slot[w].pc \in Busy => slot[w].msg \in Message
  /\ \A w \in Workers : slot[w].leased => slot[w].pc \in Busy

OutsideOK ==
  /\ upload \in [Uploads -> {"new", "blob", "row", "queued", "lost"}]
  /\ accepted \subseteq Arms
  /\ retry \in (Uids \X Stages) \cup {None}
  /\ budget \in [BudgetKinds -> Nat]

TypeOK == StoreOK /\ TablesOK /\ PubsubOK /\ SlotsOK /\ OutsideOK

Init ==
  /\ raw = [u \in Uids |-> {}]
  /\ converted = {}
  /\ normalized = {}
  /\ views = [a \in Arms |-> {}]
  /\ model = [u \in Uids |-> NoRow]
  /\ artifact = {}
  /\ deadLetter = [k \in Uids \X Stages |-> "none"]
  /\ queue = {}
  /\ dlq = {}
  /\ draining = {}
  /\ slot = [w \in Workers |-> Idle]
  /\ upload = [u \in Uploads |-> "new"]
  /\ accepted = {}
  /\ retry = None
  /\ budget = [k \in BudgetKinds |->
                 CASE k = "submit" -> MaxSubmissions
                   [] k = "fault" -> MaxFaults
                   [] k = "replay" -> MaxReplays]

Spend(kind) ==
  /\ budget[kind] > 0
  /\ budget' = [budget EXCEPT ![kind] = @ - 1]

-----------------------------------------------------------------------------
(* What comes in: the seeders and the upload endpoint.                     *)

Submit(j) ==
  /\ Spend("submit")
  /\ queue' = queue \cup {Fresh(j)}
  /\ accepted' = accepted \cup {ArmOf(j)}
  /\ UNCHANGED <<store, tables, dlq, draining, slot, upload, retry>>

(* seed.py publishes download jobs, again for a uid it seeded before.      *)
Seed(u) == Submit(JobFor(<<u, Default>>, Download))

(* seed_variant.py starts the textured arm at convert: the raw mesh of a   *)
(* subset's uid is expected to be there already, and nothing checks it.    *)
SeedVariant(u) == Submit(JobFor(<<u, Textured>>, Convert))

(* upload_model: the blob, then the row, then the convert job.  The client *)
(* is promised the model only by the response that follows the publish; an *)
(* API instance that dies earlier leaves what it had written.              *)
UploadBlob(u) ==
  /\ upload[u] = "new"
  /\ raw' = [raw EXCEPT ![u] = @ \cup {UploadSuffix[u]}]
  /\ upload' = [upload EXCEPT ![u] = "blob"]
  /\ UNCHANGED <<converted, normalized, views, tables, pubsub, slot,
                 accepted, retry, budget>>

UploadRow(u) ==
  /\ upload[u] = "blob"
  /\ model' = [model EXCEPT ![u] = UploadSuffix[u]]
  /\ upload' = [upload EXCEPT ![u] = "row"]
  /\ UNCHANGED <<store, artifact, deadLetter, pubsub, slot, accepted, retry, budget>>

UploadPublish(u) ==
  /\ upload[u] = "row"
  /\ queue' = queue \cup {Fresh(JobFor(<<u, Default>>, Convert))}
  /\ accepted' = accepted \cup {<<u, Default>>}
  /\ upload' = [upload EXCEPT ![u] = "queued"]
  /\ UNCHANGED <<store, tables, dlq, draining, slot, retry, budget>>

UploadLost(u) ==
  /\ upload[u] \in {"blob", "row"}
  /\ Spend("fault")
  /\ upload' = [upload EXCEPT ![u] = "lost"]
  /\ UNCHANGED <<store, tables, pubsub, slot, accepted, retry>>

-----------------------------------------------------------------------------
(* Pub/Sub: delivery, redelivery and the dead-letter policy.               *)

(* One more delivery of m failed: it waits for the next one, or, at the    *)
(* subscription's limit, moves to the dead-letter topic.  A job that is    *)
(* dead-lettered while replay_dlq holds an older copy of it is a new       *)
(* message there, which the pending acknowledgement does not cover.        *)
(* (Mutant: without the policy, redelivered for ever.)                     *)
RedeliverForEver(m, waiting) ==
  /\ queue' = waiting \cup {m}
  /\ UNCHANGED <<dlq, draining>>

(* (Mutant: dropped at the limit instead.)                                 *)
RedeliverOrDrop(m, waiting) ==
  /\ queue' = IF m.attempt < MaxAttempts
              THEN waiting \cup {[m EXCEPT !.attempt = @ + 1]} ELSE waiting
  /\ UNCHANGED <<dlq, draining>>

Redeliver(m, waiting) ==
  IF m.attempt < MaxAttempts
  THEN /\ queue' = waiting \cup {[m EXCEPT !.attempt = @ + 1]}
       /\ UNCHANGED <<dlq, draining>>
  ELSE /\ queue' = waiting
       /\ dlq' = dlq \cup {m.job}
       /\ draining' = draining \ {m.job}

Take(w, m) ==
  /\ slot[w].pc = "idle"
  /\ slot' = [slot EXCEPT ![w] =
                [pc |-> "gate", msg |-> m, leased |-> TRUE, src |-> "glb", view |-> 0]]
  /\ UNCHANGED <<store, tables, dlq, draining, upload, accepted, retry>>

Deliver(w, m) ==
  /\ Take(w, m)
  /\ queue' = queue \ {m}
  /\ UNCHANGED budget

(* At-least-once: a copy of the message stays behind and comes again.      *)
DeliverTwice(w, m) ==
  /\ Spend("fault")
  /\ Take(w, m)
  /\ UNCHANGED queue

(* Cloud Run answers 429 when it has no instance to place the request on,  *)
(* and Pub/Sub counts that as a failed delivery: no handler has run.       *)
Congestion(m) ==
  /\ Spend("fault")
  /\ Redeliver(m, queue \ {m})
  /\ UNCHANGED <<store, tables, slot, upload, accepted, retry>>

(* The ack deadline passes while the handler is still at work.             *)
LeaseExpires(w) ==
  /\ slot[w].leased
  /\ Spend("fault")
  /\ Redeliver(slot[w].msg, queue)
  /\ slot' = [slot EXCEPT ![w].leased = FALSE]
  /\ UNCHANGED <<store, tables, upload, accepted, retry>>

(* An instance dies (out of memory, evicted, timed out): nothing records   *)
(* the failure, and the broken connection is a nack.                       *)
Crash(w) ==
  /\ slot[w].pc \in Busy
  /\ Spend("fault")
  /\ IF slot[w].leased
     THEN Redeliver(slot[w].msg, queue)
     ELSE UNCHANGED pubsub
  /\ slot' = [slot EXCEPT ![w] = Idle]
  /\ UNCHANGED <<store, tables, upload, accepted, retry>>

-----------------------------------------------------------------------------
(* The handlers.  "gate" is the idempotency check, "work" reads the input, *)
(* computes and writes the output blob, "record" is the row's transaction, *)
(* "publish" the hand-off and "ack" the handler's return.                  *)

JobOf(w) == slot[w].msg.job
Uid(w) == JobOf(w).uid
Arm(w) == ArmOf(JobOf(w))
At(w, stage, p) == slot[w].pc = p /\ JobOf(w).stage = stage
MoveTo(w, p) == slot' = [slot EXCEPT ![w].pc = p]

(* Where a handler goes once its blob is stored: only the default arm owns *)
(* artifact rows.                                                          *)
(* (Mutant: every arm records.)                                            *)
AfterBlobOfAnyArm(w, otherwise) == "record"

AfterBlob(w, otherwise) == IF JobOf(w).variant = Default THEN "record" ELSE otherwise

(* artifact_done: the row and the blob, never one of them alone.           *)
ArtifactDone(u, stage, present) == <<u, stage>> \in artifact /\ present

DownloadGate(w) ==
  /\ At(w, Download, "gate")
  /\ MoveTo(w, IF model[Uid(w)] # NoRow /\ "glb" \in raw[Uid(w)] THEN "publish" ELSE "work")
  /\ UNCHANGED <<store, tables, pubsub, outside>>

DownloadWork(w) ==
  /\ At(w, Download, "work")
  /\ IF JobOf(w) \in Poison
     THEN MoveTo(w, "failed") /\ UNCHANGED raw
     ELSE MoveTo(w, "record") /\ raw' = [raw EXCEPT ![Uid(w)] = @ \cup {"glb"}]
  /\ UNCHANGED <<converted, normalized, views, tables, pubsub, outside>>

DownloadRecord(w) ==
  /\ At(w, Download, "record")
  /\ model' = [model EXCEPT ![Uid(w)] = "glb"]
  /\ MoveTo(w, "publish")
  /\ UNCHANGED <<store, artifact, deadLetter, pubsub, outside>>

(* The gate's transaction also reads raw_key, which says where the source  *)
(* is; a uid with no row falls back to the download worker's key.          *)
(* (Mutant: a skipped job ends here, as in render.)                        *)
ConvertGateNoHandOff(w) ==
  /\ At(w, Convert, "gate")
  /\ LET present == Arm(w) \in converted
         done == IF JobOf(w).variant = Default
                 THEN ArtifactDone(Uid(w), Convert, present) ELSE present
         key == IF model[Uid(w)] # NoRow THEN model[Uid(w)] ELSE "glb"
     IN slot' = [slot EXCEPT ![w].pc = IF done THEN "ack" ELSE "work",
                             ![w].src = key]
  /\ UNCHANGED <<store, tables, pubsub, outside>>

ConvertGate(w) ==
  /\ At(w, Convert, "gate")
  /\ LET present == Arm(w) \in converted
         done == IF JobOf(w).variant = Default
                 THEN ArtifactDone(Uid(w), Convert, present) ELSE present
         key == IF model[Uid(w)] # NoRow THEN model[Uid(w)] ELSE "glb"
     IN slot' = [slot EXCEPT ![w].pc = IF done THEN "publish" ELSE "work",
                             ![w].src = key]
  /\ UNCHANGED <<store, tables, pubsub, outside>>

ConvertWork(w) ==
  /\ At(w, Convert, "work")
  /\ IF slot[w].src \in raw[Uid(w)] /\ JobOf(w) \notin Poison
     THEN /\ converted' = converted \cup {Arm(w)}
          /\ MoveTo(w, AfterBlob(w, "publish"))
     ELSE MoveTo(w, "failed") /\ UNCHANGED converted
  /\ UNCHANGED <<raw, normalized, views, tables, pubsub, outside>>

NormalizeGate(w) ==
  /\ At(w, Normalize, "gate")
  /\ LET present == Arm(w) \in normalized
         done == IF JobOf(w).variant = Default
                 THEN ArtifactDone(Uid(w), Normalize, present) ELSE present
     IN MoveTo(w, IF done THEN "publish" ELSE "work")
  /\ UNCHANGED <<store, tables, pubsub, outside>>

NormalizeWork(w) ==
  /\ At(w, Normalize, "work")
  /\ IF Arm(w) \in converted /\ JobOf(w) \notin Poison
     THEN /\ normalized' = normalized \cup {Arm(w)}
          /\ MoveTo(w, AfterBlob(w, "publish"))
     ELSE MoveTo(w, "failed") /\ UNCHANGED normalized
  /\ UNCHANGED <<raw, converted, views, tables, pubsub, outside>>

(* The only stage with nothing to hand on: a finished view set ends here.  *)
(* (Mutant: the completeness check of the view set is missing.)            *)
RenderGateNoViewCheck(w) ==
  /\ At(w, Render, "gate")
  /\ LET done == \/ JobOf(w).variant # Default
                 \/ ArtifactDone(Uid(w), Render, NumViews - 1 \in views[Arm(w)])
     IN MoveTo(w, IF done THEN "ack" ELSE "work")
  /\ UNCHANGED <<store, tables, pubsub, outside>>

RenderGate(w) ==
  /\ At(w, Render, "gate")
  /\ LET done == \/ JobOf(w).variant # Default
                 \/ ArtifactDone(Uid(w), Render, NumViews - 1 \in views[Arm(w)])
     IN MoveTo(w, IF done /\ views[Arm(w)] = Views THEN "ack" ELSE "work")
  /\ UNCHANGED <<store, tables, pubsub, outside>>

(* Before the first view the handler reads the normalized mesh and renders *)
(* it; then it stores the views one by one.                                *)
RenderWork(w) ==
  /\ At(w, Render, "work")
  /\ LET v == slot[w].view IN
     IF v = 0 /\ (Arm(w) \notin normalized \/ JobOf(w) \in Poison)
     THEN MoveTo(w, "failed") /\ UNCHANGED views
     ELSE /\ views' = [views EXCEPT ![Arm(w)] = @ \cup {v}]
          /\ slot' = [slot EXCEPT ![w].view = v + 1,
                                  ![w].pc = IF v + 1 < NumViews THEN "work"
                                            ELSE AfterBlob(w, "ack")]
  /\ UNCHANGED <<raw, converted, normalized, tables, pubsub, outside>>

(* record_artifact.  The row's foreign key makes the upsert fail for a uid *)
(* that has no model row.                                                  *)
RecordArtifact(w) ==
  /\ slot[w].pc = "record" /\ JobOf(w).stage # Download
  /\ IF model[Uid(w)] # NoRow
     THEN /\ artifact' = artifact \cup {<<Uid(w), JobOf(w).stage>>}
          /\ MoveTo(w, IF JobOf(w).stage = Render THEN "ack" ELSE "publish")
     ELSE MoveTo(w, "failed") /\ UNCHANGED artifact
  /\ UNCHANGED <<store, model, deadLetter, pubsub, outside>>

(* publish_next, with the job's own variant: done on "skipped" too.        *)
PublishNext(w) ==
  /\ slot[w].pc = "publish" /\ JobOf(w).stage < Render
  /\ queue' = queue \cup {Fresh(JobFor(Arm(w), JobOf(w).stage + 1))}
  /\ MoveTo(w, "ack")
  /\ UNCHANGED <<store, tables, dlq, draining, outside>>

(* 204: Pub/Sub drops the message, if it is still this slot's to ack.      *)
Ack(w) ==
  /\ slot[w].pc = "ack"
  /\ slot' = [slot EXCEPT ![w] = Idle]
  /\ UNCHANGED <<store, tables, pubsub, outside>>

(* A storage, database or publish call raises, before or after taking      *)
(* effect on the other side.                                               *)
Raise(w) ==
  /\ slot[w].pc \in {"gate", "work", "record", "publish", "ack"}
  /\ Spend("fault")
  /\ MoveTo(w, "failed")
  /\ UNCHANGED <<store, tables, pubsub, upload, accepted, retry>>

(* record_failure: an upsert that also clears replayed_at.                 *)
RecordFailure(w) ==
  /\ slot[w].pc = "failed"
  /\ deadLetter' = [deadLetter EXCEPT ![<<Uid(w), JobOf(w).stage>>] = "outstanding"]
  /\ MoveTo(w, "nack")
  /\ UNCHANGED <<store, model, artifact, pubsub, outside>>

(* Its own failure is swallowed; the pull consumer records nothing at all. *)
RecordingFails(w) ==
  /\ slot[w].pc = "failed"
  /\ Spend("fault")
  /\ MoveTo(w, "nack")
  /\ UNCHANGED <<store, tables, pubsub, upload, accepted, retry>>

(* 500.                                                                    *)
(* (Mutant: the failure is answered 204.)                                  *)
NackAnswers204(w) ==
  /\ slot[w].pc = "nack"
  /\ slot' = [slot EXCEPT ![w] = Idle]
  /\ UNCHANGED <<store, tables, pubsub, outside>>

Nack(w) ==
  /\ slot[w].pc = "nack"
  /\ IF slot[w].leased
     THEN Redeliver(slot[w].msg, queue)
     ELSE UNCHANGED pubsub
  /\ slot' = [slot EXCEPT ![w] = Idle]
  /\ UNCHANGED <<store, tables, outside>>

-----------------------------------------------------------------------------
(* Trying again.                                                           *)

(* An admin retries a dead letter: replay() publishes inside the request's *)
(* transaction, and replayed_at is set when that commits.  The row names a *)
(* uid and a stage and no variant, so the job published is the default's.  *)
(* (Mutant: the publish is not awaited, and may never happen.)             *)
ReplayPublishUnconfirmed(u, s) ==
  /\ deadLetter[<<u, s>>] # "none"
  /\ retry = None
  /\ Spend("replay")
  /\ queue' \in {queue, queue \cup {Fresh(JobFor(<<u, Default>>, s))}}
  /\ retry' = <<u, s>>
  /\ UNCHANGED <<store, tables, dlq, draining, slot, upload, accepted>>

ReplayPublish(u, s) ==
  /\ deadLetter[<<u, s>>] # "none"
  /\ retry = None
  /\ Spend("replay")
  /\ queue' = queue \cup {Fresh(JobFor(<<u, Default>>, s))}
  /\ retry' = <<u, s>>
  /\ UNCHANGED <<store, tables, dlq, draining, slot, upload, accepted>>

ReplayCommit ==
  /\ retry # None
  /\ deadLetter' = [deadLetter EXCEPT ![retry] = "replayed"]
  /\ retry' = None
  /\ UNCHANGED <<store, model, artifact, pubsub, slot, upload, accepted, budget>>

ReplayRollback ==
  /\ retry # None
  /\ Spend("fault")
  /\ retry' = None
  /\ UNCHANGED <<store, tables, pubsub, slot, upload, accepted>>

(* replay_dlq drains one stage's dead-letter subscription: it publishes    *)
(* each pulled message and acknowledges the batch after the last of them.  *)
DlqPublish(j) ==
  /\ j \in dlq \ draining
  /\ \A k \in draining : k.stage = j.stage
  /\ Spend("replay")
  /\ queue' = queue \cup {Fresh(j)}
  /\ draining' = draining \cup {j}
  /\ UNCHANGED <<store, tables, dlq, slot, upload, accepted, retry>>

(* (Mutant: the acknowledged batch is not forgotten.)                      *)
DlqAckKeepsBatch ==
  /\ draining # {}
  /\ dlq' = dlq \ draining
  /\ UNCHANGED <<store, tables, queue, draining, slot, outside>>

DlqAck ==
  /\ draining # {}
  /\ dlq' = dlq \ draining
  /\ draining' = {}
  /\ UNCHANGED <<store, tables, queue, slot, outside>>

(* The tool dies before the acknowledgement: the batch is pulled again.    *)
DlqCrash ==
  /\ draining # {}
  /\ Spend("fault")
  /\ draining' = {}
  /\ UNCHANGED <<store, tables, queue, dlq, slot, upload, accepted, retry>>

-----------------------------------------------------------------------------

Handle(w) ==
  \/ DownloadGate(w) \/ DownloadWork(w) \/ DownloadRecord(w)
  \/ ConvertGate(w) \/ ConvertWork(w)
  \/ NormalizeGate(w) \/ NormalizeWork(w)
  \/ RenderGate(w) \/ RenderWork(w)
  \/ RecordArtifact(w) \/ PublishNext(w) \/ Ack(w)
  \/ RecordFailure(w) \/ Nack(w)

Incoming ==
  \/ \E u \in Objaverse : Seed(u)
  \/ \E u \in TexturedSeeds : SeedVariant(u)
  \/ \E u \in Uploads : UploadBlob(u) \/ UploadRow(u) \/ UploadPublish(u) \/ UploadLost(u)

Delivery == \E w \in Workers, m \in queue : Deliver(w, m)

Trouble ==
  \/ \E w \in Workers, m \in queue : DeliverTwice(w, m)
  \/ \E m \in queue : Congestion(m)
  \/ \E w \in Workers : LeaseExpires(w) \/ Crash(w) \/ Raise(w) \/ RecordingFails(w)

Retrying ==
  \/ \E u \in Uids, s \in Stages : ReplayPublish(u, s)
  \/ ReplayCommit \/ ReplayRollback
  \/ \E j \in dlq : DlqPublish(j)
  \/ DlqAck \/ DlqCrash

Next ==
  \/ Incoming
  \/ Delivery
  \/ \E w \in Workers : Handle(w)
  \/ Trouble
  \/ Retrying

Spec == Init /\ [][Next]_vars

(* Pub/Sub keeps pushing a message it holds, and a handler that runs goes  *)
(* on running.  Nothing is assumed of admins, uploads, faults or retries.  *)
FairSpec ==
  /\ Spec
  /\ WF_vars(Delivery)
  /\ \A w \in Workers : WF_vars(Handle(w))

-----------------------------------------------------------------------------
(* Properties.                                                             *)

(* The jobs some message stands for: waiting, quarantined, or held by a    *)
(* slot that would have to give it back.                                   *)
Live ==
  {m.job : m \in queue} \cup dlq
    \cup {JobOf(w) : w \in {x \in Workers : slot[x].leased}}

(* What the last stage leaves: every view, and for the arm the catalog and *)
(* training read, the row that says so.                                    *)
Rendered(a) ==
  /\ views[a] = Views
  /\ a[2] = Default => <<a[1], Render>> \in artifact

(* The arm is done, or there is a message for the stage or a later one.    *)
Accounted(a, stage) ==
  \/ Rendered(a)
  \/ \E j \in Live : ArmOf(j) = a /\ j.stage >= stage

(* No accepted model drops out of the pipeline: whatever crashes, lost     *)
(* leases, duplicates, 429s and retries do, it is rendered or some message *)
(* still stands for it.  This is what the order of a handler's steps       *)
(* (store, record, publish, ack) and the hand-off of skipped jobs are for. *)
NothingLost == \A a \in accepted : Accounted(a, Download)

(* A row never runs ahead of storage: raw_key names a stored mesh, and a   *)
(* done artifact row has its whole output behind it, all the views for     *)
(* render.  Training reads every view of a model on the strength of the    *)
(* row alone (ml/train.py load_trainable_samples, ml/dataset.py).          *)
DoneMeansStored ==
  /\ \A u \in Uids : model[u] # NoRow => model[u] \in raw[u]
  /\ \A u \in Uids :
       /\ <<u, Convert>> \in artifact => <<u, Default>> \in converted
       /\ <<u, Normalize>> \in artifact => <<u, Default>> \in normalized
       /\ <<u, Render>> \in artifact => views[<<u, Default>>] = Views

(* A dead letter marked as replayed has left the outstanding list, so the  *)
(* job it was replayed as must be on its way, quarantined again, or past   *)
(* its stage: replay() publishes before the mark commits.                  *)
ReplayedIsUnderway ==
  \A u \in Uids, s \in Stages :
    deadLetter[<<u, s>>] = "replayed" => Accounted(<<u, Default>>, s)

(* Every promise is settled: the arm is rendered in the end, or one of its *)
(* jobs is quarantined where replay_dlq finds it.                          *)
AcceptedIsSettled ==
  \A a \in Arms :
    a \in accepted ~> (Rendered(a) \/ \E j \in dlq : ArmOf(j) = a)

(* A job that fails every time stops being delivered: it reaches the       *)
(* dead-letter topic, even one an admin keeps bringing back.               *)
PoisonIsQuarantined ==
  \A j \in Poison : (\E m \in queue : m.job = j) ~> j \in dlq

(* The stages of an arm whose output is complete, counted up to the first  *)
(* that is not.                                                            *)
Progress(a) ==
  IF raw[a[1]] = {} THEN 0
  ELSE IF a \notin converted THEN Download
  ELSE IF a \notin normalized THEN Convert
  ELSE IF ~Rendered(a) THEN Normalize
  ELSE Render

Promise == INSTANCE PipelinePromise WITH
  LastStage <- Render,
  progress <- [a \in Arms |-> Progress(a)],
  promised <- accepted,
  kept <- {ArmOf(j) : j \in Live}

(* The pipeline implements PipelinePromise.                                *)
KeepsPromise == Promise!PromiseSpec

=============================================================================
