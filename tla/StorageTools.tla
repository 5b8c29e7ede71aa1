---------------------------- MODULE StorageTools ----------------------------
(***************************************************************************)
(* The operator tools that work on the object store and the tables beside  *)
(* a live system: the reconciler (server/app/reconcile_from_storage.py),   *)
(* the cleanup of raw meshes (server/app/cleanup_raw.py) and the metadata  *)
(* backfill (server/app/backfill_metadata.py), over the store of           *)
(* server/app/storage.py.                                                  *)
(*                                                                         *)
(* Beside them run the workers of the default arm and the API, reduced to  *)
(* what they do to blobs and rows; Pipeline has the queue.  A job that was *)
(* published may be delivered at any time (redelivery, a replay), to one   *)
(* worker per model.  A blob is its kind and its model: what is in it, and *)
(* an object under a prefix that no uid can be read from, are left out.    *)
(* The listing of one prefix is one step, a transaction one step where it  *)
(* holds its locks, and one step per statement where it only reads.        *)
(***************************************************************************)
EXTENDS Naturals, Sequences

CONSTANTS
  Uids,       \* models, and objects that may become models
  Annotated,  \* the uids Objaverse has an annotation with a title for
  NumViews,   \* NUM_VIEWS
  MaxLabels   \* bound: labels of one model

ASSUME StorageAssumption ==
  /\ Annotated \subseteq Uids
  /\ NumViews \in Nat \ {0}
  /\ MaxLabels \in Nat

VARIABLES
  bucket,     \* bucket["raw"], bucket["processed"]: the keys stored there
  model,      \* model[u]: NoRow, or a row of the model table
  artifact,   \* the rows of the artifact table, all of them done
  upload,     \* the models that are uploads: their raw mesh is not a .glb
  label,      \* label[u]: the classes of u's labels, oldest first
  queued,     \* the jobs that were ever published
  worker,     \* worker[u]: what the worker of u's job is about to do
  reconciler, \* a run of the reconciler
  cleaner,    \* a run of the raw cleanup
  kept,       \* history: the models in the dataset ever since the cleaner began
  quiet       \* history: the store has not changed since the reconciler began

pipeline == <<queued, worker>>
tools == <<reconciler, cleaner>>
storageVars == <<bucket, model, artifact, upload, label, pipeline, tools, kept, quiet>>

(* The class of a label is in the roster, or it is not.                    *)
Classes == {"roster", "other"}
Stages == {"converted", "normalized", "rendered"}
Views == 1 .. NumViews
Keys == ({"raw", "converted", "normalized"} \X Uids \X {0}) \cup ({"view"} \X Uids \X Views)

NoRow == [status |-> "none", raw_key |-> FALSE, deleted |-> FALSE, title |-> "none"]
Exists(u) == model[u].status # "none"

(* RoutedGcsStorage: a key, and a listing's prefix, belongs to one bucket. *)
Backend(key) == IF key[1] = "raw" THEN "raw" ELSE "processed"
Has(key) == key \in bucket[Backend(key)]
Put(key) == bucket' = [bucket EXCEPT ![Backend(key)] = @ \cup {key}]

(* raw_key, converted_key, normalized_key, view_key.                       *)
Blob(kind, u) == <<kind, u, 0>>
View(u, i) == <<"view", u, i>>
Stored(kind, u) == Has(Blob(kind, u))

(* One listing of the prefix of a kind.                                    *)
Listed(kind) == {u \in Uids : Stored(kind, u)}
AllViews(u) == \A i \in Views : Has(View(u, i))

(* _complete_render_uids.  (Mutant: one view is enough.)                   *)
CompleteRendersAny == {u \in Uids : \E i \in Views : Has(View(u, i))}
CompleteRenders == {u \in Uids : AllViews(u)}

IdleWorker == [at |-> "idle", views |-> 0]
IdleReconciler == [pc |-> "idle", raw |-> {}, converted |-> {},
                   normalized |-> {}, rendered |-> {}]
IdleCleaner == [pc |-> "idle", excluded |-> {}, candidates |-> {}]

StorageTypeOK ==
  /\ bucket \in [{"raw", "processed"} -> SUBSET Keys]
  /\ model \in [Uids -> [status : {"none", "pending", "downloaded"}, raw_key : BOOLEAN,
                         deleted : BOOLEAN, title : {"none", "file", "store"}]]
  /\ artifact \subseteq Stages \X Uids
  /\ upload \subseteq Uids
  /\ label \in [Uids -> Seq(Classes)]
  /\ queued \subseteq Stages \X Uids
  /\ worker \in [Uids -> [at : {"idle", "fetched", "uploaded", "converted", "normalized",
                                "rendered"},
                          views : 0 .. NumViews]]
  /\ reconciler \in [pc : {"idle", "raw", "converted", "normalized", "rendered", "write"},
                     raw : SUBSET Uids, converted : SUBSET Uids,
                     normalized : SUBSET Uids, rendered : SUBSET Uids]
  /\ cleaner \in [pc : {"idle", "labels", "known", "list", "confirm", "delete"},
                  excluded : SUBSET Uids, candidates : SUBSET Uids]
  /\ kept \subseteq Uids
  /\ quiet \in BOOLEAN

StorageInit ==
  /\ bucket = [b \in {"raw", "processed"} |-> {}]
  /\ model = [u \in Uids |-> NoRow]
  /\ artifact = {}
  /\ upload = {}
  /\ label = [u \in Uids |-> <<>>]
  /\ queued = {}
  /\ worker = [u \in Uids |-> IdleWorker]
  /\ reconciler = IdleReconciler
  /\ cleaner = IdleCleaner
  /\ kept = {}
  /\ quiet = FALSE

(* A model is in the dataset if it is live and its newest label is one of  *)
(* the roster's.                                                           *)
Newest(labels) == labels[Len(labels)]
InDataset(row, labels) ==
  /\ row.status # "none"
  /\ ~row.deleted
  /\ labels # <<>>
  /\ Newest(labels) = "roster"

(* Every step of the system beside the tools.                              *)
BesideTools ==
  /\ kept' = {u \in kept : InDataset(model'[u], label'[u])}
  /\ quiet' = (quiet /\ bucket' = bucket)
  /\ UNCHANGED tools

Beside == UNCHANGED upload /\ BesideTools

-----------------------------------------------------------------------------
(* The workers.                                                            *)

Publish(stage, u) == queued' = queued \cup {<<stage, u>>}
Idle(u) == worker[u].at = "idle"
WorkerTo(u, pc) == worker' = [worker EXCEPT ![u].at = pc]
Release(u) == worker' = [worker EXCEPT ![u] = IdleWorker]

(* workers/download.py, a job from seed.py: a row without the blob, and a  *)
(* blob without the row, are fetched again.                                *)
Download(u) ==
  /\ Idle(u)
  /\ u \notin upload
  /\ \/ /\ model[u].status = "downloaded" /\ Stored("raw", u)
        /\ Publish("converted", u)
        /\ UNCHANGED <<bucket, worker>>
     \/ /\ ~(model[u].status = "downloaded" /\ Stored("raw", u))
        /\ Put(Blob("raw", u))
        /\ WorkerTo(u, "fetched")
        /\ UNCHANGED queued
  /\ UNCHANGED <<model, artifact, label>>
  /\ Beside

RecordDownload(u) ==
  /\ worker[u].at = "fetched"
  /\ model' = [model EXCEPT ![u].status = "downloaded", ![u].raw_key = TRUE]
  /\ Publish("converted", u)
  /\ Release(u)
  /\ UNCHANGED <<bucket, artifact, label>>
  /\ Beside

(* upload_model: its uid is new, and the row carries the file's name.      *)
UploadBlob(u) ==
  /\ Idle(u)
  /\ u \notin upload /\ ~Stored("raw", u) /\ ~Exists(u)
  /\ upload' = upload \cup {u}
  /\ Put(Blob("raw", u))
  /\ WorkerTo(u, "uploaded")
  /\ UNCHANGED <<model, artifact, label, queued>>
  /\ BesideTools

(* An insert, not an upsert: it raises if the reconciler saw the blob and  *)
(* made the row first, and then nothing is published.                      *)
UploadRow(u) ==
  /\ worker[u].at = "uploaded"
  /\ IF Exists(u)
     THEN UNCHANGED <<model, queued>>
     ELSE /\ model' = [model EXCEPT ![u] = [status |-> "downloaded", raw_key |-> TRUE,
                                            deleted |-> FALSE, title |-> "file"]]
          /\ Publish("converted", u)
  /\ Release(u)
  /\ UNCHANGED <<bucket, artifact, label>>
  /\ Beside

(* The blob that proves a stage finished: of a render, its last view.      *)
Marker(stage, u) == IF stage = "rendered" THEN View(u, NumViews) ELSE Blob(stage, u)
ArtifactDone(stage, u) == <<stage, u>> \in artifact /\ Has(Marker(stage, u))
NextStage(stage) == IF stage = "converted" THEN "normalized" ELSE "rendered"

(* The blob a stage reads.  convert looks where the row's raw_key says, and *)
(* under the default key, a .glb, when it says nothing.                    *)
HasSource(stage, u) ==
  CASE stage = "converted" -> Stored("raw", u) /\ (u \in upload => model[u].raw_key)
    [] stage = "normalized" -> Stored("converted", u)
    [] stage = "rendered" -> Stored("normalized", u)

Skip(stage, u) ==
  /\ Idle(u)
  /\ stage # "rendered"
  /\ <<stage, u>> \in queued
  /\ ArtifactDone(stage, u)
  /\ Publish(NextStage(stage), u)
  /\ UNCHANGED <<bucket, model, artifact, label, worker>>
  /\ Beside

Work(stage, u) ==
  /\ Idle(u)
  /\ stage # "rendered"
  /\ <<stage, u>> \in queued
  /\ ~ArtifactDone(stage, u)
  /\ HasSource(stage, u)
  /\ Put(Blob(stage, u))
  /\ WorkerTo(u, stage)
  /\ UNCHANGED <<model, artifact, label, queued>>
  /\ Beside

(* The views are put one after another, over those of an earlier attempt.  *)
(* (Mutant: a view too many.)                                              *)
StartsRender(u) ==
  /\ Idle(u)
  /\ <<"rendered", u>> \in queued
  /\ ~(ArtifactDone("rendered", u) /\ AllViews(u))
  /\ HasSource("rendered", u)
PutView(u) ==
  /\ LET i == worker[u].views + 1 IN
       /\ Put(View(u, i))
       /\ worker' = [worker EXCEPT ![u] = [at |-> "rendered", views |-> i]]
  /\ UNCHANGED <<model, artifact, label, queued>>
  /\ Beside

RenderViewOneMore(u) ==
  /\ StartsRender(u) \/ (worker[u].at = "rendered" /\ worker[u].views <= NumViews)
  /\ PutView(u)

RenderView(u) ==
  /\ StartsRender(u) \/ (worker[u].at = "rendered" /\ worker[u].views < NumViews)
  /\ PutView(u)

(* record_artifact, and the job of the next stage.  The row refers to the  *)
(* model's row.                                                            *)
RecordStage(stage, u) ==
  /\ worker[u].at = stage
  /\ stage = "rendered" => worker[u].views = NumViews
  /\ Exists(u)
  /\ artifact' = artifact \cup {<<stage, u>>}
  /\ IF stage = "rendered" THEN UNCHANGED queued ELSE Publish(NextStage(stage), u)
  /\ Release(u)
  /\ UNCHANGED <<bucket, model, label>>
  /\ Beside

(* The instance dies, or what it calls raises.                             *)
WorkerDies(u) ==
  /\ ~Idle(u)
  /\ Release(u)
  /\ UNCHANGED <<bucket, model, artifact, label, queued>>
  /\ Beside

-----------------------------------------------------------------------------
(* People.  A class comes from set_label, or from the backfill of weak     *)
(* labels, whose CSV may hold a class the roster has dropped.              *)

LabelModel(u) ==
  /\ Exists(u) /\ ~model[u].deleted
  /\ Len(label[u]) < MaxLabels
  /\ \E c \in Classes : label' = [label EXCEPT ![u] = Append(@, c)]
  /\ UNCHANGED <<bucket, model, artifact, pipeline>>
  /\ Beside

DeleteModel(u) ==
  /\ Exists(u) /\ ~model[u].deleted
  /\ model' = [model EXCEPT ![u].deleted = TRUE]
  /\ UNCHANGED <<bucket, artifact, label, pipeline>>
  /\ Beside

RestoreModel(u) ==
  /\ Exists(u) /\ model[u].deleted
  /\ model' = [model EXCEPT ![u].deleted = FALSE]
  /\ UNCHANGED <<bucket, artifact, label, pipeline>>
  /\ Beside

(* The schema is dropped and made again, to adopt migrations: what the     *)
(* reconciler is for.                                                      *)
DropTables ==
  /\ model' = [u \in Uids |-> NoRow]
  /\ artifact' = {}
  /\ label' = [u \in Uids |-> <<>>]
  /\ UNCHANGED <<bucket, pipeline>>
  /\ Beside

-----------------------------------------------------------------------------
(* The reconciler lists the prefixes one after another, and writes what it *)
(* saw in one transaction.                                                 *)

ReconcilerOnly == UNCHANGED <<bucket, upload, label, pipeline, cleaner, kept>>

StartReconcile ==
  /\ reconciler.pc = "idle"
  /\ reconciler' = [IdleReconciler EXCEPT !.pc = "raw"]
  /\ quiet' = TRUE
  /\ UNCHANGED <<model, artifact>>
  /\ ReconcilerOnly

ListPrefix ==
  /\ \/ /\ reconciler.pc = "raw"
        /\ reconciler' = [reconciler EXCEPT !.pc = "converted", !.raw = Listed("raw")]
     \/ /\ reconciler.pc = "converted"
        /\ reconciler' =
             [reconciler EXCEPT !.pc = "normalized", !.converted = Listed("converted")]
     \/ /\ reconciler.pc = "normalized"
        /\ reconciler' =
             [reconciler EXCEPT !.pc = "rendered", !.normalized = Listed("normalized")]
     \/ /\ reconciler.pc = "rendered"
        /\ reconciler' = [reconciler EXCEPT !.pc = "write", !.rendered = CompleteRenders]
  /\ UNCHANGED <<model, artifact, quiet>>
  /\ ReconcilerOnly

(* The rows a listing gives.  A conflicting row keeps its other columns.   *)
(* (Mutants: it is left alone; it loses them.)                             *)
Seen == reconciler.raw \cup reconciler.converted \cup reconciler.normalized
          \cup reconciler.rendered
UpsertedNotOnConflict(u) ==
  IF Exists(u)
  THEN model[u]
  ELSE [NoRow EXCEPT !.status = IF u \in reconciler.raw THEN "downloaded" ELSE "pending",
                     !.raw_key = u \in reconciler.raw]
UpsertedAfresh(u) ==
  [NoRow EXCEPT !.status = IF u \in reconciler.raw THEN "downloaded" ELSE "pending",
                !.raw_key = u \in reconciler.raw]
Upserted(u) ==
  [model[u] EXCEPT
     !.status = IF u \in reconciler.raw THEN "downloaded" ELSE "pending",
     !.raw_key = u \in reconciler.raw]

SeenArtifacts ==
  ({"converted"} \X reconciler.converted) \cup ({"normalized"} \X reconciler.normalized)
    \cup ({"rendered"} \X reconciler.rendered)

WriteRows ==
  /\ reconciler.pc = "write"
  /\ model' = [u \in Uids |-> IF u \in Seen THEN Upserted(u) ELSE model[u]]
  /\ artifact' = artifact \cup SeenArtifacts
  /\ reconciler' = IdleReconciler
  /\ quiet' = FALSE
  /\ ReconcilerOnly

(* A dry run ends before the transaction; so does one that is killed.      *)
StopReconcile ==
  /\ reconciler.pc # "idle"
  /\ reconciler' = IdleReconciler
  /\ quiet' = FALSE
  /\ UNCHANGED <<model, artifact>>
  /\ ReconcilerOnly

-----------------------------------------------------------------------------
(* The raw cleanup reads the tables in three statements, lists the raw     *)
(* prefix, waits for a person, and deletes what it chose then.             *)

CleanerOnly == UNCHANGED <<model, artifact, upload, label, pipeline, reconciler>>
CleanerTo(pc) == cleaner' = [cleaner EXCEPT !.pc = pc]
StopCleaner ==
  /\ cleaner' = IdleCleaner
  /\ kept' = {}

(* _classify: soft-deleted, or no label, or a label the roster lacks, or   *)
(* no row.  Which of them it is decides only what the report says.         *)
(* (Mutant: the oldest label counts.)                                      *)
InRosterOldest(labels) == labels # <<>> /\ labels[1] = "roster"
InRoster(labels) == labels # <<>> /\ Newest(labels) = "roster"

StartCleanup ==
  /\ cleaner.pc = "idle"
  /\ cleaner' = [cleaner EXCEPT !.pc = "labels",
                                !.excluded = {u \in Uids : model[u].deleted}]
  /\ kept' = {u \in Uids : InDataset(model[u], label[u])}
  /\ UNCHANGED <<bucket, quiet>>
  /\ CleanerOnly

ReadLabels ==
  /\ cleaner.pc = "labels"
  /\ cleaner' = [cleaner EXCEPT !.pc = "known",
                                !.excluded = @ \cup {u \in Uids : ~InRoster(label[u])}]
  /\ UNCHANGED <<bucket, kept, quiet>>
  /\ CleanerOnly

ReadKnown ==
  /\ cleaner.pc = "known"
  /\ cleaner' = [cleaner EXCEPT !.pc = "list",
                                !.excluded = @ \cup {u \in Uids : ~Exists(u)}]
  /\ UNCHANGED <<bucket, kept, quiet>>
  /\ CleanerOnly

ListCandidates ==
  /\ cleaner.pc = "list"
  /\ LET found == Listed("raw") \cap cleaner.excluded IN
       IF found = {}
       THEN StopCleaner
       ELSE /\ cleaner' = [IdleCleaner EXCEPT !.pc = "confirm", !.candidates = found]
            /\ UNCHANGED kept
  /\ UNCHANGED <<bucket, quiet>>
  /\ CleanerOnly

Confirm ==
  /\ cleaner.pc = "confirm"
  /\ CleanerTo("delete")
  /\ UNCHANGED <<bucket, kept, quiet>>
  /\ CleanerOnly

(* A missing blob counts as deleted; one that cannot be deleted is skipped. *)
DeleteCandidate(u) ==
  /\ cleaner.pc = "delete"
  /\ u \in cleaner.candidates
  /\ cleaner' = [cleaner EXCEPT !.candidates = @ \ {u}]
  /\ \/ bucket' = [bucket EXCEPT ![Backend(Blob("raw", u))] = @ \ {Blob("raw", u)}]
     \/ UNCHANGED bucket
  /\ quiet' = (quiet /\ bucket' = bucket)
  /\ UNCHANGED kept
  /\ CleanerOnly

(* A dry run, another answer than the phrase, the end, or a kill.          *)
EndCleanup ==
  /\ cleaner.pc # "idle"
  /\ StopCleaner
  /\ UNCHANGED <<bucket, quiet>>
  /\ CleanerOnly

-----------------------------------------------------------------------------
(* The metadata backfill reads which rows have no title, fetches their     *)
(* annotations, and sets the titles: one step, since nothing else writes   *)
(* the title of a row that exists.  A batch, or an uid it stops before.    *)
BackfillTitles ==
  /\ \E batch \in SUBSET {u \in Uids : Exists(u) /\ model[u].title = "none"} :
       model' = [u \in Uids |-> IF u \in (batch \cap Annotated) \ upload
                                THEN [model[u] EXCEPT !.title = "store"]
                                ELSE model[u]]
  /\ UNCHANGED <<bucket, artifact, upload, label, pipeline, tools, kept, quiet>>

-----------------------------------------------------------------------------
StorageNext ==
  \/ \E u \in Uids :
       \/ Download(u) \/ RecordDownload(u) \/ UploadBlob(u) \/ UploadRow(u)
       \/ \E s \in Stages : Skip(s, u) \/ Work(s, u) \/ RecordStage(s, u)
       \/ RenderView(u) \/ WorkerDies(u)
       \/ LabelModel(u) \/ DeleteModel(u) \/ RestoreModel(u)
       \/ DeleteCandidate(u)
  \/ DropTables
  \/ StartReconcile \/ ListPrefix \/ WriteRows \/ StopReconcile
  \/ StartCleanup \/ ReadLabels \/ ReadKnown \/ ListCandidates \/ Confirm \/ EndCleanup
  \/ BackfillTitles

StorageSpec == StorageInit /\ [][StorageNext]_storageVars

-----------------------------------------------------------------------------
(* An artifact row claims blobs that are there, a rendered one every view: *)
(* a render that died midway and was then reconciled is not hidden from a  *)
(* rerun (_complete_render_uids, the order of put and record in the        *)
(* workers).                                                               *)
RowsAreBacked ==
  \A u \in Uids :
    /\ <<"converted", u>> \in artifact => Stored("converted", u)
    /\ <<"normalized", u>> \in artifact => Stored("normalized", u)
    /\ <<"rendered", u>> \in artifact => AllViews(u)

(* The cleanup never deletes the mesh of a model that was in the dataset   *)
(* all the time from its first read to the deletion, whatever was labeled, *)
(* deleted, restored or uploaded meanwhile (cleanup_raw.py: "Every model   *)
(* still in the dataset keeps its source mesh").                           *)
KeepsTheDataset ==
  [][\A u \in Uids :
       Stored("raw", u) /\ ~Stored("raw", u)' => u \notin kept]_storageVars

(* A reconciliation during which the store stood still leaves an index of  *)
(* it: every stored model has a row that says whether its mesh is there,   *)
(* and an artifact row for just the outputs that are (reconcile).          *)
IndexAgrees ==
  [][WriteRows /\ quiet =>
       \A u \in Uids :
         /\ Stored("raw", u) \/ Stored("converted", u) \/ Stored("normalized", u) =>
              /\ model'[u].status = IF Stored("raw", u) THEN "downloaded" ELSE "pending"
              /\ model'[u].raw_key = Stored("raw", u)
         /\ <<"converted", u>> \in artifact' <=> Stored("converted", u)
         /\ <<"normalized", u>> \in artifact' <=> Stored("normalized", u)
         /\ <<"rendered", u>> \in artifact' <=> AllViews(u)]_storageVars

(* What a person decided outlives every tool and worker: a deleted model   *)
(* stays deleted until it is restored, and a file's name stays the title   *)
(* of its upload (models.py: the upsert "doesn't resurrect it").           *)
DecisionsStay ==
  [][\A u \in Uids :
       /\ model[u].deleted /\ ~model'[u].deleted => RestoreModel(u) \/ DropTables
       /\ model[u].title = "file" => model'[u].title = "file" \/ DropTables]_storageVars

(* cleanup_raw.py on what follows a cleanup: the next reconciliation will  *)
(* mark the models whose mesh it deleted pending.  A model of which        *)
(* nothing is stored any more is in no listing, so its row is not touched. *)
MissingMeshIsPending ==
  [][WriteRows /\ quiet =>
       \A u \in Uids : model'[u].status = "downloaded" => Stored("raw", u)]_storageVars

=============================================================================
