---------------------------- MODULE StorageProofs ----------------------------
(***************************************************************************)
(* Theorems about StorageTools for every set of models and any number of   *)
(* views and labels.  The invariant adds to the types: Orderly, that only  *)
(* a render is part of the way and only a row that exists has columns;     *)
(* Claimed, that what a worker or the reconciler is about to put in the    *)
(* tables is stored; Spared, that what the cleaner excludes has left the   *)
(* dataset since it began; Exact, that a listing of a quiet store is it.   *)
(***************************************************************************)
EXTENDS StorageTools, TLAPS

Orderly ==
  \A u \in Uids :
    /\ worker[u].at # "rendered" => worker[u].views = 0
    /\ ~Exists(u) => model[u] = NoRow

(* The parts of the first two that a step of a worker or of a row changes. *)
WorkersOK ==
  /\ worker \in [Uids -> [at : {"idle", "fetched", "uploaded", "converted", "normalized",
                                "rendered"},
                          views : 0 .. NumViews]]
  /\ \A u \in Uids : worker[u].at # "rendered" => worker[u].views = 0

ModelRow == [status : {"none", "pending", "downloaded"}, raw_key : BOOLEAN,
             deleted : BOOLEAN, title : {"none", "file", "store"}]

ModelsOK ==
  /\ model \in [Uids -> ModelRow]
  /\ \A u \in Uids : ~Exists(u) => model[u] = NoRow

Claimed ==
  /\ \A u \in Uids :
       /\ worker[u].at = "converted" => Stored("converted", u)
       /\ worker[u].at = "normalized" => Stored("normalized", u)
       /\ worker[u].at = "rendered" => \A i \in 1 .. worker[u].views : Has(View(u, i))
  /\ reconciler.converted \subseteq Listed("converted")
  /\ reconciler.normalized \subseteq Listed("normalized")
  /\ reconciler.rendered \subseteq CompleteRenders

Spared ==
  /\ \A u \in kept : InDataset(model[u], label[u])
  /\ kept \cap (cleaner.excluded \cup cleaner.candidates) = {}
  /\ cleaner.pc \notin {"confirm", "delete"} => cleaner.candidates = {}

Exact ==
  quiet =>
    /\ reconciler.pc \in {"converted", "normalized", "rendered", "write"} =>
         reconciler.raw = Listed("raw")
    /\ reconciler.pc \in {"normalized", "rendered", "write"} =>
         reconciler.converted = Listed("converted")
    /\ reconciler.pc \in {"rendered", "write"} => reconciler.normalized = Listed("normalized")
    /\ reconciler.pc = "write" => reconciler.rendered = CompleteRenders

SInv == StorageTypeOK /\ Orderly /\ Claimed /\ RowsAreBacked /\ Spared /\ Exact

-----------------------------------------------------------------------------

(* Nothing is stored, and nobody has begun.                                *)
LEMMA StorageInitially == StorageInit => SInv
<1> SUFFICES ASSUME StorageInit PROVE SInv
  OBVIOUS
<1>1. StorageTypeOK
  <2>1. bucket \in [{"raw", "processed"} -> SUBSET Keys] /\ label \in [Uids -> Seq(Classes)]
    BY DEF StorageInit
  <2>2. worker \in [Uids -> [at : {"idle", "fetched", "uploaded", "converted", "normalized",
                                   "rendered"},
                             views : 0 .. NumViews]]
    BY StorageAssumption DEF StorageInit, IdleWorker
  <2> QED
    BY <2>1, <2>2 DEF StorageInit, StorageTypeOK, NoRow, IdleReconciler, IdleCleaner
<1>2. Orderly /\ Claimed /\ RowsAreBacked
  BY DEF StorageInit, Orderly, Claimed, RowsAreBacked, Exists, NoRow, IdleWorker,
         IdleReconciler
<1>3. Spared /\ Exact
  BY DEF StorageInit, Spared, Exact, IdleCleaner
<1> QED
  BY <1>1, <1>2, <1>3 DEF SInv

-----------------------------------------------------------------------------
(* What the steps share.                                                   *)

(* A blob that is put is stored, and nothing else changes in the store.    *)
LEMMA PutStep ==
  ASSUME StorageTypeOK, NEW key \in Keys, Put(key)
  PROVE  /\ bucket' \in [{"raw", "processed"} -> SUBSET Keys]
         /\ Has(key)'
         /\ \A b \in {"raw", "processed"} : bucket[b] \subseteq bucket'[b]
BY DEF StorageTypeOK, Put, Has, Backend

(* The keys of the blobs.                                                  *)
LEMMA KeysOfBlobs ==
  ASSUME NEW u \in Uids
  PROVE  /\ \A kind \in {"raw", "converted", "normalized"} : Blob(kind, u) \in Keys
         /\ \A i \in Views : View(u, i) \in Keys
BY DEF Blob, View, Keys

(* The steps beside the tools leave no new model with the cleaner's        *)
(* dataset, and the reconciler's listings as they are.                     *)
LEMMA BesideStep ==
  ASSUME SInv, BesideTools
  PROVE  /\ kept' \subseteq kept
         /\ Spared'
         /\ UNCHANGED bucket => Exact'
<1>1. kept' = {u \in kept : InDataset(model'[u], label'[u])}
  BY DEF BesideTools
<1>2. UNCHANGED <<reconciler, cleaner>>
  BY DEF BesideTools, tools
<1>3. Spared'
  BY <1>1, <1>2 DEF SInv, Spared
<1>4. ASSUME UNCHANGED bucket PROVE Exact'
  <2>1. quiet' => quiet
    BY DEF BesideTools
  <2> QED
    BY <1>2, <1>4, <2>1 DEF SInv, Exact, Listed, CompleteRenders, AllViews, Stored, Has
<1> QED
  BY <1>1, <1>3, <1>4

-----------------------------------------------------------------------------
(* Types, and what goes with them.                                         *)

(* The worker of one model moves.                                          *)
LEMMA WorkerMoves ==
  ASSUME StorageTypeOK, Orderly, NEW u \in Uids,
         \/ \E pc \in {"fetched", "uploaded", "converted", "normalized"} :
              Idle(u) /\ WorkerTo(u, pc)
         \/ Release(u)
  PROVE  WorkersOK'
<1>1. ASSUME NEW pc \in {"fetched", "uploaded", "converted", "normalized"},
             Idle(u) /\ WorkerTo(u, pc)
      PROVE  WorkersOK'
  <2>1. worker' = [worker EXCEPT ![u] = [at |-> pc, views |-> 0]]
    <3>1. worker[u] \in [at : {"idle", "fetched", "uploaded", "converted", "normalized",
                               "rendered"},
                         views : 0 .. NumViews]
      BY DEF StorageTypeOK
    <3>2. worker[u].views = 0
      BY <1>1 DEF Idle, Orderly
    <3>3. [worker[u] EXCEPT !.at = pc] = [at |-> pc, views |-> 0]
      BY <3>1, <3>2
    <3> QED
      BY <1>1, <3>3 DEF WorkerTo, StorageTypeOK
  <2> QED
    BY <2>1, StorageAssumption DEF WorkersOK, StorageTypeOK, Orderly
<1>2. ASSUME Release(u) PROVE WorkersOK'
  BY <1>2, StorageAssumption DEF WorkersOK, StorageTypeOK, Orderly, Release, IdleWorker
<1> QED
  BY <1>1, <1>2

(* One row changes into another.                                           *)
LEMMA RowChanges ==
  ASSUME StorageTypeOK, Orderly, NEW u \in Uids, NEW row, model' = [model EXCEPT ![u] = row],
         row.status \in {"pending", "downloaded"}, row \in ModelRow
  PROVE  ModelsOK'
BY DEF StorageTypeOK, Orderly, ModelsOK, ModelRow, Exists

(* Publishing a stage's job.                                               *)
LEMMA PublishStep ==
  ASSUME StorageTypeOK, NEW stage \in Stages, NEW u \in Uids, Publish(stage, u)
  PROVE  queued' \subseteq Stages \X Uids
BY DEF StorageTypeOK, Publish

(* The worker steps.                                                       *)
LEMMA WorkerTypes ==
  ASSUME SInv, NEW u \in Uids,
         \/ Download(u) \/ RecordDownload(u) \/ UploadBlob(u) \/ UploadRow(u)
         \/ \E s \in Stages : Skip(s, u) \/ Work(s, u) \/ RecordStage(s, u)
         \/ RenderView(u) \/ WorkerDies(u)
  PROVE  StorageTypeOK' /\ Orderly'
<1> USE DEF SInv
<1>0. kept' \subseteq kept /\ quiet' \in BOOLEAN /\ UNCHANGED <<reconciler, cleaner>>
  BY DEF Download, RecordDownload, UploadBlob, UploadRow, Skip, Work, RecordStage, RenderView,
         PutView, WorkerDies, Beside, BesideTools, tools, StorageTypeOK
<1>1. ASSUME Download(u) PROVE StorageTypeOK' /\ Orderly'
  <2>1. bucket' \in [{"raw", "processed"} -> SUBSET Keys]
    BY <1>1, PutStep, KeysOfBlobs DEF Download, StorageTypeOK
  <2>2. queued' \subseteq Stages \X Uids
    BY <1>1, PublishStep DEF Download, Stages, StorageTypeOK
  <2>3. WorkersOK'
    BY <1>1, WorkerMoves DEF Download, WorkersOK, StorageTypeOK, Orderly
  <2> QED
    BY <1>0, <1>1, <2>1, <2>2, <2>3 DEF Download, Beside, StorageTypeOK, Orderly, WorkersOK, Exists
<1>2. ASSUME RecordDownload(u) PROVE StorageTypeOK' /\ Orderly'
  <2>1. queued' \subseteq Stages \X Uids
    BY <1>2, PublishStep DEF RecordDownload, Stages
  <2>2. WorkersOK'
    BY <1>2, WorkerMoves DEF RecordDownload
  <2>3. ModelsOK'
    <3>1. model' = [model EXCEPT ![u] = [model[u] EXCEPT !.status = "downloaded",
                                                         !.raw_key = TRUE]]
      BY <1>2 DEF RecordDownload, StorageTypeOK
    <3>2. model[u] \in ModelRow
      BY DEF StorageTypeOK, ModelRow
    <3>3. [model[u] EXCEPT !.status = "downloaded", !.raw_key = TRUE] \in ModelRow
      BY <3>2 DEF ModelRow
    <3>4. [model[u] EXCEPT !.status = "downloaded", !.raw_key = TRUE].status = "downloaded"
      BY <3>2 DEF ModelRow
    <3> QED
      BY <3>1, <3>3, <3>4, RowChanges
  <2> QED
    BY <1>0, <1>2, <2>1, <2>2, <2>3 DEF RecordDownload, Beside, StorageTypeOK, Orderly, WorkersOK, ModelsOK,
            ModelRow
<1>3. ASSUME UploadBlob(u) PROVE StorageTypeOK' /\ Orderly'
  <2>1. bucket' \in [{"raw", "processed"} -> SUBSET Keys]
    BY <1>3, PutStep, KeysOfBlobs DEF UploadBlob
  <2>2. WorkersOK'
    BY <1>3, WorkerMoves DEF UploadBlob
  <2> QED
    BY <1>0, <1>3, <2>1, <2>2 DEF UploadBlob, StorageTypeOK, Orderly, WorkersOK, Exists
<1>4. ASSUME UploadRow(u) PROVE StorageTypeOK' /\ Orderly'
  <2>1. queued' \subseteq Stages \X Uids
    BY <1>4, PublishStep DEF UploadRow, Stages, StorageTypeOK
  <2>2. WorkersOK'
    BY <1>4, WorkerMoves DEF UploadRow
  <2>3. ModelsOK'
    <3>1. CASE UNCHANGED model
      BY <3>1 DEF ModelsOK, ModelRow, StorageTypeOK, Orderly, Exists
    <3>2. CASE model' = [model EXCEPT ![u] = [status |-> "downloaded", raw_key |-> TRUE,
                                              deleted |-> FALSE, title |-> "file"]]
      <4> DEFINE row == [status |-> "downloaded", raw_key |-> TRUE, deleted |-> FALSE,
                         title |-> "file"]
      <4>1. row \in ModelRow /\ row.status = "downloaded"
        BY DEF ModelRow
      <4> QED
        BY <3>2, <4>1, RowChanges
    <3> QED
      BY <1>4, <3>1, <3>2 DEF UploadRow
  <2> QED
    BY <1>0, <1>4, <2>1, <2>2, <2>3 DEF UploadRow, Beside, StorageTypeOK, Orderly, WorkersOK, ModelsOK,
            ModelRow
<1>5. ASSUME NEW s \in Stages, Skip(s, u) PROVE StorageTypeOK' /\ Orderly'
  <2>1. queued' \subseteq Stages \X Uids
    BY <1>5, PublishStep DEF Skip, NextStage, Stages
  <2> QED
    BY <1>0, <1>5, <2>1 DEF Skip, Beside, StorageTypeOK, Orderly, WorkersOK, Exists
<1>6. ASSUME NEW s \in Stages, Work(s, u) PROVE StorageTypeOK' /\ Orderly'
  <2>1. s \in {"converted", "normalized"}
    BY <1>6 DEF Work, Stages
  <2>2. bucket' \in [{"raw", "processed"} -> SUBSET Keys]
    BY <1>6, <2>1, PutStep, KeysOfBlobs DEF Work
  <2>3. WorkersOK'
    BY <1>6, <2>1, WorkerMoves DEF Work
  <2> QED
    BY <1>0, <1>6, <2>2, <2>3 DEF Work, Beside, StorageTypeOK, Orderly, WorkersOK, Exists
<1>7. ASSUME NEW s \in Stages, RecordStage(s, u) PROVE StorageTypeOK' /\ Orderly'
  <2>1. queued' \subseteq Stages \X Uids
    BY <1>7, PublishStep DEF RecordStage, NextStage, Stages, StorageTypeOK
  <2>2. WorkersOK'
    BY <1>7, WorkerMoves DEF RecordStage
  <2> QED
    BY <1>0, <1>7, <2>1, <2>2 DEF RecordStage, Beside, StorageTypeOK, Orderly, WorkersOK, Exists
<1>8. ASSUME RenderView(u) PROVE StorageTypeOK' /\ Orderly'
  <2>1. worker[u].views \in 0 .. NumViews /\ worker[u].views + 1 \in Views
    BY <1>8, StorageAssumption
    DEF RenderView, StartsRender, Idle, Orderly, StorageTypeOK, Views
  <2>2. bucket' \in [{"raw", "processed"} -> SUBSET Keys]
    BY <1>8, <2>1, PutStep, KeysOfBlobs DEF RenderView, PutView
  <2>3. WorkersOK'
    BY <1>8, <2>1 DEF RenderView, PutView, WorkersOK, StorageTypeOK, Orderly, Views
  <2> QED
    BY <1>0, <1>8, <2>2, <2>3 DEF RenderView, PutView, Beside, StorageTypeOK, Orderly, WorkersOK, Exists
<1>9. ASSUME WorkerDies(u) PROVE StorageTypeOK' /\ Orderly'
  <2>1. WorkersOK'
    BY <1>9, WorkerMoves DEF WorkerDies
  <2> QED
    BY <1>0, <1>9, <2>1 DEF WorkerDies, Beside, StorageTypeOK, Orderly, WorkersOK, Exists
<1> QED
  BY <1>1, <1>2, <1>3, <1>4, <1>5, <1>6, <1>7, <1>8, <1>9

(* People and the metadata backfill.                                       *)
LEMMA PeopleTypes ==
  ASSUME SInv,
         \/ \E u \in Uids : LabelModel(u) \/ DeleteModel(u) \/ RestoreModel(u)
         \/ DropTables \/ BackfillTitles
  PROVE  StorageTypeOK' /\ Orderly'
<1> USE DEF SInv
<1>0. /\ kept' \subseteq kept /\ quiet' \in BOOLEAN /\ artifact' \subseteq artifact
      /\ UNCHANGED <<reconciler, cleaner, bucket, upload, queued, worker>>
  BY DEF LabelModel, DeleteModel, RestoreModel, DropTables, BackfillTitles, Beside, BesideTools,
         tools, pipeline, StorageTypeOK
<1>1. ASSUME NEW u \in Uids, LabelModel(u) PROVE StorageTypeOK' /\ Orderly'
  <2>1. label' \in [Uids -> Seq(Classes)]
    BY <1>1 DEF LabelModel, StorageTypeOK
  <2> QED
    BY <1>0, <1>1, <2>1 DEF LabelModel, StorageTypeOK, Orderly, Exists
<1>2. ASSUME NEW u \in Uids, DeleteModel(u) \/ RestoreModel(u) PROVE StorageTypeOK' /\ Orderly'
  <2>1. PICK d \in BOOLEAN : model' = [model EXCEPT ![u] = [model[u] EXCEPT !.deleted = d]]
    BY <1>2 DEF DeleteModel, RestoreModel, StorageTypeOK
  <2>2. model[u] \in ModelRow /\ model[u].status # "none"
    BY <1>2 DEF DeleteModel, RestoreModel, Exists, StorageTypeOK, ModelRow
  <2>3. /\ [model[u] EXCEPT !.deleted = d] \in ModelRow
        /\ [model[u] EXCEPT !.deleted = d].status \in {"pending", "downloaded"}
    BY <2>2 DEF ModelRow
  <2>4. ModelsOK'
    BY <2>1, <2>3, RowChanges
  <2>5. UNCHANGED <<artifact, label>>
    BY <1>2 DEF DeleteModel, RestoreModel
  <2> QED
    BY <1>0, <2>4, <2>5 DEF StorageTypeOK, Orderly, ModelsOK, ModelRow
<1>3. ASSUME DropTables PROVE StorageTypeOK' /\ Orderly'
  <2>1. ModelsOK' /\ label' \in [Uids -> Seq(Classes)]
    BY <1>3 DEF DropTables, ModelsOK, ModelRow, NoRow
  <2> QED
    BY <1>0, <1>3, <2>1 DEF DropTables, StorageTypeOK, Orderly, ModelsOK, ModelRow
<1>4. ASSUME BackfillTitles PROVE StorageTypeOK' /\ Orderly'
  <2>1. PICK batch \in SUBSET {u \in Uids : Exists(u) /\ model[u].title = "none"} :
          model' = [u \in Uids |-> IF u \in (batch \cap Annotated) \ upload
                                   THEN [model[u] EXCEPT !.title = "store"]
                                   ELSE model[u]]
    BY <1>4 DEF BackfillTitles
  <2>2. \A u \in Uids : /\ model[u] \in ModelRow
                        /\ [model[u] EXCEPT !.title = "store"] \in ModelRow
                        /\ [model[u] EXCEPT !.title = "store"].status = model[u].status
    <3> SUFFICES ASSUME NEW u \in Uids
                 PROVE  /\ model[u] \in ModelRow
                        /\ [model[u] EXCEPT !.title = "store"] \in ModelRow
                        /\ [model[u] EXCEPT !.title = "store"].status = model[u].status
      OBVIOUS
    <3>1. model[u] \in ModelRow
      BY DEF StorageTypeOK, ModelRow
    <3> QED
      BY <3>1 DEF ModelRow
  <2>3. \A u \in Uids : u \in batch => model[u].status # "none"
    BY DEF Exists
  <2>4. ModelsOK'
    BY <2>1, <2>2, <2>3 DEF ModelsOK, Orderly, Exists
  <2> QED
    BY <1>0, <1>4, <2>4 DEF BackfillTitles, StorageTypeOK, Orderly, ModelsOK, ModelRow
<1> QED
  BY <1>1, <1>2, <1>3, <1>4

(* The reconciler.                                                         *)
LEMMA ReconcilerTypes ==
  ASSUME SInv, StartReconcile \/ ListPrefix \/ WriteRows \/ StopReconcile
  PROVE  StorageTypeOK' /\ Orderly'
<1> USE DEF SInv
<1>0. UNCHANGED <<bucket, upload, label, queued, worker, cleaner, kept>> /\ quiet' \in BOOLEAN
  BY DEF StartReconcile, ListPrefix, WriteRows, StopReconcile, ReconcilerOnly, pipeline,
         StorageTypeOK
<1>1. reconciler' \in
        [pc : {"idle", "raw", "converted", "normalized", "rendered", "write"},
         raw : SUBSET Uids, converted : SUBSET Uids,
         normalized : SUBSET Uids, rendered : SUBSET Uids]
  <2>1. /\ Listed("raw") \subseteq Uids /\ Listed("converted") \subseteq Uids
        /\ Listed("normalized") \subseteq Uids /\ CompleteRenders \subseteq Uids
    BY DEF Listed, CompleteRenders
  <2>2. CASE ListPrefix
    <3>1. reconciler \in
            [pc : {"idle", "raw", "converted", "normalized", "rendered", "write"},
             raw : SUBSET Uids, converted : SUBSET Uids,
             normalized : SUBSET Uids, rendered : SUBSET Uids]
      BY DEF StorageTypeOK
    <3>2. CASE reconciler' =
                 [reconciler EXCEPT !.pc = "converted", !.raw = Listed("raw")]
      BY <2>1, <3>1, <3>2
    <3>3. CASE reconciler' =
                 [reconciler EXCEPT !.pc = "normalized", !.converted = Listed("converted")]
      BY <2>1, <3>1, <3>3
    <3>4. CASE reconciler' =
                 [reconciler EXCEPT !.pc = "rendered", !.normalized = Listed("normalized")]
      BY <2>1, <3>1, <3>4
    <3>5. CASE reconciler' =
                 [reconciler EXCEPT !.pc = "write", !.rendered = CompleteRenders]
      BY <2>1, <3>1, <3>5
    <3> QED
      BY <2>2, <3>2, <3>3, <3>4, <3>5 DEF ListPrefix
  <2>3. CASE StartReconcile \/ WriteRows \/ StopReconcile
    BY <2>3 DEF StartReconcile, WriteRows, StopReconcile, IdleReconciler
  <2> QED
    BY <2>2, <2>3
<1>2. ModelsOK'
  <2>1. CASE UNCHANGED model
    BY <2>1 DEF ModelsOK, ModelRow, StorageTypeOK, Orderly, Exists
  <2>2. CASE WriteRows
    <3>1. ASSUME NEW u \in Uids
          PROVE  /\ model[u] \in ModelRow
                 /\ Upserted(u) \in ModelRow /\ Upserted(u).status # "none"
      <4>1. model[u] \in ModelRow
        BY DEF StorageTypeOK, ModelRow
      <4> DEFINE there == u \in reconciler.raw
      <4>2. Upserted(u) = [model[u] EXCEPT
                             !.status = IF there THEN "downloaded" ELSE "pending",
                             !.raw_key = there]
        BY DEF Upserted
      <4>3. there \in BOOLEAN
        OBVIOUS
      <4> HIDE DEF there
      <4> QED
        BY <4>1, <4>2, <4>3 DEF ModelRow
    <3>2. model' = [u \in Uids |-> IF u \in Seen THEN Upserted(u) ELSE model[u]]
      BY <2>2 DEF WriteRows
    <3> QED
      BY <3>1, <3>2 DEF ModelsOK, Orderly, Exists
  <2> QED
    BY <2>1, <2>2 DEF StartReconcile, ListPrefix, StopReconcile
<1>3. artifact' \subseteq Stages \X Uids
  BY DEF StartReconcile, ListPrefix, WriteRows, StopReconcile, SeenArtifacts, Stages,
         StorageTypeOK
<1> QED
  BY <1>0, <1>1, <1>2, <1>3 DEF StorageTypeOK, Orderly, ModelsOK, ModelRow

(* The cleaner.                                                            *)
LEMMA CleanerTypes ==
  ASSUME SInv,
         \/ StartCleanup \/ ReadLabels \/ ReadKnown \/ ListCandidates \/ Confirm
         \/ EndCleanup \/ \E u \in Uids : DeleteCandidate(u)
  PROVE  StorageTypeOK' /\ Orderly'
<1> USE DEF SInv
<1>0. UNCHANGED <<model, artifact, upload, label, queued, worker, reconciler>>
  BY DEF StartCleanup, ReadLabels, ReadKnown, ListCandidates, Confirm, EndCleanup,
         DeleteCandidate, CleanerOnly, pipeline
<1>1. kept' \subseteq Uids /\ quiet' \in BOOLEAN
  BY DEF StartCleanup, ReadLabels, ReadKnown, ListCandidates, Confirm, EndCleanup,
         DeleteCandidate, StopCleaner, StorageTypeOK
<1>2. bucket' \in [{"raw", "processed"} -> SUBSET Keys]
  BY DEF StartCleanup, ReadLabels, ReadKnown, ListCandidates, Confirm, EndCleanup,
         DeleteCandidate, StorageTypeOK
<1>3. cleaner' \in [pc : {"idle", "labels", "known", "list", "confirm", "delete"},
                    excluded : SUBSET Uids, candidates : SUBSET Uids]
  <2> DEFINE Pcs == {"idle", "labels", "known", "list", "confirm", "delete"}
  <2>1. cleaner \in [pc : Pcs, excluded : SUBSET Uids, candidates : SUBSET Uids]
    BY DEF StorageTypeOK
  <2>2. CASE StopCleaner
    BY <2>2 DEF StopCleaner, IdleCleaner
  <2>7. CASE StartCleanup
    <3> DEFINE gone == {u \in Uids : model[u].deleted}
    <3>1. gone \in SUBSET Uids
      OBVIOUS
    <3>2. cleaner' = [cleaner EXCEPT !.pc = "labels", !.excluded = gone]
      BY <2>7 DEF StartCleanup
    <3> HIDE DEF gone
    <3> QED
      BY <2>1, <3>1, <3>2
  <2>3. CASE ReadLabels \/ ReadKnown
    BY <2>1, <2>3 DEF ReadLabels, ReadKnown
  <2>4. CASE Confirm
    BY <2>1, <2>4 DEF Confirm, CleanerTo
  <2>5. CASE cleaner' = [IdleCleaner EXCEPT !.pc = "confirm",
                                            !.candidates = Listed("raw") \cap cleaner.excluded]
    BY <2>5 DEF IdleCleaner, Listed
  <2>6. ASSUME NEW u \in Uids, DeleteCandidate(u)
        PROVE  cleaner' \in [pc : Pcs, excluded : SUBSET Uids, candidates : SUBSET Uids]
    BY <2>1, <2>6 DEF DeleteCandidate
  <2> QED
    BY <2>2, <2>3, <2>4, <2>5, <2>6, <2>7 DEF EndCleanup, ListCandidates
<1> QED
  BY <1>0, <1>1, <1>2, <1>3 DEF StorageTypeOK, Orderly, Exists

-----------------------------------------------------------------------------
(* What is claimed is stored.                                              *)

(* The steps that put a blob delete none.                                  *)
LEMMA PutsKeep ==
  ASSUME StorageTypeOK, NEW u \in Uids,
         \/ Download(u) \/ UploadBlob(u)
         \/ \E s \in Stages : Work(s, u)
         \/ RenderView(u)
  PROVE  \A b \in {"raw", "processed"} : bucket[b] \subseteq bucket'[b]
<1>1. \/ UNCHANGED bucket
      \/ \E b \in {"raw", "processed"} : \E key :
           bucket' = [bucket EXCEPT ![b] = @ \cup {key}]
  BY DEF Download, UploadBlob, Work, RenderView, PutView, Put, Backend
<1>2. bucket \in [{"raw", "processed"} -> SUBSET Keys]
  BY DEF StorageTypeOK
<1>3. ASSUME NEW b \in {"raw", "processed"}, NEW key,
             bucket' = [bucket EXCEPT ![b] = @ \cup {key}]
      PROVE  \A c \in {"raw", "processed"} : bucket[c] \subseteq bucket'[c]
  BY <1>2, <1>3
<1> QED
  BY <1>1, <1>3

(* The processed bucket only grows: the cleaner deletes from the other.    *)
LEMMA BlobsStay ==
  ASSUME SInv, StorageNext
  PROVE  bucket["processed"] \subseteq bucket'["processed"]
<1> USE DEF SInv
<1>1. ASSUME NEW u \in Uids,
             \/ Download(u) \/ UploadBlob(u)
             \/ \E s \in Stages : Work(s, u)
             \/ RenderView(u)
      PROVE  bucket["processed"] \subseteq bucket'["processed"]
  BY <1>1, PutsKeep
<1>2. ASSUME NEW u \in Uids, DeleteCandidate(u)
      PROVE  bucket["processed"] \subseteq bucket'["processed"]
  BY <1>2 DEF DeleteCandidate, Backend, Blob, StorageTypeOK
<1>3. ASSUME NEW u \in Uids,
             \/ RecordDownload(u) \/ UploadRow(u)
             \/ \E s \in Stages : Skip(s, u) \/ RecordStage(s, u)
             \/ WorkerDies(u) \/ LabelModel(u) \/ DeleteModel(u) \/ RestoreModel(u)
      PROVE  UNCHANGED bucket
  BY <1>3 DEF RecordDownload, UploadRow, Skip, RecordStage, WorkerDies, LabelModel, DeleteModel,
              RestoreModel
<1>4. ASSUME \/ DropTables \/ BackfillTitles
             \/ StartReconcile \/ ListPrefix \/ WriteRows \/ StopReconcile
             \/ StartCleanup \/ ReadLabels \/ ReadKnown \/ ListCandidates \/ Confirm
             \/ EndCleanup
      PROVE  UNCHANGED bucket
  BY <1>4 DEF DropTables, BackfillTitles, StartReconcile, ListPrefix, WriteRows, StopReconcile,
              ReconcilerOnly, StartCleanup, ReadLabels, ReadKnown, ListCandidates, Confirm,
              EndCleanup
<1> QED
  BY <1>1, <1>2, <1>3, <1>4 DEF StorageNext

(* So do the listings of it.                                               *)
LEMMA ListingsStay ==
  ASSUME bucket["processed"] \subseteq bucket'["processed"]
  PROVE  /\ \A u \in Uids : /\ Stored("converted", u) => Stored("converted", u)'
                            /\ Stored("normalized", u) => Stored("normalized", u)'
                            /\ \A i \in Nat : Has(View(u, i)) => Has(View(u, i))'
                            /\ AllViews(u) => AllViews(u)'
         /\ Listed("converted") \subseteq Listed("converted")'
         /\ Listed("normalized") \subseteq Listed("normalized")'
         /\ CompleteRenders \subseteq CompleteRenders'
<1>1. \A u \in Uids : /\ Stored("converted", u) => Stored("converted", u)'
                      /\ Stored("normalized", u) => Stored("normalized", u)'
                      /\ \A i \in Nat : Has(View(u, i)) => Has(View(u, i))'
  BY DEF Stored, Has, Backend, Blob, View
<1>2. \A u \in Uids : AllViews(u) => AllViews(u)'
  BY <1>1, StorageAssumption DEF AllViews, Views
<1> QED
  BY <1>1, <1>2 DEF Listed, CompleteRenders

(* A worker records, and the reconciler writes, what is stored.            *)
LEMMA ClaimsStep ==
  ASSUME SInv, StorageNext
  PROVE  Claimed' /\ RowsAreBacked'
<1> USE DEF SInv
<1>1. /\ \A u \in Uids : /\ Stored("converted", u) => Stored("converted", u)'
                         /\ Stored("normalized", u) => Stored("normalized", u)'
                         /\ \A i \in Nat : Has(View(u, i)) => Has(View(u, i))'
                         /\ AllViews(u) => AllViews(u)'
      /\ Listed("converted") \subseteq Listed("converted")'
      /\ Listed("normalized") \subseteq Listed("normalized")'
      /\ CompleteRenders \subseteq CompleteRenders'
  BY BlobsStay, ListingsStay
<1> DEFINE Claims(v) ==
      /\ worker[v].at = "converted" => Stored("converted", v)
      /\ worker[v].at = "normalized" => Stored("normalized", v)
      /\ worker[v].at = "rendered" => \A i \in 1 .. worker[v].views : Has(View(v, i))
<1>2. ASSUME NEW v \in Uids PROVE Claims(v)'
  <2>1. Claims(v) /\ worker[v].views \in Nat
    BY StorageAssumption DEF Claimed, StorageTypeOK
  <2>2. CASE worker'[v] = worker[v]
    BY <1>1, <2>1, <2>2
  <2>3. CASE worker'[v].at \in {"idle", "fetched", "uploaded"}
    BY <2>3
  <2>4. CASE \E s \in Stages : Work(s, v)
    <3>1. PICK s \in {"converted", "normalized"} : Work(s, v)
      BY <2>4 DEF Work, Stages
    <3>2. Stored(s, v)' /\ worker'[v].at = s
      BY <3>1, PutStep, KeysOfBlobs DEF Work, WorkerTo, Stored, StorageTypeOK
    <3> QED
      BY <3>1, <3>2
  <2>5. CASE RenderView(v)
    <3>1. PICK n \in Nat : n = worker[v].views
      BY <2>1
    <3>2. /\ worker'[v].at = "rendered" /\ worker'[v].views = n + 1
          /\ Put(View(v, n + 1))
      BY <2>5, <3>1 DEF RenderView, PutView, StorageTypeOK
    <3>3. n + 1 \in Views
      BY <2>5, <3>1, StorageAssumption
      DEF RenderView, StartsRender, Idle, Orderly, StorageTypeOK, Views
    <3>4. Has(View(v, n + 1))'
      BY <3>2, <3>3, PutStep, KeysOfBlobs
    <3>5. \A i \in 1 .. n : Has(View(v, i))
      BY <2>1, <2>5, <3>1 DEF RenderView, StartsRender, Idle, Orderly
    <3>6. \A i \in 1 .. n + 1 : i \in 1 .. n \/ i = n + 1
      BY <3>1
    <3>7. \A i \in 1 .. n + 1 : Has(View(v, i))'
      BY <1>1, <3>4, <3>5, <3>6
    <3> QED
      BY <3>2, <3>7
  <2>6. ASSUME NEW u \in Uids,
               \/ Download(u) \/ RecordDownload(u) \/ UploadBlob(u) \/ UploadRow(u)
               \/ \E s \in Stages : Skip(s, u) \/ Work(s, u) \/ RecordStage(s, u)
               \/ RenderView(u) \/ WorkerDies(u)
        PROVE  Claims(v)'
    <3>1. CASE u # v
      <4>1. worker'[v] = worker[v]
        BY <2>6, <3>1 DEF Download, RecordDownload, UploadBlob, UploadRow, Skip, Work,
           RecordStage, RenderView, PutView, WorkerDies, WorkerTo, Release, StorageTypeOK
      <4> QED
        BY <2>2, <4>1
    <3>2. CASE u = v /\ \/ Download(u) \/ RecordDownload(u) \/ UploadBlob(u) \/ UploadRow(u)
                        \/ \E s \in Stages : Skip(s, u) \/ RecordStage(s, u)
                        \/ WorkerDies(u)
      <4>1. \/ UNCHANGED worker \/ Release(v)
            \/ WorkerTo(v, "fetched") \/ WorkerTo(v, "uploaded")
        BY <3>2 DEF Download, RecordDownload, UploadBlob, UploadRow, Skip, RecordStage,
           WorkerDies
      <4>2. worker'[v] = worker[v] \/ worker'[v].at \in {"idle", "fetched", "uploaded"}
        BY <4>1 DEF WorkerTo, Release, IdleWorker, StorageTypeOK
      <4> QED
        BY <2>2, <2>3, <4>2
    <3> QED
      BY <2>4, <2>5, <2>6, <3>1, <3>2
  <2>7. ASSUME ~ \E u \in Uids :
               \/ Download(u) \/ RecordDownload(u) \/ UploadBlob(u) \/ UploadRow(u)
               \/ \E s \in Stages : Skip(s, u) \/ Work(s, u) \/ RecordStage(s, u)
               \/ RenderView(u) \/ WorkerDies(u)
        PROVE  Claims(v)'
    <3>1. UNCHANGED worker
      BY <2>7 DEF StorageNext, LabelModel, DeleteModel, RestoreModel, DropTables,
         BackfillTitles, StartReconcile, ListPrefix, WriteRows, StopReconcile, ReconcilerOnly,
         StartCleanup, ReadLabels, ReadKnown, ListCandidates, Confirm, EndCleanup,
         DeleteCandidate, CleanerOnly, pipeline
    <3> QED
      BY <2>2, <3>1
  <2> QED
    BY <2>6, <2>7
<1>3. /\ reconciler'.converted \subseteq Listed("converted")'
      /\ reconciler'.normalized \subseteq Listed("normalized")'
      /\ reconciler'.rendered \subseteq CompleteRenders'
  <2>1. CASE ListPrefix
    BY <1>1, <2>1 DEF ListPrefix, Claimed, StorageTypeOK
  <2>2. CASE StartReconcile \/ WriteRows \/ StopReconcile
    BY <2>2 DEF StartReconcile, WriteRows, StopReconcile, IdleReconciler
  <2>3. CASE UNCHANGED reconciler
    BY <1>1, <2>3 DEF Claimed
  <2> QED
    BY <2>1, <2>2, <2>3 DEF StorageNext, Download, RecordDownload, UploadBlob, UploadRow, Skip,
       Work, RecordStage, RenderView, PutView, WorkerDies, LabelModel, DeleteModel, RestoreModel,
       DropTables, BackfillTitles, StartCleanup, ReadLabels, ReadKnown, ListCandidates, Confirm,
       EndCleanup, DeleteCandidate, CleanerOnly, Beside, BesideTools, tools
<1>4. RowsAreBacked'
  <2> DEFINE Backed(a, u) ==
        /\ <<"converted", u>> \in a => Stored("converted", u)'
        /\ <<"normalized", u>> \in a => Stored("normalized", u)'
        /\ <<"rendered", u>> \in a => AllViews(u)'
  <2>1. \A u \in Uids : Backed(artifact, u)
    BY <1>1 DEF RowsAreBacked
  <2>2. CASE artifact' \subseteq artifact
    BY <2>1, <2>2 DEF RowsAreBacked
  <2>3. CASE WriteRows
    <3>1. artifact' = artifact \cup SeenArtifacts
      BY <2>3 DEF WriteRows
    <3>2. ASSUME NEW u \in Uids PROVE Backed(SeenArtifacts, u)
      BY <1>1 DEF SeenArtifacts, Claimed, Listed, CompleteRenders
    <3> QED
      BY <2>1, <3>1, <3>2 DEF RowsAreBacked
  <2>4. ASSUME NEW s \in Stages, NEW u \in Uids, RecordStage(s, u) PROVE RowsAreBacked'
    <3>1. artifact' = artifact \cup {<<s, u>>}
      BY <2>4 DEF RecordStage
    <3>2. s = "rendered" => AllViews(u)
      BY <2>4 DEF RecordStage, Claimed, AllViews, Views
    <3>3. Backed({<<s, u>>}, u)
      BY <1>1, <2>4, <3>2 DEF RecordStage, Claimed
    <3>4. \A v \in Uids : Backed({<<s, u>>}, v)
      BY <3>3
    <3> QED
      BY <2>1, <3>1, <3>4 DEF RowsAreBacked
  <2> QED
    BY <2>2, <2>3, <2>4 DEF StorageNext, Download, RecordDownload, UploadBlob, UploadRow, Skip,
       Work, RenderView, PutView, WorkerDies, LabelModel, DeleteModel, RestoreModel,
       DropTables, BackfillTitles, StartReconcile, ListPrefix, StopReconcile,
       StartCleanup, ReadLabels, ReadKnown, ListCandidates, Confirm,
       EndCleanup, DeleteCandidate, CleanerOnly
<1> QED
  BY <1>2, <1>3, <1>4 DEF Claimed

-----------------------------------------------------------------------------
(* The dataset, and the listings of a quiet store.                         *)

(* The steps that are not the tools'.                                      *)
LEMMA StepsBeside ==
  ASSUME \/ \E u \in Uids :
              \/ Download(u) \/ RecordDownload(u) \/ UploadBlob(u) \/ UploadRow(u)
              \/ \E s \in Stages : Skip(s, u) \/ Work(s, u) \/ RecordStage(s, u)
              \/ RenderView(u) \/ WorkerDies(u)
              \/ LabelModel(u) \/ DeleteModel(u) \/ RestoreModel(u)
         \/ DropTables
  PROVE  BesideTools
BY DEF Download, RecordDownload, UploadBlob, UploadRow, Skip, Work, RecordStage, RenderView,
       PutView, WorkerDies, LabelModel, DeleteModel, RestoreModel, DropTables, Beside

(* What the cleaner chose stays out of the dataset it began with.          *)
LEMMA SparedStep ==
  ASSUME SInv, StorageNext
  PROVE  Spared'
<1> USE DEF SInv
<1>1. CASE BesideTools
  BY <1>1, BesideStep
<1>2. CASE StartReconcile \/ ListPrefix \/ WriteRows \/ StopReconcile
  <2>1. UNCHANGED <<kept, cleaner, label>>
    BY <1>2 DEF StartReconcile, ListPrefix, WriteRows, StopReconcile, ReconcilerOnly
  <2>2. \A u \in Uids : InDataset(model[u], label[u]) => InDataset(model'[u], label[u])
    <3> SUFFICES ASSUME NEW u \in Uids, InDataset(model[u], label[u])
                 PROVE  InDataset(model'[u], label[u])
      OBVIOUS
    <3>1. model[u] \in ModelRow
      BY DEF StorageTypeOK, ModelRow
    <3>2. Upserted(u).status # "none" /\ Upserted(u).deleted = model[u].deleted
      BY <3>1 DEF Upserted, ModelRow
    <3>3. model'[u] = model[u] \/ model'[u] = Upserted(u)
      BY <1>2 DEF StartReconcile, ListPrefix, WriteRows, StopReconcile
    <3> QED
      BY <3>2, <3>3 DEF InDataset
  <2> QED
    BY <2>1, <2>2 DEF Spared, StorageTypeOK
<1>3. CASE StopCleaner
  BY <1>3 DEF StopCleaner, IdleCleaner, Spared
<1>4. CASE StartCleanup
  <2>1. kept' = {u \in Uids : InDataset(model[u], label[u])} /\ UNCHANGED <<model, label>>
    BY <1>4 DEF StartCleanup, CleanerOnly
  <2> DEFINE gone == {u \in Uids : model[u].deleted}
  <2>2. /\ cleaner.pc = "idle"
        /\ cleaner' = [cleaner EXCEPT !.pc = "labels", !.excluded = gone]
    BY <1>4 DEF StartCleanup
  <2>3. cleaner.candidates = {}
    BY <2>2 DEF Spared
  <2>4. kept' \cap gone = {}
    BY <2>1 DEF InDataset
  <2> HIDE DEF gone
  <2>5. cleaner'.excluded = gone /\ cleaner'.candidates = {}
    BY <2>2, <2>3 DEF StorageTypeOK
  <2> QED
    BY <2>1, <2>4, <2>5 DEF Spared
<1>5. CASE ReadLabels \/ ReadKnown
  <2>1. UNCHANGED <<kept, model, label>> /\ cleaner.pc \notin {"confirm", "delete"}
    BY <1>5 DEF ReadLabels, ReadKnown, CleanerOnly
  <2>2. PICK more \in SUBSET Uids :
          /\ \A u \in more : ~InDataset(model[u], label[u])
          /\ \E pc \in {"known", "list"} :
               cleaner' = [cleaner EXCEPT !.pc = pc, !.excluded = @ \cup more]
    <3>1. CASE ReadLabels
      BY <3>1 DEF ReadLabels, InRoster, InDataset
    <3>2. CASE ReadKnown
      BY <3>2 DEF ReadKnown, Exists, InDataset
    <3> QED
      BY <1>5, <3>1, <3>2
  <2>3. /\ cleaner'.excluded = cleaner.excluded \cup more
        /\ cleaner'.candidates = cleaner.candidates
    BY <2>2 DEF StorageTypeOK
  <2>4. kept \cap more = {}
    BY <2>2 DEF Spared
  <2> QED
    BY <2>1, <2>3, <2>4 DEF Spared
<1>6. CASE Confirm \/ \E u \in Uids : DeleteCandidate(u)
  <2>1. UNCHANGED <<kept, model, label>>
    BY <1>6 DEF Confirm, DeleteCandidate, CleanerOnly
  <2>2. CASE Confirm
    <3>1. cleaner' = [cleaner EXCEPT !.pc = "delete"]
      BY <2>2 DEF Confirm, CleanerTo
    <3>2. /\ cleaner'.pc = "delete" /\ cleaner'.excluded = cleaner.excluded
          /\ cleaner'.candidates = cleaner.candidates
      BY <3>1 DEF StorageTypeOK
    <3> QED
      BY <2>1, <3>2 DEF Spared
  <2>3. ASSUME NEW u \in Uids, DeleteCandidate(u) PROVE Spared'
    <3>1. cleaner.pc = "delete" /\ cleaner' = [cleaner EXCEPT !.candidates = @ \ {u}]
      BY <2>3 DEF DeleteCandidate
    <3>2. /\ cleaner'.pc = "delete" /\ cleaner'.excluded = cleaner.excluded
          /\ cleaner'.candidates \subseteq cleaner.candidates
      BY <3>1 DEF StorageTypeOK
    <3> QED
      BY <2>1, <3>2 DEF Spared
  <2> QED
    BY <1>6, <2>2, <2>3
<1>7. CASE ListCandidates
  <2>1. CASE cleaner' = [IdleCleaner EXCEPT !.pc = "confirm",
                                            !.candidates = Listed("raw") \cap cleaner.excluded]
             /\ UNCHANGED <<kept, model, label>>
    BY <2>1 DEF Spared, IdleCleaner
  <2> QED
    BY <1>3, <1>7, <2>1 DEF ListCandidates, CleanerOnly
<1>8. CASE BackfillTitles
  <2>1. UNCHANGED <<kept, cleaner, label>>
    BY <1>8 DEF BackfillTitles, tools
  <2>2. \A u \in Uids : InDataset(model[u], label[u]) => InDataset(model'[u], label[u])
    <3> SUFFICES ASSUME NEW u \in Uids, InDataset(model[u], label[u])
                 PROVE  InDataset(model'[u], label[u])
      OBVIOUS
    <3>1. model[u] \in ModelRow
      BY DEF StorageTypeOK, ModelRow
    <3>2. model'[u] = model[u] \/ model'[u] = [model[u] EXCEPT !.title = "store"]
      BY <1>8 DEF BackfillTitles
    <3> QED
      BY <3>1, <3>2 DEF InDataset, ModelRow
  <2> QED
    BY <2>1, <2>2 DEF Spared, StorageTypeOK
<1> QED
  BY <1>1, <1>2, <1>3, <1>4, <1>5, <1>6, <1>7, <1>8, StepsBeside DEF StorageNext, EndCleanup

(* A listing is made of the store there is, and a store that changes is    *)
(* not quiet.                                                              *)
LEMMA ExactStep ==
  ASSUME SInv, StorageNext
  PROVE  Exact'
<1> USE DEF SInv
<1>1. ASSUME UNCHANGED <<bucket, reconciler>>, quiet' => quiet PROVE Exact'
  BY <1>1 DEF Exact, Listed, CompleteRenders, AllViews, Stored, Has
<1>2. CASE BesideTools
  <2>1. CASE UNCHANGED bucket
    BY <1>2, <2>1, BesideStep
  <2>2. CASE ~UNCHANGED bucket
    BY <1>2, <2>2 DEF BesideTools, Exact
  <2> QED
    BY <2>1, <2>2
<1>3. CASE StartReconcile \/ WriteRows \/ StopReconcile
  BY <1>3 DEF StartReconcile, WriteRows, StopReconcile, IdleReconciler, Exact
<1>4. CASE ListPrefix
  <2>1. UNCHANGED bucket /\ UNCHANGED quiet
    BY <1>4 DEF ListPrefix, ReconcilerOnly
  <2>2. /\ Listed("raw")' = Listed("raw") /\ Listed("converted")' = Listed("converted")
        /\ Listed("normalized")' = Listed("normalized") /\ CompleteRenders' = CompleteRenders
    BY <2>1 DEF Listed, CompleteRenders, AllViews, Stored, Has
  <2>3. CASE reconciler.pc = "raw"
    BY <1>4, <2>1, <2>2, <2>3 DEF ListPrefix, Exact, StorageTypeOK
  <2>4. CASE reconciler.pc = "converted"
    <3>1. /\ reconciler'.pc = "normalized" /\ reconciler'.converted = Listed("converted")
          /\ reconciler'.raw = reconciler.raw
      BY <1>4, <2>4 DEF ListPrefix, StorageTypeOK
    <3> QED
      BY <2>1, <2>2, <2>4, <3>1 DEF Exact
  <2>5. CASE reconciler.pc = "normalized"
    <3>1. /\ reconciler'.pc = "rendered" /\ reconciler'.normalized = Listed("normalized")
          /\ reconciler'.raw = reconciler.raw /\ reconciler'.converted = reconciler.converted
      BY <1>4, <2>5 DEF ListPrefix, StorageTypeOK
    <3> QED
      BY <2>1, <2>2, <2>5, <3>1 DEF Exact
  <2>6. CASE reconciler.pc = "rendered"
    <3>1. /\ reconciler'.pc = "write" /\ reconciler'.rendered = CompleteRenders
          /\ reconciler'.raw = reconciler.raw /\ reconciler'.converted = reconciler.converted /\ reconciler'.normalized = reconciler.normalized
      BY <1>4, <2>6 DEF ListPrefix, StorageTypeOK
    <3> QED
      BY <2>1, <2>2, <2>6, <3>1 DEF Exact
  <2> QED
    BY <1>4, <2>3, <2>4, <2>5, <2>6 DEF ListPrefix
<1>5. CASE \/ StartCleanup \/ ReadLabels \/ ReadKnown \/ ListCandidates \/ Confirm
           \/ EndCleanup \/ BackfillTitles
  <2>1. UNCHANGED <<bucket, reconciler, quiet>>
    BY <1>5 DEF StartCleanup, ReadLabels, ReadKnown, ListCandidates, Confirm, EndCleanup,
       BackfillTitles, CleanerOnly, tools
  <2> QED
    BY <1>1, <2>1
<1>6. CASE \E u \in Uids : DeleteCandidate(u)
  <2>1. UNCHANGED reconciler /\ quiet' = (quiet /\ bucket' = bucket)
    BY <1>6 DEF DeleteCandidate, CleanerOnly
  <2> QED
    BY <1>1, <2>1 DEF Exact
<1> QED
  BY <1>2, <1>3, <1>4, <1>5, <1>6, StepsBeside DEF StorageNext

-----------------------------------------------------------------------------
(* The invariant is kept.                                                  *)
LEMMA StorageStep ==
  ASSUME SInv, [StorageNext]_storageVars
  PROVE  SInv'
<1>1. CASE StorageNext
  <2>1. StorageTypeOK' /\ Orderly'
    BY <1>1, WorkerTypes, PeopleTypes, ReconcilerTypes, CleanerTypes DEF StorageNext
  <2>2. Claimed' /\ RowsAreBacked'
    BY <1>1, ClaimsStep
  <2>3. Spared' /\ Exact'
    BY <1>1, SparedStep, ExactStep
  <2> QED
    BY <2>1, <2>2, <2>3 DEF SInv
<1>2. CASE UNCHANGED storageVars
  BY <1>2 DEF storageVars, pipeline, tools, SInv, StorageTypeOK, Orderly, Claimed, RowsAreBacked,
     Spared, Exact, Exists, Listed, CompleteRenders, AllViews, Stored, Has
<1> QED
  BY <1>1, <1>2

(* The invariant, for every instance.                                      *)
THEOREM StorageInvariant == StorageSpec => []SInv
BY StorageInitially, StorageStep, PTL DEF StorageSpec

(* Rows, listings, stores and the tools' memories are what they should be. *)
THEOREM StorageTypeCorrect == StorageSpec => []StorageTypeOK
BY StorageInvariant, PTL DEF SInv

(* An artifact row claims blobs that are there, whatever workers die, are  *)
(* reconciled half way, or are reconciled twice.                           *)
THEOREM ReconciledRowsAreBacked == StorageSpec => []RowsAreBacked
BY StorageInvariant, PTL DEF SInv

(* The cleanup deletes no mesh of a model that stayed in the dataset, and  *)
(* nothing else deletes one.                                               *)
THEOREM CleanupKeepsTheDataset == StorageSpec => KeepsTheDataset
<1>1. ASSUME SInv, [StorageNext]_storageVars, NEW u \in Uids,
             Stored("raw", u), ~Stored("raw", u)'
      PROVE  u \notin kept
  <2> USE <1>1 DEF SInv
  <2>1. CASE \E v \in Uids : DeleteCandidate(v)
    <3>1. PICK v \in Uids : DeleteCandidate(v)
      BY <2>1
    <3>2. v \in cleaner.candidates
      BY <3>1 DEF DeleteCandidate
    <3>3. u = v
      BY <3>1 DEF DeleteCandidate, Stored, Has, Backend, Blob, StorageTypeOK
    <3> QED
      BY <3>2, <3>3 DEF Spared
  <2>2. CASE \E v \in Uids :
               \/ Download(v) \/ UploadBlob(v) \/ \E s \in Stages : Work(s, v)
               \/ RenderView(v)
    <3>1. bucket["raw"] \subseteq bucket'["raw"]
      BY <2>2, PutsKeep
    <3> QED
      BY <3>1 DEF Stored, Has, Backend, Blob
  <2>3. CASE UNCHANGED bucket
    BY <2>3 DEF Stored, Has
  <2> QED
    BY <2>1, <2>2, <2>3 DEF StorageNext, RecordDownload, UploadRow, Skip, RecordStage,
       WorkerDies, LabelModel, DeleteModel, RestoreModel, DropTables, BackfillTitles,
       StartReconcile, ListPrefix, WriteRows, StopReconcile, ReconcilerOnly, StartCleanup,
       ReadLabels, ReadKnown, ListCandidates, Confirm, EndCleanup, storageVars
<1>2. SInv /\ [StorageNext]_storageVars =>
        [\A u \in Uids : Stored("raw", u) /\ ~Stored("raw", u)' => u \notin kept]_storageVars
  BY <1>1
<1> QED
  BY <1>2, StorageInvariant, PTL DEF StorageSpec, KeepsTheDataset

(* A reconciliation of a store that stood still leaves an exact index.     *)
THEOREM ReconciliationIsExact == StorageSpec => IndexAgrees
<1> DEFINE Agrees ==
      WriteRows /\ quiet =>
        \A u \in Uids :
          /\ Stored("raw", u) \/ Stored("converted", u) \/ Stored("normalized", u) =>
               /\ model'[u].status = IF Stored("raw", u) THEN "downloaded" ELSE "pending"
               /\ model'[u].raw_key = Stored("raw", u)
          /\ <<"converted", u>> \in artifact' <=> Stored("converted", u)
          /\ <<"normalized", u>> \in artifact' <=> Stored("normalized", u)
          /\ <<"rendered", u>> \in artifact' <=> AllViews(u)
<1>1. ASSUME SInv, [StorageNext]_storageVars PROVE Agrees
  <2> USE <1>1 DEF SInv
  <2> SUFFICES ASSUME WriteRows, quiet, NEW u \in Uids
               PROVE  /\ Stored("raw", u) \/ Stored("converted", u) \/ Stored("normalized", u) =>
                           /\ model'[u].status = IF Stored("raw", u) THEN "downloaded" ELSE "pending"
                           /\ model'[u].raw_key = Stored("raw", u)
                      /\ <<"converted", u>> \in artifact' <=> Stored("converted", u)
                      /\ <<"normalized", u>> \in artifact' <=> Stored("normalized", u)
                      /\ <<"rendered", u>> \in artifact' <=> AllViews(u)
    OBVIOUS
  <2>1. /\ reconciler.raw = Listed("raw") /\ reconciler.converted = Listed("converted")
        /\ reconciler.normalized = Listed("normalized")
        /\ reconciler.rendered = CompleteRenders
    BY DEF WriteRows, Exact
  <2>2. \A kind \in {"raw", "converted", "normalized"} : u \in Listed(kind) <=> Stored(kind, u)
    BY DEF Listed
  <2>3. u \in CompleteRenders <=> AllViews(u)
    BY DEF CompleteRenders
  <2>4. artifact' = artifact \cup SeenArtifacts
    BY DEF WriteRows
  <2>5. /\ <<"converted", u>> \in SeenArtifacts <=> Stored("converted", u)
        /\ <<"normalized", u>> \in SeenArtifacts <=> Stored("normalized", u)
        /\ <<"rendered", u>> \in SeenArtifacts <=> AllViews(u)
    BY <2>1, <2>2, <2>3 DEF SeenArtifacts
  <2>6. ASSUME Stored("raw", u) \/ Stored("converted", u) \/ Stored("normalized", u)
        PROVE  /\ model'[u].status = IF Stored("raw", u) THEN "downloaded" ELSE "pending"
               /\ model'[u].raw_key = Stored("raw", u)
    <3>1. model'[u] = Upserted(u)
      BY <2>1, <2>2, <2>6 DEF WriteRows, Seen
    <3>2. model[u] \in ModelRow
      BY DEF StorageTypeOK, ModelRow
    <3>3. /\ Upserted(u).status = IF u \in reconciler.raw THEN "downloaded" ELSE "pending"
          /\ Upserted(u).raw_key = (u \in reconciler.raw)
      <4> DEFINE there == u \in reconciler.raw
      <4>1. Upserted(u) = [model[u] EXCEPT
                             !.status = IF there THEN "downloaded" ELSE "pending",
                             !.raw_key = there]
        BY DEF Upserted
      <4> HIDE DEF there
      <4>2. /\ Upserted(u).status = IF there THEN "downloaded" ELSE "pending"
            /\ Upserted(u).raw_key = there
        BY <3>2, <4>1 DEF ModelRow
      <4> QED
        BY <4>2 DEF there
    <3>4. (u \in reconciler.raw) = Stored("raw", u)
      BY <2>1, <2>2 DEF Stored, Has
    <3> QED
      BY <3>1, <3>3, <3>4
  <2> QED
    BY <2>4, <2>5, <2>6 DEF RowsAreBacked
<1>2. SInv /\ [StorageNext]_storageVars => [Agrees]_storageVars
  BY <1>1
<1> QED
  BY <1>2, StorageInvariant, PTL DEF StorageSpec, IndexAgrees

(* A model stays deleted, and a file's name stays its upload's title.      *)
THEOREM PeoplesDecisionsStay == StorageSpec => DecisionsStay
<1> DEFINE Stay ==
      \A u \in Uids :
        /\ model[u].deleted /\ ~model'[u].deleted => RestoreModel(u) \/ DropTables
        /\ model[u].title = "file" => model'[u].title = "file" \/ DropTables
<1>1. ASSUME SInv, [StorageNext]_storageVars PROVE Stay
  <2> USE <1>1 DEF SInv
  <2> SUFFICES ASSUME NEW u \in Uids
               PROVE  /\ model[u].deleted /\ ~model'[u].deleted => RestoreModel(u) \/ DropTables
                      /\ model[u].title = "file" => model'[u].title = "file" \/ DropTables
    OBVIOUS
  <2>1. model[u] \in ModelRow /\ model \in [Uids -> ModelRow]
    BY DEF StorageTypeOK, ModelRow
  <2>2. CASE model'[u] = model[u] \/ DropTables
    BY <2>2
  <2>3. CASE WriteRows
    <3>1. model'[u] = model[u] \/ model'[u] = Upserted(u)
      BY <2>3 DEF WriteRows
    <3>2. Upserted(u).deleted = model[u].deleted /\ Upserted(u).title = model[u].title
      BY <2>1 DEF Upserted, ModelRow
    <3> QED
      BY <3>1, <3>2
  <2>4. CASE BackfillTitles
    <3>1. \/ model'[u] = model[u]
          \/ model[u].title = "none" /\ model'[u] = [model[u] EXCEPT !.title = "store"]
      BY <2>4 DEF BackfillTitles
    <3> QED
      BY <2>1, <3>1 DEF ModelRow
  <2>5. ASSUME NEW v \in Uids, RecordDownload(v) \/ UploadRow(v) \/ DeleteModel(v)
        PROVE  /\ model[u].deleted => model'[u].deleted
               /\ model[u].title = "file" => model'[u].title = "file"
    <3>1. CASE u # v
      <4>1. model'[u] = model[u]
        BY <2>1, <2>5, <3>1 DEF RecordDownload, UploadRow, DeleteModel
      <4> QED
        BY <4>1
    <3>2. CASE u = v /\ UploadRow(v)
      <4>1. \/ model'[u] = model[u]
            \/ ~Exists(u) /\ model'[u].title = "file"
        BY <2>1, <3>2 DEF UploadRow
      <4> QED
        BY <4>1 DEF Orderly, NoRow
    <3>3. CASE u = v /\ RecordDownload(v)
      <4>1. model' = [model EXCEPT ![u] = [model[u] EXCEPT !.status = "downloaded",
                                                           !.raw_key = TRUE]]
        BY <2>1, <3>3 DEF RecordDownload
      <4>2. model'[u] = [model[u] EXCEPT !.status = "downloaded", !.raw_key = TRUE]
        BY <2>1, <4>1
      <4> QED
        BY <2>1, <4>2 DEF ModelRow
    <3>4. CASE u = v /\ DeleteModel(v)
      <4>1. model'[u] = [model[u] EXCEPT !.deleted = TRUE]
        BY <2>1, <3>4 DEF DeleteModel
      <4> QED
        BY <2>1, <4>1 DEF ModelRow
    <3> QED
      BY <2>5, <3>1, <3>2, <3>3, <3>4
  <2>6. ASSUME NEW v \in Uids, RestoreModel(v)
        PROVE  /\ model[u].deleted /\ ~model'[u].deleted => RestoreModel(u)
               /\ model[u].title = "file" => model'[u].title = "file"
    <3>1. CASE u # v
      <4>1. model'[u] = model[u]
        BY <2>1, <2>6, <3>1 DEF RestoreModel
      <4> QED
        BY <4>1
    <3>2. CASE u = v
      <4>1. model'[u] = [model[u] EXCEPT !.deleted = FALSE]
        BY <2>1, <2>6, <3>2 DEF RestoreModel
      <4> QED
        BY <2>1, <2>6, <3>2, <4>1 DEF ModelRow
    <3> QED
      BY <3>1, <3>2
  <2> QED
    BY <2>2, <2>3, <2>4, <2>5, <2>6 DEF StorageNext, Download, UploadBlob, Skip, Work,
       RecordStage, RenderView, PutView, WorkerDies, LabelModel, StartReconcile, ListPrefix,
       StopReconcile, StartCleanup, ReadLabels, ReadKnown, ListCandidates, Confirm, EndCleanup,
       DeleteCandidate, CleanerOnly, storageVars
<1>2. SInv /\ [StorageNext]_storageVars => [Stay]_storageVars
  BY <1>1
<1> QED
  BY <1>2, StorageInvariant, PTL DEF StorageSpec, DecisionsStay
=============================================================================
