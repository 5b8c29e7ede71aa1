--------------------------- MODULE PipelineProofs ---------------------------
(***************************************************************************)
(* Theorems about Pipeline for every value of its constants: TypeOK, that  *)
(* a row never runs ahead of storage, that no accepted arm is lost, that a *)
(* dead letter marked as replayed is underway, and that the pipeline       *)
(* implements PipelinePromise.  They rest on one inductive invariant,      *)
(* IInv, in two parts:                                                     *)
(*                                                                         *)
(*   Honest  what a handler between its steps may rely on: a slot about to *)
(*           write a row has its blob stored, a slot rendering view v has  *)
(*           stored the views before v;                                    *)
(*   Handed  what has been handed on: a slot about to acknowledge its job  *)
(*           has the next stage's job in the pipeline, a job replay_dlq    *)
(*           is about to acknowledge is back in it, and so is the job of a *)
(*           retry whose transaction is still open.                        *)
(***************************************************************************)
EXTENDS Pipeline, TLAPS

(* Render is at a view that exists, with the views before it stored.       *)
RenderSoFar(w) ==
  /\ slot[w].pc = "gate" => slot[w].view = 0
  /\ At(w, Render, "work") =>
       /\ slot[w].view < NumViews
       /\ 0 .. (slot[w].view - 1) \subseteq views[Arm(w)]

(* The output a row is about to be written for is stored.                  *)
BlobBeforeRow(w) ==
  slot[w].pc = "record" =>
    /\ JobOf(w).stage = Download => "glb" \in raw[Uid(w)]
    /\ JobOf(w).stage # Download => JobOf(w).variant = Default
    /\ JobOf(w).stage = Convert => Arm(w) \in converted
    /\ JobOf(w).stage = Normalize => Arm(w) \in normalized
    /\ JobOf(w).stage = Render => views[Arm(w)] = Views

UploadsStored == \A u \in Uploads : upload[u] = "blob" => UploadSuffix[u] \in raw[u]

Honest ==
  /\ \A w \in Workers : RenderSoFar(w) /\ BlobBeforeRow(w)
  /\ UploadsStored
  /\ DoneMeansStored

(* The jobs Pub/Sub would deliver again by itself.                         *)
Held == {m.job : m \in queue} \cup {JobOf(w) : w \in {x \in Workers : slot[x].leased}}

(* Accounted(a, Render + 1) leaves only Rendered(a).                       *)
HandedOn(j) == Accounted(ArmOf(j), j.stage + 1)

Handed ==
  /\ \A w \in Workers : slot[w].pc = "ack" => HandedOn(JobOf(w))
  /\ \A j \in draining : j \in Held \/ HandedOn(j)
  /\ retry # None => Accounted(<<retry[1], Default>>, retry[2])
  /\ NothingLost
  /\ ReplayedIsUnderway

IInv == TypeOK /\ Honest /\ Handed

-----------------------------------------------------------------------------
(* Helpers.                                                                *)

(* A job published anew is a message of attempt 1.                         *)
LEMMA FreshIsMessage ==
  ASSUME NEW j \in Job
  PROVE  Fresh(j) \in Message
BY PipelineAssumption DEF Fresh, Message

(* An arm and a stage make a job.                                          *)
LEMMA JobForIsJob ==
  ASSUME NEW a \in Arms, NEW s \in Stages
  PROVE  JobFor(a, s) \in Job
BY DEF JobFor, Job, Arms

(* A busy slot that moves on is busy still.                                *)
LEMMA MoveToSlots ==
  ASSUME SlotsOK, NEW w \in Workers, slot[w].pc \in Busy,
         NEW p \in Busy, MoveTo(w, p)
  PROVE  SlotsOK'
BY DEF SlotsOK, SlotType, MoveTo, Busy, PCs

(* A slot that is done, or whose instance died, waits for the next message. *)
LEMMA IdleSlots ==
  ASSUME SlotsOK, NEW w \in Workers, slot' = [slot EXCEPT ![w] = Idle]
  PROVE  SlotsOK'
BY PipelineAssumption DEF SlotsOK, SlotType, Idle, Busy, PCs, Suffixes

(* A busy slot has a job, with the uid, arm and stage of one.              *)
LEMMA BusyJob ==
  ASSUME TypeOK, NEW w \in Workers, slot[w].pc \in Busy
  PROVE  /\ slot[w].msg \in Message
         /\ JobOf(w) \in Job
         /\ Uid(w) \in Uids
         /\ Arm(w) \in Arms
         /\ JobOf(w).stage \in Stages
BY DEF TypeOK, SlotsOK, JobOf, Uid, Arm, ArmOf, Message, Job, Arms

(* However a delivery ends, the message stays a message and the job a job. *)
LEMMA RedeliverPubsub ==
  ASSUME PubsubOK, NEW m \in Message, NEW waiting \in SUBSET Message, Redeliver(m, waiting)
  PROVE  PubsubOK'
<1>1. CASE m.attempt < MaxAttempts
  <2>1. [m EXCEPT !.attempt = @ + 1] \in Message
    BY <1>1, PipelineAssumption DEF Message
  <2> QED
    BY <1>1, <2>1 DEF Redeliver, PubsubOK
<1>2. CASE ~(m.attempt < MaxAttempts)
  <2>1. m.job \in Job
    BY DEF Message
  <2> QED
    BY <1>2, <2>1 DEF Redeliver, PubsubOK
<1> QED
  BY <1>1, <1>2

-----------------------------------------------------------------------------
(* Type correctness.                                                       *)

(* Before anything is seeded every variable is of its type.                *)
LEMMA TypeInit == Init => TypeOK
BY PipelineAssumption
   DEF Init, TypeOK, StoreOK, TablesOK, PubsubOK, SlotsOK, OutsideOK, Idle, SlotType,
       PCs, Busy, Suffixes, BudgetKinds, Arms, Message, Job

(* Each group of variables keeps its part of TypeOK while it is left alone. *)
LEMMA Frame ==
  ASSUME TypeOK
  PROVE  /\ UNCHANGED store => StoreOK'
         /\ UNCHANGED tables => TablesOK'
         /\ UNCHANGED pubsub => PubsubOK'
         /\ UNCHANGED slot => SlotsOK'
         /\ UNCHANGED outside => OutsideOK'
<1>1. UNCHANGED store => StoreOK'
  BY DEF TypeOK, StoreOK, store
<1>2. UNCHANGED tables => TablesOK'
  BY DEF TypeOK, TablesOK, tables
<1>3. UNCHANGED pubsub => PubsubOK'
  BY DEF TypeOK, PubsubOK, pubsub
<1>4. UNCHANGED slot => SlotsOK'
  BY DEF TypeOK, SlotsOK
<1>5. UNCHANGED outside => OutsideOK'
  BY DEF TypeOK, OutsideOK, outside
<1> QED
  BY <1>1, <1>2, <1>3, <1>4, <1>5

(* What spending from a bound leaves of the group it is in.                *)
LEMMA SpendOutside ==
  ASSUME TypeOK, NEW k \in BudgetKinds, Spend(k),
         accepted' \in SUBSET Arms,
         upload' \in [Uploads -> {"new", "blob", "row", "queued", "lost"}],
         retry' \in (Uids \X Stages) \cup {None}
  PROVE  OutsideOK'
<1>1. budget \in [BudgetKinds -> Nat] /\ budget[k] > 0
  BY DEF TypeOK, OutsideOK, Spend
<1>2. budget' = [budget EXCEPT ![k] = budget[k] - 1]
  BY DEF Spend
<1>3. budget[k] - 1 \in Nat
  BY <1>1
<1>4. budget' \in [BudgetKinds -> Nat]
  BY <1>1, <1>2, <1>3
<1> QED
  BY <1>4 DEF OutsideOK

(* So it is when nothing else of the group changes.                        *)
LEMMA SpendOnly ==
  ASSUME TypeOK, NEW k \in BudgetKinds, Spend(k), UNCHANGED <<upload, accepted, retry>>
  PROVE  OutsideOK'
BY SpendOutside DEF TypeOK, OutsideOK

(* A fresh message joins the queue.                                        *)
LEMMA PublishPubsub ==
  ASSUME PubsubOK, NEW j \in Job, queue' = queue \cup {Fresh(j)}, UNCHANGED <<dlq, draining>>
  PROVE  PubsubOK'
BY FreshIsMessage DEF PubsubOK

(* Seeding and uploading keep the types.                                   *)
LEMMA IncomingType ==
  ASSUME TypeOK, Incoming
  PROVE  TypeOK'
<1>1. ASSUME NEW j \in Job, Submit(j)
      PROVE  TypeOK'
  <2>1. ArmOf(j) \in Arms
    BY DEF Job, ArmOf, Arms
  <2>2. OutsideOK'
    BY <1>1, <2>1, SpendOutside DEF Submit, TypeOK, OutsideOK, BudgetKinds
  <2>3. PubsubOK'
    BY <1>1, PublishPubsub DEF Submit, TypeOK
  <2> QED
    BY <1>1, <2>2, <2>3, Frame DEF Submit, TypeOK
<1>2. ASSUME NEW u \in Objaverse, Seed(u)
      PROVE  TypeOK'
  BY <1>1, <1>2, JobForIsJob DEF Seed, Arms, Uids, Variants, Stages, Download, Render
<1>3. ASSUME NEW u \in TexturedSeeds, SeedVariant(u)
      PROVE  TypeOK'
  BY <1>1, <1>3, JobForIsJob, PipelineAssumption
  DEF SeedVariant, Arms, Variants, Stages, Download, Convert, Render
<1>4. ASSUME NEW u \in Uploads, UploadBlob(u)
      PROVE  TypeOK'
  <2>1. u \in Uids /\ UploadSuffix[u] \in Suffixes
    BY PipelineAssumption DEF Uids
  <2>2. StoreOK'
    BY <1>4, <2>1 DEF UploadBlob, TypeOK, StoreOK
  <2>3. OutsideOK'
    BY <1>4 DEF UploadBlob, TypeOK, OutsideOK
  <2> QED
    BY <1>4, <2>2, <2>3, Frame DEF UploadBlob, TypeOK
<1>5. ASSUME NEW u \in Uploads, UploadRow(u)
      PROVE  TypeOK'
  <2>1. u \in Uids /\ UploadSuffix[u] \in Suffixes
    BY PipelineAssumption DEF Uids
  <2>2. TablesOK'
    BY <1>5, <2>1 DEF UploadRow, TypeOK, TablesOK
  <2>3. OutsideOK'
    BY <1>5 DEF UploadRow, TypeOK, OutsideOK
  <2> QED
    BY <1>5, <2>2, <2>3, Frame DEF UploadRow, TypeOK
<1>6. ASSUME NEW u \in Uploads, UploadPublish(u)
      PROVE  TypeOK'
  <2>1. <<u, Default>> \in Arms /\ Convert \in Stages
    BY DEF Arms, Uids, Variants, Stages, Download, Convert, Render
  <2>2. JobFor(<<u, Default>>, Convert) \in Job
    BY <2>1, JobForIsJob
  <2>3. PubsubOK'
    BY <1>6, <2>2, PublishPubsub DEF UploadPublish, TypeOK
  <2>4. OutsideOK'
    BY <1>6, <2>1 DEF UploadPublish, TypeOK, OutsideOK
  <2> QED
    BY <1>6, <2>3, <2>4, Frame DEF UploadPublish, TypeOK
<1>7. ASSUME NEW u \in Uploads, UploadLost(u)
      PROVE  TypeOK'
  <2>1. OutsideOK'
    BY <1>7, SpendOutside DEF UploadLost, BudgetKinds, TypeOK, OutsideOK
  <2> QED
    BY <1>7, <2>1, Frame DEF UploadLost, TypeOK
<1> QED
  BY <1>2, <1>3, <1>4, <1>5, <1>6, <1>7 DEF Incoming

(* Delivering a message keeps the types.                                   *)
LEMMA DeliveryType ==
  ASSUME TypeOK, NEW w \in Workers, NEW m \in queue,
         Deliver(w, m) \/ DeliverTwice(w, m)
  PROVE  TypeOK'
<1>1. m \in Message
  BY DEF TypeOK, PubsubOK
<1>2. Take(w, m)
  BY DEF Deliver, DeliverTwice
<1>3. SlotsOK'
  <2>1. [pc |-> "gate", msg |-> m, leased |-> TRUE, src |-> "glb", view |-> 0] \in SlotType
    BY <1>1, PipelineAssumption DEF SlotType, PCs, Suffixes
  <2> QED
    BY <1>1, <1>2, <2>1 DEF Take, TypeOK, SlotsOK, Busy, PCs
<1>4. OutsideOK'
  <2>1. CASE Deliver(w, m)
    BY <1>2, <2>1 DEF Deliver, Take, TypeOK, OutsideOK
  <2>2. CASE DeliverTwice(w, m)
    BY <1>2, <2>2, SpendOnly DEF DeliverTwice, Take, BudgetKinds
  <2> QED
    BY <2>1, <2>2
<1>5. PubsubOK'
  <2>1. queue' \subseteq queue /\ UNCHANGED <<dlq, draining>>
    BY <1>2 DEF Deliver, DeliverTwice, Take
  <2> QED
    BY <2>1 DEF TypeOK, PubsubOK
<1> QED
  BY <1>2, <1>3, <1>4, <1>5, Frame DEF Take, TypeOK

(* Crashes, lost leases, duplicates and 429s keep the types.               *)
LEMMA TroubleType ==
  ASSUME TypeOK, Trouble
  PROVE  TypeOK'
<1>1. ASSUME NEW m \in queue, Congestion(m)
      PROVE  TypeOK'
  <2>1. PubsubOK'
    BY <1>1, RedeliverPubsub DEF Congestion, TypeOK, PubsubOK
  <2>2. OutsideOK'
    BY <1>1, SpendOnly DEF Congestion, BudgetKinds
  <2> QED
    BY <1>1, <2>1, <2>2, Frame DEF Congestion, TypeOK
<1>2. ASSUME NEW w \in Workers, LeaseExpires(w)
      PROVE  TypeOK'
  <2>1. slot[w].pc \in Busy /\ slot[w].msg \in Message
    BY <1>2 DEF LeaseExpires, TypeOK, SlotsOK
  <2>2. PubsubOK'
    BY <1>2, <2>1, RedeliverPubsub DEF LeaseExpires, TypeOK, PubsubOK
  <2>3. OutsideOK'
    BY <1>2, SpendOnly DEF LeaseExpires, BudgetKinds
  <2>4. SlotsOK'
    BY <1>2, <2>1 DEF LeaseExpires, TypeOK, SlotsOK, SlotType
  <2> QED
    BY <1>2, <2>2, <2>3, <2>4, Frame DEF LeaseExpires, TypeOK
<1>3. ASSUME NEW w \in Workers, Crash(w)
      PROVE  TypeOK'
  <2>1. PubsubOK'
    <3>1. CASE slot[w].leased
      <4>1. slot[w].msg \in Message
        BY <1>3 DEF Crash, TypeOK, SlotsOK
      <4> QED
        BY <1>3, <3>1, <4>1, RedeliverPubsub DEF Crash, TypeOK, PubsubOK
    <3>2. CASE ~slot[w].leased
      BY <1>3, <3>2, Frame DEF Crash
    <3> QED
      BY <3>1, <3>2
  <2>2. OutsideOK'
    BY <1>3, SpendOnly DEF Crash, BudgetKinds
  <2>3. SlotsOK'
    BY <1>3, IdleSlots DEF Crash, TypeOK
  <2> QED
    BY <1>3, <2>1, <2>2, <2>3, Frame DEF Crash, TypeOK
<1>4. ASSUME NEW w \in Workers, Raise(w) \/ RecordingFails(w)
      PROVE  TypeOK'
  <2>1. OutsideOK'
    BY <1>4, SpendOnly DEF Raise, RecordingFails, BudgetKinds
  <2>2. slot[w].pc \in Busy
    BY <1>4 DEF Raise, RecordingFails, Busy, PCs
  <2>3. MoveTo(w, "failed") \/ MoveTo(w, "nack")
    BY <1>4 DEF Raise, RecordingFails
  <2>4. {"failed", "nack"} \subseteq Busy
    BY DEF Busy, PCs
  <2>5. SlotsOK'
    BY <2>2, <2>3, <2>4, MoveToSlots DEF TypeOK
  <2> QED
    BY <1>4, <2>1, <2>5, Frame DEF Raise, RecordingFails, TypeOK
<1> QED
  BY <1>1, <1>2, <1>3, <1>4, DeliveryType DEF Trouble

(* A handler's step that only moves its slot on.                           *)
LEMMA MoveType ==
  ASSUME TypeOK, NEW w \in Workers, slot[w].pc \in Busy, NEW p \in Busy, MoveTo(w, p),
         StoreOK', TablesOK', PubsubOK', OutsideOK'
  PROVE  TypeOK'
BY MoveToSlots DEF TypeOK

(* Every step of a handler keeps the types; render needs that its view exists. *)
LEMMA HandleType ==
  ASSUME TypeOK, NEW w \in Workers, RenderSoFar(w), Handle(w)
  PROVE  TypeOK'
<1> DEFINE Busies == {"gate", "work", "record", "publish", "ack", "failed", "nack"}
<1>0. Busies = Busy
  BY DEF Busy, PCs
<1>1. slot[w].pc \in Busy
  BY <1>0 DEF Handle, At, DownloadGate, DownloadWork, DownloadRecord, ConvertGate,
     ConvertWork, NormalizeGate, NormalizeWork, RenderGate, RenderWork, RecordArtifact,
     PublishNext, Ack, RecordFailure, Nack
<1>2. /\ slot[w].msg \in Message /\ JobOf(w) \in Job
      /\ Uid(w) \in Uids /\ Arm(w) \in Arms /\ JobOf(w).stage \in Stages
  BY <1>1, BusyJob
<1>3. CASE DownloadGate(w) \/ NormalizeGate(w) \/ RenderGate(w)
  <2>1. PICK p \in Busy : MoveTo(w, p)
    BY <1>0, <1>3 DEF DownloadGate, NormalizeGate, RenderGate
  <2> QED
    BY <1>1, <1>3, <2>1, Frame, MoveType DEF DownloadGate, NormalizeGate, RenderGate
<1>4. CASE DownloadWork(w)
  <2>1. PICK p \in Busy : MoveTo(w, p)
    BY <1>0, <1>4 DEF DownloadWork
  <2>2. StoreOK'
    BY <1>2, <1>4 DEF DownloadWork, TypeOK, StoreOK, Suffixes
  <2> QED
    BY <1>1, <1>4, <2>1, <2>2, Frame, MoveType DEF DownloadWork
<1>5. CASE DownloadRecord(w)
  <2>1. PICK p \in Busy : MoveTo(w, p)
    BY <1>0, <1>5 DEF DownloadRecord
  <2>2. TablesOK'
    BY <1>2, <1>5 DEF DownloadRecord, TypeOK, TablesOK, Suffixes
  <2> QED
    BY <1>1, <1>5, <2>1, <2>2, Frame, MoveType DEF DownloadRecord
<1>6. CASE ConvertGate(w)
  <2>1. PICK p \in Busy, key \in Suffixes :
          slot' = [slot EXCEPT ![w].pc = p, ![w].src = key]
    BY <1>0, <1>2, <1>6 DEF ConvertGate, TypeOK, TablesOK, Suffixes
  <2>2. SlotsOK'
    BY <1>1, <2>1 DEF TypeOK, SlotsOK, SlotType, Busy
  <2> QED
    BY <1>6, <2>2, Frame DEF ConvertGate, TypeOK
<1>7. CASE ConvertWork(w)
  <2>1. PICK p \in Busy : MoveTo(w, p)
    BY <1>0, <1>7 DEF ConvertWork, AfterBlob
  <2>2. StoreOK'
    BY <1>2, <1>7 DEF ConvertWork, TypeOK, StoreOK
  <2> QED
    BY <1>1, <1>7, <2>1, <2>2, Frame, MoveType DEF ConvertWork
<1>8. CASE NormalizeWork(w)
  <2>1. PICK p \in Busy : MoveTo(w, p)
    BY <1>0, <1>8 DEF NormalizeWork, AfterBlob
  <2>2. StoreOK'
    BY <1>2, <1>8 DEF NormalizeWork, TypeOK, StoreOK
  <2> QED
    BY <1>1, <1>8, <2>1, <2>2, Frame, MoveType DEF NormalizeWork
<1>9. CASE RenderWork(w)
  <2>1. slot[w].view \in Views /\ slot[w].view + 1 \in 0 .. NumViews
    BY <1>1, <1>9, PipelineAssumption
    DEF RenderWork, At, RenderSoFar, TypeOK, SlotsOK, SlotType, Views
  <2>2. StoreOK'
    BY <1>2, <1>9, <2>1 DEF RenderWork, TypeOK, StoreOK
  <2>3. SlotsOK'
    <3>1. CASE MoveTo(w, "failed")
      BY <1>0, <1>1, <3>1, MoveToSlots DEF TypeOK
    <3>2. CASE \E p \in Busy :
                 slot' = [slot EXCEPT ![w].view = slot[w].view + 1, ![w].pc = p]
      <4>1. PICK p \in Busy :
              slot' = [slot EXCEPT ![w].view = slot[w].view + 1, ![w].pc = p]
        BY <3>2
      <4>2. slot[w] \in SlotType
        BY DEF TypeOK, SlotsOK
      <4>3. [slot[w] EXCEPT !.view = slot[w].view + 1, !.pc = p] \in SlotType
        BY <2>1, <4>1, <4>2 DEF SlotType, Busy
      <4> QED
        BY <1>1, <4>1, <4>3 DEF TypeOK, SlotsOK
    <3> QED
      BY <1>0, <1>9, <3>1, <3>2 DEF RenderWork, AfterBlob
  <2> QED
    BY <1>9, <2>2, <2>3, Frame DEF RenderWork, TypeOK
<1>10. CASE RecordArtifact(w)
  <2>1. PICK p \in Busy : MoveTo(w, p)
    BY <1>0, <1>10 DEF RecordArtifact
  <2>2. JobOf(w).stage \in {Convert, Normalize, Render}
    BY <1>2, <1>10 DEF RecordArtifact, Stages, Download, Convert, Normalize, Render
  <2>3. TablesOK'
    BY <1>2, <1>10, <2>2 DEF RecordArtifact, TypeOK, TablesOK
  <2> QED
    BY <1>1, <1>10, <2>1, <2>3, Frame, MoveType DEF RecordArtifact
<1>11. CASE PublishNext(w)
  <2>1. MoveTo(w, "ack") /\ "ack" \in Busy
    BY <1>0, <1>11 DEF PublishNext
  <2>2. JobOf(w).stage + 1 \in Stages
    BY <1>2, <1>11 DEF PublishNext, Stages, Download, Render
  <2>3. PubsubOK'
    BY <1>2, <1>11, <2>2, JobForIsJob, PublishPubsub DEF PublishNext, TypeOK
  <2> QED
    BY <1>1, <1>11, <2>1, <2>3, Frame, MoveType DEF PublishNext
<1>12. CASE Ack(w)
  BY <1>12, IdleSlots, Frame DEF Ack, TypeOK
<1>13. CASE RecordFailure(w)
  <2>1. MoveTo(w, "nack") /\ "nack" \in Busy
    BY <1>0, <1>13 DEF RecordFailure
  <2>2. TablesOK'
    BY <1>2, <1>13 DEF RecordFailure, TypeOK, TablesOK
  <2> QED
    BY <1>1, <1>13, <2>1, <2>2, Frame, MoveType DEF RecordFailure
<1>14. CASE Nack(w)
  <2>1. PubsubOK'
    BY <1>2, <1>14, RedeliverPubsub, Frame DEF Nack, TypeOK, PubsubOK
  <2> QED
    BY <1>14, <2>1, IdleSlots, Frame DEF Nack, TypeOK
<1> QED
  BY <1>3, <1>4, <1>5, <1>6, <1>7, <1>8, <1>9, <1>10, <1>11, <1>12, <1>13, <1>14
  DEF Handle

(* Retries and the draining of dead letters keep the types.                *)
LEMMA RetryingType ==
  ASSUME TypeOK, Retrying
  PROVE  TypeOK'
<1>1. ASSUME NEW u \in Uids, NEW s \in Stages, ReplayPublish(u, s)
      PROVE  TypeOK'
  <2>1. JobFor(<<u, Default>>, s) \in Job
    BY JobForIsJob DEF Arms, Variants
  <2>2. PubsubOK'
    BY <1>1, <2>1, PublishPubsub DEF ReplayPublish, TypeOK
  <2>3. OutsideOK'
    BY <1>1, SpendOutside DEF ReplayPublish, BudgetKinds, TypeOK, OutsideOK
  <2> QED
    BY <1>1, <2>2, <2>3, Frame DEF ReplayPublish, TypeOK
<1>2. ASSUME ReplayCommit
      PROVE  TypeOK'
  <2>1. retry \in Uids \X Stages
    BY <1>2 DEF ReplayCommit, TypeOK, OutsideOK
  <2>2. TablesOK'
    BY <1>2, <2>1 DEF ReplayCommit, TypeOK, TablesOK
  <2>3. OutsideOK'
    BY <1>2 DEF ReplayCommit, TypeOK, OutsideOK
  <2> QED
    BY <1>2, <2>2, <2>3, Frame DEF ReplayCommit, TypeOK
<1>3. ASSUME ReplayRollback
      PROVE  TypeOK'
  <2>1. OutsideOK'
    BY <1>3, SpendOutside DEF ReplayRollback, BudgetKinds, TypeOK, OutsideOK
  <2> QED
    BY <1>3, <2>1, Frame DEF ReplayRollback, TypeOK
<1>4. ASSUME NEW j \in dlq, DlqPublish(j)
      PROVE  TypeOK'
  <2>1. j \in Job /\ Fresh(j) \in Message
    BY FreshIsMessage DEF TypeOK, PubsubOK
  <2>2. PubsubOK'
    BY <1>4, <2>1 DEF DlqPublish, TypeOK, PubsubOK
  <2>3. OutsideOK'
    BY <1>4, SpendOnly DEF DlqPublish, BudgetKinds
  <2> QED
    BY <1>4, <2>2, <2>3, Frame DEF DlqPublish, TypeOK
<1>5. ASSUME DlqAck
      PROVE  TypeOK'
  <2>1. PubsubOK'
    BY <1>5 DEF DlqAck, TypeOK, PubsubOK
  <2> QED
    BY <1>5, <2>1, Frame DEF DlqAck, TypeOK
<1>6. ASSUME DlqCrash
      PROVE  TypeOK'
  <2>1. PubsubOK'
    BY <1>6 DEF DlqCrash, TypeOK, PubsubOK
  <2>2. OutsideOK'
    BY <1>6, SpendOnly DEF DlqCrash, BudgetKinds
  <2> QED
    BY <1>6, <2>1, <2>2, Frame DEF DlqCrash, TypeOK
<1> QED
  BY <1>1, <1>2, <1>3, <1>4, <1>5, <1>6 DEF Retrying

(* Every step keeps the types.                                             *)
LEMMA TypeStep ==
  ASSUME TypeOK, Honest, [Next]_vars
  PROVE  TypeOK'
<1>1. CASE Incoming
  BY <1>1, IncomingType
<1>2. CASE Delivery
  BY <1>2, DeliveryType DEF Delivery
<1>3. CASE \E w \in Workers : Handle(w)
  BY <1>3, HandleType DEF Honest
<1>4. CASE Trouble
  BY <1>4, TroubleType
<1>5. CASE Retrying
  BY <1>5, RetryingType
<1>6. CASE UNCHANGED vars
  BY <1>6, Frame DEF vars, TypeOK
<1> QED
  BY <1>1, <1>2, <1>3, <1>4, <1>5, <1>6 DEF Next

-----------------------------------------------------------------------------
(* Honest: rows and slots say no more than storage holds.                  *)

(* Nothing in this module deletes a blob or an artifact row.               *)
Grows ==
  /\ \A u \in Uids : raw[u] \subseteq raw'[u]
  /\ converted \subseteq converted'
  /\ normalized \subseteq normalized'
  /\ \A a \in Arms : views[a] \subseteq views'[a]
  /\ artifact \subseteq artifact'

(* What leaves the store and the artifact rows alone takes nothing away.   *)
LEMMA GrowsSame ==
  ASSUME UNCHANGED store, UNCHANGED artifact
  PROVE  Grows
BY DEF Grows, store

(* The steps of a handler that store a blob.                               *)
Works(w) == DownloadWork(w) \/ ConvertWork(w) \/ NormalizeWork(w) \/ RenderWork(w)

(* A handler that stores a blob takes nothing away.                        *)
LEMMA WorksGrow ==
  ASSUME TypeOK, NEW w \in Workers, Works(w)
  PROVE  Grows
<1>1. UNCHANGED artifact
  BY DEF Works, DownloadWork, ConvertWork, NormalizeWork, RenderWork, tables
<1>2. CASE DownloadWork(w)
  BY <1>1, <1>2 DEF DownloadWork, Grows, TypeOK, StoreOK
<1>3. CASE ConvertWork(w)
  BY <1>1, <1>3 DEF ConvertWork, Grows
<1>4. CASE NormalizeWork(w)
  BY <1>1, <1>4 DEF NormalizeWork, Grows
<1>5. CASE RenderWork(w)
  BY <1>1, <1>5 DEF RenderWork, Grows, TypeOK, StoreOK
<1> QED
  BY <1>2, <1>3, <1>4, <1>5 DEF Works

(* No step of the pipeline removes a blob or an artifact row.              *)
LEMMA StepGrows ==
  ASSUME TypeOK, [Next]_vars
  PROVE  Grows
<1>1. CASE Incoming
  <2>1. ASSUME NEW u \in Uploads, UploadBlob(u)
        PROVE  Grows
    BY <2>1 DEF UploadBlob, Grows, tables, TypeOK, StoreOK
  <2>2. CASE ~(\E u \in Uploads : UploadBlob(u))
    <3>1. UNCHANGED store /\ UNCHANGED artifact
      BY <1>1, <2>2
      DEF Incoming, Seed, SeedVariant, Submit, UploadRow, UploadPublish, UploadLost, tables
    <3> QED
      BY <3>1, GrowsSame
  <2> QED
    BY <2>1, <2>2
<1>2. CASE Delivery
  BY <1>2, GrowsSame DEF Delivery, Deliver, Take, tables
<1>3. ASSUME NEW w \in Workers, Handle(w)
      PROVE  Grows
  <2>1. CASE Works(w)
    BY <2>1, WorksGrow
  <2>2. CASE RecordArtifact(w)
    BY <2>2 DEF RecordArtifact, Grows, store
  <2>3. CASE ~Works(w) /\ ~RecordArtifact(w)
    <3>1. UNCHANGED store /\ UNCHANGED artifact
      BY <1>3, <2>3
      DEF Handle, Works, DownloadGate, DownloadRecord, ConvertGate, NormalizeGate,
          RenderGate, PublishNext, Ack, RecordFailure, Nack, tables
    <3> QED
      BY <3>1, GrowsSame
  <2> QED
    BY <2>1, <2>2, <2>3
<1>4. CASE Trouble
  BY <1>4, GrowsSame
  DEF Trouble, DeliverTwice, Take, Congestion, LeaseExpires, Crash, Raise, RecordingFails, tables
<1>5. CASE Retrying
  BY <1>5, GrowsSame
  DEF Retrying, ReplayPublish, ReplayCommit, ReplayRollback, DlqPublish, DlqAck, DlqCrash, tables
<1>6. CASE UNCHANGED vars
  BY <1>6, GrowsSame DEF vars, tables
<1> QED
  BY <1>1, <1>2, <1>3, <1>4, <1>5, <1>6 DEF Next

Gates(w) == DownloadGate(w) \/ ConvertGate(w) \/ NormalizeGate(w) \/ RenderGate(w)

(* A slot is where it was, or past the steps Honest speaks of, or it took  *)
(* a message, or it made one of its own first two steps.                   *)
SameJob(w) ==
  slot'[w].pc = slot[w].pc /\ slot'[w].msg = slot[w].msg /\ slot'[w].view = slot[w].view

Past == {"idle", "publish", "ack", "failed", "nack"}

(* How one slot may change in a step.                                      *)
LEMMA SlotStep ==
  ASSUME TypeOK, [Next]_vars, NEW w \in Workers
  PROVE  SameJob(w) \/ slot'[w].pc \in Past \/ (\E m \in queue : Take(w, m))
           \/ Gates(w) \/ Works(w)
<1>1. slot \in [Workers -> SlotType]
  BY DEF TypeOK, SlotsOK
<1>2. CASE UNCHANGED slot
  BY <1>2 DEF SameJob
<1>3. CASE Incoming \/ Retrying \/ UNCHANGED vars
  BY <1>2, <1>3
  DEF Incoming, Seed, SeedVariant, Submit, UploadBlob, UploadRow, UploadPublish, UploadLost,
      Retrying, ReplayPublish, ReplayCommit, ReplayRollback, DlqPublish, DlqAck, DlqCrash, vars
<1>4. ASSUME NEW v \in Workers, NEW m \in queue, Take(v, m)
      PROVE  SameJob(w) \/ Take(w, m)
  BY <1>1, <1>4 DEF Take, SameJob
<1>5. ASSUME NEW v \in Workers, LeaseExpires(v)
      PROVE  SameJob(w)
  BY <1>1, <1>5 DEF LeaseExpires, SameJob, SlotType
<1>6. ASSUME NEW v \in Workers, slot' = [slot EXCEPT ![v] = Idle]
      PROVE  SameJob(w) \/ slot'[w].pc \in Past
  BY <1>1, <1>6 DEF Idle, Past, SameJob
<1>7. ASSUME NEW v \in Workers, NEW p \in Past, MoveTo(v, p)
      PROVE  SameJob(w) \/ slot'[w].pc \in Past
  BY <1>1, <1>7 DEF MoveTo, SameJob, SlotType
<1>8. CASE Delivery \/ Trouble
  <2>1. {"failed", "nack"} \subseteq Past
    BY DEF Past
  <2> QED
    BY <1>2, <1>4, <1>5, <1>6, <1>7, <1>8, <2>1
    DEF Delivery, Deliver, Trouble, DeliverTwice, Congestion, Crash, Raise, RecordingFails
<1>9. ASSUME NEW v \in Workers, Handle(v)
      PROVE  SameJob(w) \/ slot'[w].pc \in Past \/ Gates(w) \/ Works(w)
  <2>1. CASE Gates(v) \/ Works(v)
    <3>1. CASE v = w
      BY <2>1, <3>1
    <3>2. CASE v # w
      <4>1. slot'[w] = slot[w]
        BY <1>1, <2>1, <3>2
        DEF Gates, Works, DownloadGate, ConvertGate, NormalizeGate, RenderGate, MoveTo,
            DownloadWork, ConvertWork, NormalizeWork, RenderWork
      <4> QED
        BY <4>1 DEF SameJob
    <3> QED
      BY <3>1, <3>2
  <2>2. CASE DownloadRecord(v) \/ RecordArtifact(v) \/ PublishNext(v) \/ RecordFailure(v)
    <3>1. \E p \in Past : MoveTo(v, p)
      BY <2>2 DEF DownloadRecord, RecordArtifact, PublishNext, RecordFailure, Past
    <3> QED
      BY <1>7, <3>1
  <2>3. CASE Ack(v) \/ Nack(v)
    BY <1>6, <2>3 DEF Ack, Nack
  <2> QED
    BY <1>9, <2>1, <2>2, <2>3 DEF Handle, Gates, Works
<1> QED
  BY <1>3, <1>8, <1>9 DEF Next

(* A complete view set stays complete.                                     *)
LEMMA ViewsStay ==
  ASSUME StoreOK', Grows, NEW a \in Arms, views[a] = Views
  PROVE  views'[a] = Views
BY DEF StoreOK, Grows

(* A slot that stays where it was is as honest as before.                  *)
LEMMA SameJobHonest ==
  ASSUME TypeOK, TypeOK', Grows, NEW w \in Workers, SameJob(w),
         RenderSoFar(w), BlobBeforeRow(w)
  PROVE  RenderSoFar(w)' /\ BlobBeforeRow(w)'
<1>1. CASE slot[w].pc \in Busy
  <2>1. Uid(w) \in Uids /\ Arm(w) \in Arms
    BY <1>1, BusyJob
  <2>2. JobOf(w)' = JobOf(w) /\ Uid(w)' = Uid(w) /\ Arm(w)' = Arm(w)
    BY DEF SameJob, JobOf, Uid, Arm, ArmOf
  <2>3. RenderSoFar(w)'
    BY <2>1, <2>2 DEF RenderSoFar, SameJob, At, Grows
  <2>4. BlobBeforeRow(w)'
    BY <2>1, <2>2, ViewsStay DEF BlobBeforeRow, SameJob, Grows, TypeOK
  <2> QED
    BY <2>3, <2>4
<1>2. CASE slot[w].pc \notin Busy
  <2>1. slot'[w].pc \notin {"gate", "work", "record"}
    BY <1>2 DEF SameJob, Busy, PCs
  <2> QED
    BY <2>1 DEF RenderSoFar, BlobBeforeRow, At
<1> QED
  BY <1>1, <1>2

(* A slot that passes its gate starts its work from the first view.        *)
LEMMA GatesHonest ==
  ASSUME TypeOK, NEW w \in Workers, Gates(w), RenderSoFar(w)
  PROVE  RenderSoFar(w)' /\ BlobBeforeRow(w)'
<1>1. slot[w].view = 0
  BY DEF Gates, DownloadGate, ConvertGate, NormalizeGate, RenderGate, At, RenderSoFar
<1>2. slot'[w].pc \in {"work", "publish", "ack"} /\ slot'[w].view = slot[w].view
  BY DEF Gates, DownloadGate, ConvertGate, NormalizeGate, RenderGate, MoveTo, TypeOK,
         SlotsOK, SlotType
<1>3. 0 < NumViews /\ 0 .. (0 - 1) = {}
  BY PipelineAssumption
<1> QED
  BY <1>1, <1>2, <1>3 DEF RenderSoFar, BlobBeforeRow, At

(* A render handler past its last view has stored all of them.             *)
LEMMA RenderComplete ==
  ASSUME TypeOK, NEW w \in Workers, RenderSoFar(w), RenderWork(w),
         slot'[w].pc \notin {"failed", "work"}
  PROVE  views'[Arm(w)] = Views
<1> DEFINE v == slot[w].view
<1>1. slot[w].pc \in Busy /\ slot[w] \in SlotType
  BY DEF RenderWork, At, Busy, PCs, TypeOK, SlotsOK
<1>2. Arm(w) \in Arms /\ views[Arm(w)] \subseteq Views
  BY <1>1, BusyJob DEF TypeOK, StoreOK
<1>3. v \in Nat /\ v < NumViews /\ 0 .. (v - 1) \subseteq views[Arm(w)]
  BY <1>1, PipelineAssumption DEF RenderWork, At, RenderSoFar, SlotType
<1>4. /\ views' = [views EXCEPT ![Arm(w)] = @ \cup {v}]
      /\ ~(v + 1 < NumViews)
  BY <1>1 DEF RenderWork, MoveTo, TypeOK, SlotsOK, SlotType
<1>5. Views = 0 .. v
  BY <1>3, <1>4, PipelineAssumption DEF Views
<1> QED
  BY <1>2, <1>3, <1>4, <1>5 DEF TypeOK, StoreOK

(* A slot that stored its output may record it.                            *)
LEMMA WorksHonest ==
  ASSUME TypeOK, NEW w \in Workers, Works(w), RenderSoFar(w)
  PROVE  RenderSoFar(w)' /\ BlobBeforeRow(w)'
<1>1. slot[w].pc \in Busy
  BY DEF Works, DownloadWork, ConvertWork, NormalizeWork, RenderWork, At, Busy, PCs
<1>2. /\ Uid(w) \in Uids /\ Arm(w) \in Arms /\ JobOf(w).stage \in Stages
  BY <1>1, BusyJob
<1>3. slot[w] \in SlotType
  BY DEF TypeOK, SlotsOK
<1>4. ASSUME slot'[w].msg = slot[w].msg
      PROVE  JobOf(w)' = JobOf(w) /\ Uid(w)' = Uid(w) /\ Arm(w)' = Arm(w)
  BY <1>4 DEF JobOf, Uid, Arm, ArmOf
<1>5. CASE DownloadWork(w) \/ ConvertWork(w) \/ NormalizeWork(w)
  <2>1. slot'[w].pc \in {"record", "publish", "failed"} /\ slot'[w].msg = slot[w].msg
    BY <1>3, <1>5
    DEF DownloadWork, ConvertWork, NormalizeWork, MoveTo, AfterBlob, TypeOK, SlotsOK, SlotType
  <2>2. RenderSoFar(w)'
    BY <2>1 DEF RenderSoFar, At
  <2>3. ASSUME slot'[w].pc = "record"
        PROVE  /\ JobOf(w).stage = Download => "glb" \in raw'[Uid(w)]
               /\ JobOf(w).stage # Download => JobOf(w).variant = Default
               /\ JobOf(w).stage = Convert => Arm(w) \in converted'
               /\ JobOf(w).stage = Normalize => Arm(w) \in normalized'
               /\ JobOf(w).stage # Render
    <3>1. CASE DownloadWork(w)
      BY <1>2, <1>3, <2>3, <3>1
      DEF DownloadWork, At, MoveTo, TypeOK, StoreOK, SlotsOK, SlotType, Download, Convert,
          Normalize, Render
    <3>2. CASE ConvertWork(w)
      BY <1>2, <1>3, <2>3, <3>2
      DEF ConvertWork, At, AfterBlob, MoveTo, TypeOK, SlotsOK, SlotType, Download, Convert,
          Normalize, Render
    <3>3. CASE NormalizeWork(w)
      BY <1>2, <1>3, <2>3, <3>3
      DEF NormalizeWork, At, AfterBlob, MoveTo, TypeOK, SlotsOK, SlotType, Download, Convert,
          Normalize, Render
    <3> QED
      BY <1>5, <3>1, <3>2, <3>3
  <2>4. BlobBeforeRow(w)'
    BY <1>4, <2>1, <2>3 DEF BlobBeforeRow
  <2> QED
    BY <2>2, <2>4
<1>6. CASE RenderWork(w)
  <2> DEFINE v == slot[w].view
  <2>1. /\ v \in Nat /\ v < NumViews /\ 0 .. (v - 1) \subseteq views[Arm(w)]
    BY <1>3, <1>6, PipelineAssumption DEF RenderWork, At, RenderSoFar, SlotType
  <2>3. CASE slot'[w].pc = "failed"
    BY <2>3 DEF RenderSoFar, BlobBeforeRow, At
  <2>4. CASE slot'[w].pc # "failed"
    <3>1. /\ views' = [views EXCEPT ![Arm(w)] = @ \cup {v}]
          /\ slot' = [slot EXCEPT ![w].view = v + 1,
                                  ![w].pc = IF v + 1 < NumViews THEN "work"
                                            ELSE AfterBlob(w, "ack")]
      BY <1>3, <1>6, <2>4 DEF RenderWork, MoveTo, TypeOK, SlotsOK, SlotType
    <3>2. /\ slot'[w].pc = IF v + 1 < NumViews THEN "work" ELSE AfterBlob(w, "ack")
          /\ slot'[w].view = v + 1 /\ slot'[w].msg = slot[w].msg
      BY <1>3, <3>1 DEF TypeOK, SlotsOK, SlotType
    <3>3. views'[Arm(w)] = views[Arm(w)] \cup {v}
      BY <1>2, <3>1 DEF TypeOK, StoreOK
    <3>4. 0 .. v \subseteq views'[Arm(w)]
      BY <2>1, <3>3
    <3>5. CASE v + 1 < NumViews
      <4>1. slot'[w].pc = "work" /\ (v + 1) - 1 = v
        BY <2>1, <3>2, <3>5
      <4>2. Arm(w)' = Arm(w)
        BY <1>4, <3>2
      <4>3. 0 .. (slot'[w].view - 1) \subseteq views'[Arm(w)]
        BY <3>2, <3>4, <4>1
      <4> QED
        BY <3>2, <3>5, <4>1, <4>2, <4>3 DEF RenderSoFar, BlobBeforeRow
    <3>6. CASE ~(v + 1 < NumViews)
      <4>1. slot'[w].pc = AfterBlob(w, "ack")
        BY <3>2, <3>6
      <4>2. views'[Arm(w)] = Views
        BY <1>6, <4>1, RenderComplete DEF AfterBlob
      <4>3. slot'[w].pc \in {"record", "ack"}
            /\ (slot'[w].pc = "record" => JobOf(w).variant = Default)
        BY <3>2, <3>6 DEF AfterBlob
      <4>4. JobOf(w).stage = Render
        BY <1>6 DEF RenderWork, At
      <4>5. BlobBeforeRow(w)'
        BY <1>4, <3>2, <4>2, <4>3, <4>4 DEF BlobBeforeRow, Download, Convert, Normalize, Render
      <4> QED
        BY <4>3, <4>5 DEF RenderSoFar, At
    <3> QED
      BY <3>5, <3>6
  <2> QED
    BY <2>3, <2>4
<1> QED
  BY <1>5, <1>6 DEF Works

(* Every slot is honest after every step.                                  *)
LEMMA SlotsHonest ==
  ASSUME TypeOK, TypeOK', Honest, [Next]_vars, NEW w \in Workers
  PROVE  RenderSoFar(w)' /\ BlobBeforeRow(w)'
<1>1. RenderSoFar(w) /\ BlobBeforeRow(w)
  BY DEF Honest
<1>2. CASE SameJob(w)
  BY <1>1, <1>2, SameJobHonest, StepGrows
<1>3. CASE slot'[w].pc \in Past
  BY <1>3 DEF RenderSoFar, BlobBeforeRow, At, Past
<1>4. ASSUME NEW m \in queue, Take(w, m)
      PROVE  RenderSoFar(w)' /\ BlobBeforeRow(w)'
  <2>1. slot'[w].pc = "gate" /\ slot'[w].view = 0
    BY <1>4 DEF Take, TypeOK, SlotsOK
  <2> QED
    BY <2>1 DEF RenderSoFar, BlobBeforeRow, At
<1> QED
  BY <1>1, <1>2, <1>3, <1>4, GatesHonest, WorksHonest, SlotStep

(* An upload past its first step keeps its blob.                           *)
LEMMA UploadsStoredStep ==
  ASSUME TypeOK, UploadsStored, [Next]_vars
  PROVE  UploadsStored'
<1>1. Grows
  BY StepGrows
<1>2. CASE UNCHANGED upload
  BY <1>1, <1>2, PipelineAssumption DEF UploadsStored, Grows, Uids
<1>3. ASSUME NEW u \in Uploads, UploadBlob(u)
      PROVE  UploadsStored'
  <2>1. u \in Uids /\ UploadSuffix[u] \in raw'[u]
    BY <1>3 DEF UploadBlob, TypeOK, StoreOK, Uids
  <2> QED
    BY <1>1, <1>3, <2>1 DEF UploadBlob, UploadsStored, TypeOK, OutsideOK, Grows, Uids
<1>4. ASSUME NEW u \in Uploads, UploadRow(u) \/ UploadPublish(u) \/ UploadLost(u)
      PROVE  UploadsStored'
  <2>1. PICK p \in {"row", "queued", "lost"} : upload' = [upload EXCEPT ![u] = p]
    BY <1>4 DEF UploadRow, UploadPublish, UploadLost
  <2> QED
    BY <1>1, <2>1 DEF UploadsStored, TypeOK, OutsideOK, Grows, Uids
<1>5. CASE Incoming
  BY <1>2, <1>3, <1>4, <1>5 DEF Incoming, Seed, SeedVariant, Submit
<1>6. CASE Delivery \/ (\E w \in Workers : Handle(w)) \/ Trouble \/ Retrying \/ UNCHANGED vars
  <2>1. UNCHANGED upload
    BY <1>6
    DEF Delivery, Deliver, Take, Handle, DownloadGate, DownloadWork, DownloadRecord, ConvertGate,
        ConvertWork, NormalizeGate, NormalizeWork, RenderGate, RenderWork, RecordArtifact,
        PublishNext, Ack, RecordFailure, Nack, Trouble, DeliverTwice, Congestion, LeaseExpires,
        Crash, Raise, RecordingFails, Retrying, ReplayPublish, ReplayCommit, ReplayRollback,
        DlqPublish, DlqAck, DlqCrash, outside, vars
  <2> QED
    BY <1>2, <2>1
<1> QED
  BY <1>5, <1>6 DEF Next

(* While the rows stay, what they claim stays stored.                      *)
LEMMA RowsSame ==
  ASSUME TypeOK, TypeOK', Grows, DoneMeansStored, UNCHANGED <<model, artifact>>
  PROVE  DoneMeansStored'
<1>1. ASSUME NEW u \in Uids
      PROVE  <<u, Default>> \in Arms
  BY DEF Arms, Variants
<1>2. ASSUME NEW u \in Uids, views[<<u, Default>>] = Views
      PROVE  views'[<<u, Default>>] = Views
  BY <1>1, <1>2, ViewsStay DEF TypeOK
<1> QED
  BY <1>2 DEF DoneMeansStored, Grows

(* A row is written only over what is stored.                              *)
LEMMA DoneMeansStoredStep ==
  ASSUME TypeOK, TypeOK', Honest, [Next]_vars
  PROVE  DoneMeansStored'
<1>1. Grows /\ DoneMeansStored
  BY StepGrows DEF Honest
<1>2. CASE UNCHANGED <<model, artifact>>
  BY <1>1, <1>2, RowsSame
<1>3. ASSUME NEW u \in Uploads, UploadRow(u)
      PROVE  DoneMeansStored'
  <2>1. UploadSuffix[u] \in raw[u] /\ u \in Uids
    BY <1>3 DEF UploadRow, Honest, UploadsStored, Uids
  <2>2. UNCHANGED <<raw, converted, normalized, views, artifact>>
    BY <1>3 DEF UploadRow, store
  <2>3. model' = [model EXCEPT ![u] = UploadSuffix[u]]
    BY <1>3 DEF UploadRow
  <2> QED
    BY <1>1, <2>1, <2>2, <2>3 DEF DoneMeansStored, TypeOK, TablesOK
<1>4. ASSUME NEW w \in Workers, DownloadRecord(w)
      PROVE  DoneMeansStored'
  <2>1. "glb" \in raw[Uid(w)]
    BY <1>4 DEF DownloadRecord, At, Honest, BlobBeforeRow
  <2>2. UNCHANGED <<raw, converted, normalized, views, artifact>>
    BY <1>4 DEF DownloadRecord, store
  <2>3. model' = [model EXCEPT ![Uid(w)] = "glb"]
    BY <1>4 DEF DownloadRecord
  <2> QED
    BY <1>1, <2>1, <2>2, <2>3 DEF DoneMeansStored, TypeOK, TablesOK
<1>5. ASSUME NEW w \in Workers, RecordArtifact(w)
      PROVE  DoneMeansStored'
  <2>1. CASE UNCHANGED artifact
    BY <1>2, <1>5, <2>1 DEF RecordArtifact
  <2>2. CASE artifact' = artifact \cup {<<Uid(w), JobOf(w).stage>>}
    <3>1. slot[w].pc = "record" /\ slot[w].pc \in Busy /\ JobOf(w).stage # Download
      BY <1>5 DEF RecordArtifact, Busy, PCs
    <3>2. Uid(w) \in Uids /\ Arm(w) = <<Uid(w), Default>>
      BY <3>1, BusyJob DEF Honest, BlobBeforeRow, Arm, ArmOf, Uid
    <3>3. UNCHANGED <<raw, converted, normalized, views, model>>
      BY <1>5 DEF RecordArtifact, store
    <3>4. ASSUME NEW u \in Uids
          PROVE  /\ <<u, Convert>> \in artifact' => <<u, Default>> \in converted
                 /\ <<u, Normalize>> \in artifact' => <<u, Default>> \in normalized
                 /\ <<u, Render>> \in artifact' => views[<<u, Default>>] = Views
      <4>1. BlobBeforeRow(w)
        BY DEF Honest
      <4> QED
        BY <1>1, <2>2, <3>1, <3>2, <4>1 DEF DoneMeansStored, BlobBeforeRow
    <3> QED
      BY <1>1, <3>3, <3>4 DEF DoneMeansStored
  <2> QED
    BY <1>5, <2>1, <2>2 DEF RecordArtifact
<1>6. CASE Incoming
  BY <1>2, <1>3, <1>6
  DEF Incoming, Seed, SeedVariant, Submit, UploadBlob, UploadPublish, UploadLost, tables
<1>7. CASE \E w \in Workers : Handle(w)
  BY <1>2, <1>4, <1>5, <1>7
  DEF Handle, DownloadGate, DownloadWork, ConvertGate, ConvertWork, NormalizeGate, NormalizeWork,
      RenderGate, RenderWork, PublishNext, Ack, RecordFailure, Nack, tables
<1>8. CASE Delivery \/ Trouble \/ Retrying \/ UNCHANGED vars
  BY <1>2, <1>8
  DEF Delivery, Deliver, Take, Trouble, DeliverTwice, Congestion, LeaseExpires, Crash, Raise,
      RecordingFails, Retrying, ReplayPublish, ReplayCommit, ReplayRollback, DlqPublish, DlqAck,
      DlqCrash, tables, vars
<1> QED
  BY <1>6, <1>7, <1>8 DEF Next

(* With no rows and no busy slots there is nothing to be honest about.     *)
LEMMA HonestInit == Init => Honest
BY DEF Init, Honest, RenderSoFar, BlobBeforeRow, UploadsStored, DoneMeansStored, Idle, At

(* Every step keeps Honest.                                                *)
LEMMA HonestStep ==
  ASSUME TypeOK, TypeOK', Honest, [Next]_vars
  PROVE  Honest'
<1>1. UploadsStored'
  BY UploadsStoredStep DEF Honest
<1>2. DoneMeansStored'
  BY DoneMeansStoredStep
<1>3. \A w \in Workers : RenderSoFar(w)' /\ BlobBeforeRow(w)'
  BY SlotsHonest
<1> QED
  BY <1>1, <1>2, <1>3 DEF Honest

-----------------------------------------------------------------------------
(* The theorems of Honest.                                                 *)

(* The pipeline's state is of its type: in particular replay_dlq's batch   *)
(* is never more than what is still waiting on the dead-letter topics.     *)
THEOREM TypeCorrect == Spec => []TypeOK
<1>1. Init => TypeOK /\ Honest
  BY TypeInit, HonestInit
<1>2. TypeOK /\ Honest /\ [Next]_vars => (TypeOK /\ Honest)'
  BY TypeStep, HonestStep
<1> QED
  BY <1>1, <1>2, PTL DEF Spec

(* No row runs ahead of storage, whatever crashes between the put of a     *)
(* blob and the transaction that records it: what training relies on when  *)
(* it reads every view of a model that has a render row.                   *)
THEOREM RowsAreBacked == Spec => []DoneMeansStored
<1>1. Init => TypeOK /\ Honest
  BY TypeInit, HonestInit
<1>2. TypeOK /\ Honest /\ [Next]_vars => (TypeOK /\ Honest)'
  BY TypeStep, HonestStep
<1>3. Honest => DoneMeansStored
  BY DEF Honest
<1> QED
  BY <1>1, <1>2, <1>3, PTL DEF Spec

-----------------------------------------------------------------------------
(* Handed: a job leaves the pipeline only for the next stage's.            *)

(* The live jobs are the held and the dead-lettered ones, all of them jobs. *)
LEMMA JobsAreJobs ==
  ASSUME TypeOK
  PROVE  /\ Held \subseteq Job
         /\ Live = Held \cup dlq
         /\ Live \subseteq Job
<1>1. Held \subseteq Job
  <2>1. \A m \in queue : m.job \in Job
    BY DEF TypeOK, PubsubOK, Message
  <2>2. \A w \in Workers : slot[w].leased => JobOf(w) \in Job
    BY BusyJob DEF TypeOK, SlotsOK
  <2> QED
    BY <2>1, <2>2 DEF Held
<1>2. Live = Held \cup dlq
  BY DEF Live, Held
<1> QED
  BY <1>1, <1>2 DEF TypeOK, PubsubOK

(* A queue that only grows and leases that stay keep every held job.       *)
LEMMA HeldKept ==
  ASSUME queue \subseteq queue',
         \A w \in Workers :
           slot[w].leased => slot'[w].leased /\ slot'[w].msg = slot[w].msg
  PROVE  Held \subseteq Held'
BY DEF Held, JobOf

(* A failed delivery leaves the job waiting, or newly dead-lettered.       *)
LEMMA RedeliverKeeps ==
  ASSUME NEW m \in Message, NEW waiting, Redeliver(m, waiting)
  PROVE  /\ waiting \subseteq queue'
         /\ dlq \subseteq dlq'
         /\ draining' \subseteq draining
         /\ (\E n \in queue' : n.job = m.job) \/ (m.job \in dlq' /\ m.job \notin draining')
<1>1. CASE m.attempt < MaxAttempts
  <2>1. [m EXCEPT !.attempt = @ + 1].job = m.job
    BY DEF Message
  <2> QED
    BY <1>1, <2>1 DEF Redeliver
<1>2. CASE ~(m.attempt < MaxAttempts)
  BY <1>2 DEF Redeliver
<1> QED
  BY <1>1, <1>2

(* A job that is held stays held, or is newly dead-lettered, or was acked. *)
Kept(j) == j \in Held' \/ (j \in dlq' /\ j \notin draining')

(* A delivered message passes from the queue to the lease of its slot.     *)
LEMMA TakeKeeps ==
  ASSUME TypeOK, NEW w \in Workers, NEW m \in queue, Take(w, m), queue \ {m} \subseteq queue'
  PROVE  Held \subseteq Held'
<1>1. ~slot[w].leased
  BY DEF Take, TypeOK, SlotsOK, Busy
<1>2. slot'[w].leased /\ slot'[w].msg = m
  BY DEF Take, TypeOK, SlotsOK
<1>3. \A x \in Workers : slot[x].leased => slot'[x] = slot[x]
  BY <1>1 DEF Take, TypeOK, SlotsOK
<1>4. ASSUME NEW n \in queue
      PROVE  n.job \in Held'
  BY <1>2 DEF Held, JobOf
<1>5. ASSUME NEW x \in Workers, slot[x].leased
      PROVE  JobOf(x) \in Held'
  <2>1. slot'[x] = slot[x] /\ JobOf(x)' = JobOf(x)
    BY <1>3, <1>5 DEF JobOf
  <2> QED
    BY <1>5, <2>1 DEF Held
<1> QED
  BY <1>4, <1>5 DEF Held

(* What holds of every other job when slot w gives its message back.       *)
LEMMA ReturnKeeps ==
  ASSUME TypeOK, NEW w \in Workers, slot[w].pc \in Busy,
         IF slot[w].leased THEN Redeliver(slot[w].msg, queue) ELSE UNCHANGED pubsub,
         \A x \in Workers \ {w} : slot'[x] = slot[x]
  PROVE  \A j \in Held : Kept(j)
<1>1. slot[w].msg \in Message
  BY BusyJob
<1>2. queue \subseteq queue'
  BY <1>1, RedeliverKeeps DEF pubsub
<1>3. \A m \in queue : m.job \in Held'
  BY <1>2 DEF Held
<1>4. ASSUME NEW x \in Workers \ {w}, slot[x].leased
      PROVE  JobOf(x) \in Held'
  <2>1. slot'[x] = slot[x] /\ JobOf(x)' = JobOf(x)
    BY DEF JobOf
  <2> QED
    BY <1>4, <2>1 DEF Held
<1>5. ASSUME slot[w].leased
      PROVE  Kept(JobOf(w))
  <2>1. Redeliver(slot[w].msg, queue)
    BY <1>5
  <2>2. \/ \E n \in queue' : n.job = JobOf(w)
        \/ JobOf(w) \in dlq' /\ JobOf(w) \notin draining'
    BY <1>1, <2>1, RedeliverKeeps DEF JobOf
  <2> QED
    BY <2>2 DEF Kept, Held
<1> QED
  BY <1>3, <1>4, <1>5 DEF Held, Kept

(* A held job is kept by every step but its acknowledgement.               *)
LEMMA HeldStep ==
  ASSUME TypeOK, [Next]_vars, NEW j \in Held
  PROVE  Kept(j) \/ (\E w \in Workers : Ack(w) /\ JobOf(w) = j)
<1>1. slot \in [Workers -> SlotType]
  BY DEF TypeOK, SlotsOK
<1>2. CASE queue \subseteq queue' /\ UNCHANGED slot
  BY <1>2, HeldKept DEF Kept
<1>3. CASE Incoming
  BY <1>2, <1>3
  DEF Incoming, Seed, SeedVariant, Submit, UploadBlob, UploadRow, UploadPublish, UploadLost, pubsub
<1>4. CASE Retrying \/ UNCHANGED vars
  BY <1>2, <1>4
  DEF Retrying, ReplayPublish, ReplayCommit, ReplayRollback, DlqPublish, DlqAck, DlqCrash, vars,
      pubsub
<1>5. ASSUME NEW w \in Workers, NEW m \in queue, Deliver(w, m) \/ DeliverTwice(w, m)
      PROVE  Kept(j)
  BY <1>5, TakeKeeps DEF Deliver, DeliverTwice, Kept
<1>6. ASSUME NEW m \in queue, Congestion(m)
      PROVE  Kept(j)
  <2>1. m \in Message
    BY DEF TypeOK, PubsubOK
  <2>2. /\ queue \ {m} \subseteq queue'
        /\ (\E n \in queue' : n.job = m.job) \/ (m.job \in dlq' /\ m.job \notin draining')
    BY <1>6, <2>1, RedeliverKeeps DEF Congestion
  <2>3. UNCHANGED slot
    BY <1>6 DEF Congestion
  <2> QED
    BY <2>2, <2>3 DEF Held, Kept, JobOf
<1>7. ASSUME NEW w \in Workers, LeaseExpires(w)
      PROVE  Kept(j)
  <2>1. slot[w].pc \in Busy
    BY <1>7 DEF LeaseExpires, TypeOK, SlotsOK
  <2>2. \A x \in Workers \ {w} : slot'[x] = slot[x]
    BY <1>1, <1>7 DEF LeaseExpires
  <2> QED
    BY <1>7, <2>1, <2>2, ReturnKeeps DEF LeaseExpires
<1>8. ASSUME NEW w \in Workers, Crash(w) \/ Nack(w)
      PROVE  Kept(j)
  <2>1. slot[w].pc \in Busy
    BY <1>8 DEF Crash, Nack, Busy, PCs
  <2>2. \A x \in Workers \ {w} : slot'[x] = slot[x]
    BY <1>1, <1>8 DEF Crash, Nack
  <2> QED
    BY <1>8, <2>1, <2>2, ReturnKeeps DEF Crash, Nack
<1>9. ASSUME queue \subseteq queue', NEW w \in Workers, slot'[w].leased = slot[w].leased,
             slot'[w].msg = slot[w].msg, \A x \in Workers \ {w} : slot'[x] = slot[x]
      PROVE  Kept(j)
  BY <1>9, HeldKept DEF Kept
<1>10. ASSUME NEW w \in Workers, NEW p, MoveTo(w, p), queue \subseteq queue'
       PROVE  Kept(j)
  BY <1>1, <1>9, <1>10 DEF MoveTo, SlotType
<1>11. ASSUME NEW w \in Workers, Ack(w)
       PROVE  Kept(j) \/ JobOf(w) = j
  <2>1. \A x \in Workers \ {w} : slot'[x] = slot[x] /\ JobOf(x)' = JobOf(x)
    BY <1>1, <1>11 DEF Ack, JobOf
  <2>2. UNCHANGED queue
    BY <1>11 DEF Ack, pubsub
  <2> QED
    BY <2>1, <2>2 DEF Held, Kept
<1>12. ASSUME NEW w \in Workers, Handle(w)
       PROVE  Kept(j) \/ (Ack(w) /\ JobOf(w) = j)
  <2>1. CASE Ack(w) \/ Nack(w)
    BY <1>8, <1>11, <2>1
  <2>2. CASE ConvertGate(w) \/ RenderWork(w)
    <3>1. /\ slot'[w].leased = slot[w].leased /\ slot'[w].msg = slot[w].msg
          /\ \A x \in Workers \ {w} : slot'[x] = slot[x]
      BY <1>1, <2>2 DEF ConvertGate, RenderWork, MoveTo, SlotType
    <3>2. UNCHANGED queue
      BY <2>2 DEF ConvertGate, RenderWork, pubsub
    <3> QED
      BY <1>9, <3>1, <3>2
  <2>3. CASE ~Ack(w) /\ ~Nack(w) /\ ~ConvertGate(w) /\ ~RenderWork(w)
    <3>1. (\E p : MoveTo(w, p)) /\ queue \subseteq queue'
      BY <1>12, <2>3
      DEF Handle, DownloadGate, DownloadWork, DownloadRecord, ConvertWork, NormalizeGate,
          NormalizeWork, RenderGate, RecordArtifact, PublishNext, RecordFailure, pubsub
    <3> QED
      BY <1>10, <3>1
  <2> QED
    BY <2>1, <2>2, <2>3
<1>13. CASE Trouble
  <2>1. ASSUME NEW w \in Workers, Raise(w) \/ RecordingFails(w)
        PROVE  Kept(j)
    BY <1>10, <2>1 DEF Raise, RecordingFails, pubsub
  <2> QED
    BY <1>5, <1>6, <1>7, <1>8, <1>13, <2>1 DEF Trouble
<1> QED
  BY <1>3, <1>4, <1>5, <1>12, <1>13 DEF Next, Delivery

(* A rendered arm stays rendered.                                          *)
LEMMA RenderedStays ==
  ASSUME TypeOK', Grows, NEW a \in Arms, Rendered(a)
  PROVE  Rendered(a)'
BY ViewsStay DEF Rendered, Grows, TypeOK

(* Acknowledging one job leaves every other where it is.                   *)
LEMMA AckKeepsOthers ==
  ASSUME TypeOK, NEW w \in Workers, Ack(w), NEW k \in Live, k # JobOf(w)
  PROVE  k \in Live'
<1>1. slot \in [Workers -> SlotType]
  BY DEF TypeOK, SlotsOK
<1>2. \A x \in Workers \ {w} : slot'[x] = slot[x] /\ JobOf(x)' = JobOf(x)
  BY <1>1 DEF Ack, JobOf
<1>3. UNCHANGED <<queue, dlq>>
  BY DEF Ack, pubsub
<1> QED
  BY <1>2, <1>3 DEF Live

(* replay_dlq's acknowledgement touches its batch on the dead-letter       *)
(* topics and nothing else.                                                *)
LEMMA DlqAckKeepsOthers ==
  ASSUME TypeOK, DlqAck, NEW k \in Live, k \in Held \/ k \notin draining
  PROVE  k \in Live'
<1>1. UNCHANGED <<queue, slot>> /\ dlq' = dlq \ draining
  BY DEF DlqAck
<1>2. UNCHANGED Held
  BY <1>1 DEF Held, JobOf
<1>3. Live = Held \cup dlq /\ Live' = Held' \cup dlq'
  BY DEF Live, Held
<1> QED
  BY <1>1, <1>2, <1>3

(* Only replay_dlq's acknowledgement takes a job off a dead-letter topic.  *)
LEMMA DlqStep ==
  ASSUME TypeOK, [Next]_vars, ~DlqAck
  PROVE  dlq \subseteq dlq'
<1>1. CASE Incoming
  BY <1>1
  DEF Incoming, Seed, SeedVariant, Submit, UploadBlob, UploadRow, UploadPublish, UploadLost, pubsub
<1>2. CASE Delivery
  BY <1>2 DEF Delivery, Deliver, Take
<1>3. ASSUME NEW w \in Workers, Handle(w)
      PROVE  dlq \subseteq dlq'
  <2>1. CASE Nack(w)
    <3>1. slot[w].msg \in Message
      BY <2>1, BusyJob DEF Nack, Busy, PCs
    <3> QED
      BY <2>1, <3>1, RedeliverKeeps DEF Nack, pubsub
  <2>2. CASE ~Nack(w)
    BY <1>3, <2>2
    DEF Handle, DownloadGate, DownloadWork, DownloadRecord, ConvertGate, ConvertWork,
        NormalizeGate, NormalizeWork, RenderGate, RenderWork, RecordArtifact, PublishNext, Ack,
        RecordFailure, pubsub
  <2> QED
    BY <2>1, <2>2
<1>4. CASE Trouble
  <2>1. ASSUME NEW m \in queue, Congestion(m)
        PROVE  dlq \subseteq dlq'
    BY <2>1, RedeliverKeeps DEF Congestion, TypeOK, PubsubOK
  <2>2. ASSUME NEW w \in Workers, LeaseExpires(w) \/ Crash(w)
        PROVE  dlq \subseteq dlq'
    <3>1. slot[w].msg \in Message
      BY <2>2, BusyJob DEF LeaseExpires, Crash, TypeOK, SlotsOK
    <3> QED
      BY <2>2, <3>1, RedeliverKeeps DEF LeaseExpires, Crash, pubsub
  <2> QED
    BY <1>4, <2>1, <2>2 DEF Trouble, DeliverTwice, Take, Raise, RecordingFails, pubsub
<1>5. CASE Retrying \/ UNCHANGED vars
  BY <1>5
  DEF Retrying, ReplayPublish, ReplayCommit, ReplayRollback, DlqPublish, DlqCrash, vars, pubsub
<1> QED
  BY <1>1, <1>2, <1>3, <1>4, <1>5 DEF Next

(* The heart of the argument: what is accounted for stays accounted for.   *)
LEMMA AccountedStays ==
  ASSUME TypeOK, TypeOK', Handed, [Next]_vars, NEW a \in Arms, NEW s \in Nat, Accounted(a, s)
  PROVE  Accounted(a, s)'
<1>1. Grows
  BY StepGrows
<1>2. CASE Rendered(a)
  BY <1>1, <1>2, RenderedStays DEF Accounted
<1>3. CASE ~Rendered(a)
  <2>1. PICK j \in Live : ArmOf(j) = a /\ j.stage >= s
    BY <1>3 DEF Accounted
  <2>2. j \in Job /\ j.stage \in Nat
    BY JobsAreJobs DEF Job, Stages, Download, Render
  <2>3. ASSUME j \in Live'
        PROVE  Accounted(a, s)'
    BY <2>1, <2>3 DEF Accounted
  <2>4. ASSUME HandedOn(j)
        PROVE  \E k \in Live : ArmOf(k) = a /\ k.stage \in Nat /\ k.stage > j.stage
    <3>1. PICK k \in Live : ArmOf(k) = a /\ k.stage >= j.stage + 1
      BY <1>3, <2>1, <2>4 DEF HandedOn, Accounted
    <3>2. k.stage \in Nat
      BY JobsAreJobs DEF Job, Stages, Download, Render
    <3> QED
      BY <2>2, <3>1, <3>2
  <2>5. ASSUME NEW w \in Workers, Ack(w), JobOf(w) = j
        PROVE  Accounted(a, s)'
    <3>1. HandedOn(j)
      BY <2>5 DEF Ack, Handed
    <3>2. PICK k \in Live : ArmOf(k) = a /\ k.stage \in Nat /\ k.stage > j.stage
      BY <2>4, <3>1
    <3>3. k \in Live'
      BY <2>2, <2>5, <3>2, AckKeepsOthers
    <3> QED
      BY <2>1, <2>2, <3>2, <3>3 DEF Accounted
  <2>6. CASE DlqAck
    <3>1. CASE j \in Held \/ j \notin draining
      BY <2>3, <2>6, <3>1, DlqAckKeepsOthers
    <3>2. CASE j \notin Held /\ j \in draining
      <4>1. HandedOn(j)
        BY <3>2 DEF Handed
      <4>2. PICK k \in Live : ArmOf(k) = a /\ k.stage \in Nat /\ k.stage > j.stage
        BY <2>4, <4>1
      <4>3. k \notin draining
        BY <2>2, <3>2, <4>2 DEF TypeOK, PubsubOK
      <4>4. k \in Live'
        BY <2>6, <4>2, <4>3, DlqAckKeepsOthers
      <4> QED
        BY <2>1, <2>2, <4>2, <4>4 DEF Accounted
    <3> QED
      BY <3>1, <3>2
  <2>7. CASE ~DlqAck
    <3>1. Live' = Held' \cup dlq'
      BY DEF Live, Held
    <3>2. CASE j \in dlq
      BY <2>3, <2>7, <3>1, <3>2, DlqStep
    <3>3. CASE j \in Held
      BY <2>3, <2>5, <3>1, <3>3, HeldStep DEF Kept
    <3> QED
      BY <3>2, <3>3, JobsAreJobs
  <2> QED
    BY <2>6, <2>7
<1> QED
  BY <1>2, <1>3

(* The steps that bring a slot to its acknowledgement.                     *)
ToAck(w) == RenderGate(w) \/ RenderWork(w) \/ RecordArtifact(w) \/ PublishNext(w)

(* A slot at its acknowledgement was there before or has just come.        *)
LEMMA AckStep ==
  ASSUME TypeOK, [Next]_vars, NEW w \in Workers, slot'[w].pc = "ack"
  PROVE  (SameJob(w) /\ slot[w].pc = "ack") \/ ToAck(w)
<1>1. slot \in [Workers -> SlotType]
  BY DEF TypeOK, SlotsOK
<1>2. CASE slot'[w] = slot[w]
  BY <1>2 DEF SameJob
<1>3. CASE Incoming \/ Retrying \/ UNCHANGED vars
  <2>1. UNCHANGED slot
    BY <1>3
    DEF Incoming, Seed, SeedVariant, Submit, UploadBlob, UploadRow, UploadPublish, UploadLost,
        Retrying, ReplayPublish, ReplayCommit, ReplayRollback, DlqPublish, DlqAck, DlqCrash, vars
  <2> QED
    BY <1>2, <2>1
<1>4. ASSUME NEW v \in Workers, NEW m \in queue, Take(v, m)
      PROVE  slot'[w] = slot[w]
  BY <1>1, <1>4 DEF Take
<1>5. ASSUME NEW v \in Workers, LeaseExpires(v)
      PROVE  SameJob(w)
  BY <1>1, <1>5 DEF LeaseExpires, SameJob, SlotType
<1>6. ASSUME NEW v \in Workers, slot' = [slot EXCEPT ![v] = Idle]
      PROVE  slot'[w] = slot[w]
  BY <1>1, <1>6 DEF Idle
<1>7. ASSUME NEW v \in Workers, NEW p, MoveTo(v, p), p # "ack"
      PROVE  slot'[w] = slot[w]
  BY <1>1, <1>7 DEF MoveTo, SlotType
<1>8. CASE Delivery \/ Trouble
  BY <1>2, <1>4, <1>5, <1>6, <1>7, <1>8
  DEF Delivery, Deliver, Trouble, DeliverTwice, Congestion, Crash, Raise, RecordingFails, SameJob
<1>9. ASSUME NEW v \in Workers, Handle(v)
      PROVE  slot'[w] = slot[w] \/ ToAck(w)
  <2>1. CASE ToAck(v)
    <3>1. CASE v # w
      BY <1>1, <2>1, <3>1
      DEF ToAck, RenderGate, RenderWork, RecordArtifact, PublishNext, MoveTo
    <3> QED
      BY <2>1, <3>1
  <2>2. CASE ConvertGate(v)
    BY <1>1, <2>2 DEF ConvertGate, SlotType
  <2>3. CASE Ack(v) \/ Nack(v)
    BY <1>6, <2>3 DEF Ack, Nack
  <2>4. CASE \/ DownloadGate(v) \/ DownloadWork(v) \/ DownloadRecord(v) \/ ConvertWork(v)
             \/ NormalizeGate(v) \/ NormalizeWork(v) \/ RecordFailure(v)
    <3>1. \E p : MoveTo(v, p) /\ p # "ack"
      BY <2>4
      DEF DownloadGate, DownloadWork, DownloadRecord, ConvertWork, NormalizeGate,
          NormalizeWork, RecordFailure, AfterBlob
    <3> QED
      BY <1>7, <3>1
  <2> QED
    BY <1>9, <2>1, <2>2, <2>3, <2>4 DEF Handle, ToAck
<1> QED
  BY <1>2, <1>3, <1>8, <1>9 DEF Next

(* A slot comes to its acknowledgement only with its job handed on.        *)
LEMMA AckHandedOn ==
  ASSUME TypeOK, TypeOK', Honest, Handed, [Next]_vars, NEW w \in Workers, slot'[w].pc = "ack"
  PROVE  HandedOn(JobOf(w))'
<1>1. Grows
  BY StepGrows
<1>2. ASSUME slot[w].pc \in Busy
      PROVE  /\ JobOf(w) \in Job /\ Arm(w) \in Arms /\ Arm(w) = <<Uid(w), JobOf(w).variant>>
             /\ Uid(w) \in Uids /\ JobOf(w).stage \in Stages /\ JobOf(w).stage + 1 \in Nat
  BY <1>2, BusyJob DEF Arm, ArmOf, Uid, Stages, Download, Render
<1>3. ASSUME slot'[w].msg = slot[w].msg, Accounted(Arm(w), JobOf(w).stage + 1)'
      PROVE  HandedOn(JobOf(w))'
  BY <1>3 DEF HandedOn, JobOf, Arm
<1>4. ASSUME slot'[w].msg = slot[w].msg, Rendered(Arm(w))'
      PROVE  HandedOn(JobOf(w))'
  BY <1>3, <1>4 DEF Accounted
<1>5. CASE SameJob(w) /\ slot[w].pc = "ack"
  <2>1. Accounted(Arm(w), JobOf(w).stage + 1)
    BY <1>5 DEF Handed, HandedOn, Arm
  <2>2. slot[w].pc \in Busy
    BY <1>5 DEF Busy, PCs
  <2>3. JobOf(w)' = JobOf(w) /\ Arm(w)' = Arm(w)
    BY <1>5 DEF SameJob, JobOf, Arm, ArmOf
  <2>4. PICK a \in Arms, s \in Nat : a = Arm(w) /\ s = JobOf(w).stage + 1
    BY <1>2, <2>2
  <2>5. Accounted(a, s)'
    BY <2>1, <2>4, AccountedStays
  <2> QED
    BY <2>3, <2>4, <2>5 DEF HandedOn, Arm
<1>6. CASE ToAck(w)
  <2>1. slot[w].pc \in Busy
    BY <1>6 DEF ToAck, RenderGate, RenderWork, RecordArtifact, PublishNext, At, Busy, PCs
  <2>2. slot'[w].msg = slot[w].msg
    BY <1>6
    DEF ToAck, RenderGate, RenderWork, RecordArtifact, PublishNext, MoveTo, TypeOK, SlotsOK, SlotType
  <2>3. JobOf(w)' = JobOf(w) /\ Arm(w)' = Arm(w)
    BY <2>2 DEF JobOf, Arm, ArmOf
  <2>4. ASSUME views'[Arm(w)] = Views,
               JobOf(w).variant = Default => <<Uid(w), Render>> \in artifact'
        PROVE  HandedOn(JobOf(w))'
    BY <1>2, <2>1, <2>3, <2>4 DEF HandedOn, Accounted, Rendered, Arm, ArmOf, Uid
  <2>5. CASE RenderGate(w)
    <3>1. /\ views[Arm(w)] = Views
          /\ JobOf(w).variant = Default => <<Uid(w), Render>> \in artifact
      BY <2>5 DEF RenderGate, MoveTo, ArtifactDone, TypeOK, SlotsOK, SlotType
    <3>2. UNCHANGED <<views, artifact>>
      BY <2>5 DEF RenderGate, store, tables
    <3> QED
      BY <2>4, <3>1, <3>2
  <2>6. CASE RenderWork(w)
    <3>1. views'[Arm(w)] = Views
      BY <2>6, RenderComplete DEF Honest
    <3>2. JobOf(w).variant # Default
      BY <2>6 DEF RenderWork, AfterBlob, MoveTo, TypeOK, SlotsOK, SlotType
    <3> QED
      BY <2>4, <3>1, <3>2
  <2>7. CASE RecordArtifact(w)
    <3>1. JobOf(w).stage = Render /\ <<Uid(w), Render>> \in artifact'
      BY <2>7 DEF RecordArtifact, MoveTo, TypeOK, SlotsOK, SlotType
    <3>2. views[Arm(w)] = Views
      BY <2>7, <3>1 DEF RecordArtifact, Honest, BlobBeforeRow
    <3>3. UNCHANGED views
      BY <2>7 DEF RecordArtifact, store
    <3> QED
      BY <2>4, <3>1, <3>2, <3>3
  <2>8. CASE PublishNext(w)
    <3> DEFINE j == JobFor(Arm(w), JobOf(w).stage + 1)
    <3>1. Fresh(j) \in queue'
      BY <2>8 DEF PublishNext
    <3>2. j \in Live'
      BY <3>1 DEF Live, Fresh
    <3>3. ArmOf(j) = Arm(w) /\ j.stage = JobOf(w).stage + 1
      BY <1>2, <2>1 DEF JobFor, ArmOf, Uid
    <3>4. j.stage >= JobOf(w).stage + 1
      BY <1>2, <2>1, <3>3
    <3>5. \E k \in Live' : ArmOf(k) = Arm(w) /\ k.stage >= JobOf(w).stage + 1
      BY <3>2, <3>3, <3>4
    <3> QED
      BY <2>3, <3>5 DEF HandedOn, Accounted, Arm
  <2> QED
    BY <1>6, <2>5, <2>6, <2>7, <2>8 DEF ToAck
<1> QED
  BY <1>5, <1>6, AckStep

(* A job that is fresh on a queue accounts for its arm.                    *)
LEMMA FreshAccounts ==
  ASSUME NEW a \in Arms, NEW s \in Stages, NEW t \in Nat, t <= s, Fresh(JobFor(a, s)) \in queue'
  PROVE  Accounted(a, t)'
<1>1. JobFor(a, s) \in Live'
  BY DEF Live, Fresh
<1>2. ArmOf(JobFor(a, s)) = a /\ JobFor(a, s).stage = s
  BY DEF ArmOf, JobFor, Arms
<1> QED
  BY <1>1, <1>2 DEF Accounted

(* Download is the first of the stages, which are numbers.                 *)
LEMMA StagesAreNat == Stages \subseteq Nat /\ Download \in Nat /\ \A s \in Stages : Download <= s
BY DEF Stages, Download, Render

(* The batch grows only by publishing, and sheds what is dead-lettered     *)
(* again.                                                                  *)
LEMMA DrainStep ==
  ASSUME TypeOK, [Next]_vars, NEW j \in draining'
  PROVE  j \in draining \/ Fresh(j) \in queue'
<1>1. CASE Incoming
  BY <1>1
  DEF Incoming, Seed, SeedVariant, Submit, UploadBlob, UploadRow, UploadPublish, UploadLost, pubsub
<1>2. CASE Delivery
  BY <1>2 DEF Delivery, Deliver, Take
<1>3. ASSUME NEW w \in Workers, Handle(w)
      PROVE  j \in draining
  <2>1. CASE Nack(w)
    <3>1. slot[w].msg \in Message
      BY <2>1, BusyJob DEF Nack, Busy, PCs
    <3> QED
      BY <2>1, <3>1, RedeliverKeeps DEF Nack, pubsub
  <2>2. CASE ~Nack(w)
    BY <1>3, <2>2
    DEF Handle, DownloadGate, DownloadWork, DownloadRecord, ConvertGate, ConvertWork,
        NormalizeGate, NormalizeWork, RenderGate, RenderWork, RecordArtifact, PublishNext, Ack,
        RecordFailure, pubsub
  <2> QED
    BY <2>1, <2>2
<1>4. CASE Trouble
  <2>1. ASSUME NEW m \in queue, Congestion(m)
        PROVE  j \in draining
    BY <2>1, RedeliverKeeps DEF Congestion, TypeOK, PubsubOK
  <2>2. ASSUME NEW w \in Workers, LeaseExpires(w) \/ Crash(w)
        PROVE  j \in draining
    <3>1. slot[w].msg \in Message
      BY <2>2, BusyJob DEF LeaseExpires, Crash, TypeOK, SlotsOK
    <3> QED
      BY <2>2, <3>1, RedeliverKeeps DEF LeaseExpires, Crash, pubsub
  <2> QED
    BY <1>4, <2>1, <2>2 DEF Trouble, DeliverTwice, Take, Raise, RecordingFails, pubsub
<1>5. ASSUME NEW k \in dlq, DlqPublish(k)
      PROVE  j \in draining \/ Fresh(j) \in queue'
  BY <1>5 DEF DlqPublish
<1>6. CASE DlqAck \/ DlqCrash
  BY <1>6 DEF DlqAck, DlqCrash
<1>7. CASE Retrying \/ UNCHANGED vars
  BY <1>5, <1>6, <1>7
  DEF Retrying, ReplayPublish, ReplayCommit, ReplayRollback, vars, pubsub
<1> QED
  BY <1>1, <1>2, <1>3, <1>4, <1>7 DEF Next

(* What replay_dlq is about to acknowledge stays held or handed on.        *)
LEMMA DrainHanded ==
  ASSUME TypeOK, TypeOK', Handed, [Next]_vars, NEW j \in draining'
  PROVE  (j \in Held \/ HandedOn(j))'
<1>1. j \in Job /\ ArmOf(j) \in Arms /\ j.stage + 1 \in Nat
  BY DEF TypeOK, PubsubOK, Job, ArmOf, Arms, Stages, Download, Render
<1>2. ASSUME HandedOn(j)
      PROVE  HandedOn(j)'
  BY <1>1, <1>2, AccountedStays DEF HandedOn
<1>3. CASE Fresh(j) \in queue'
  BY <1>3 DEF Held, Fresh
<1>4. CASE j \in draining /\ j \in Held
  <2>1. CASE Kept(j)
    BY <2>1 DEF Kept
  <2>2. ASSUME NEW w \in Workers, Ack(w), JobOf(w) = j
        PROVE  HandedOn(j)
    BY <2>2 DEF Ack, Handed
  <2> QED
    BY <1>2, <1>4, <2>1, <2>2, HeldStep
<1>5. CASE j \in draining /\ j \notin Held
  BY <1>2, <1>5 DEF Handed
<1> QED
  BY <1>3, <1>4, <1>5, DrainStep

(* What the state outside, and the dead letters, did in a step.            *)
LEMMA OutsideStep ==
  ASSUME TypeOK, [Next]_vars
  PROVE  /\ \A a \in accepted' :
              a \in accepted \/ (\E s \in Stages : a \in Arms /\ Fresh(JobFor(a, s)) \in queue')
         /\ \/ retry' = retry
            \/ retry' = None
            \/ \E u \in Uids, s \in Stages :
                 retry' = <<u, s>> /\ Fresh(JobFor(<<u, Default>>, s)) \in queue'
         /\ \A k \in Uids \X Stages :
              deadLetter'[k] = "replayed" => deadLetter[k] = "replayed" \/ retry = k
<1> DEFINE Promised ==
      \A a \in accepted' :
        a \in accepted \/ (\E s \in Stages : a \in Arms /\ Fresh(JobFor(a, s)) \in queue')
<1>1. CASE Incoming
  <2>1. UNCHANGED <<retry, deadLetter>>
    BY <1>1
    DEF Incoming, Seed, SeedVariant, Submit, UploadBlob, UploadRow, UploadPublish, UploadLost, tables
  <2>2. ASSUME NEW a \in Arms, NEW s \in Stages, Submit(JobFor(a, s))
        PROVE  Promised
    <3>1. ArmOf(JobFor(a, s)) = a
      BY DEF ArmOf, JobFor, Arms
    <3> QED
      BY <2>2, <3>1 DEF Submit
  <2>3. ASSUME NEW u \in Objaverse, Seed(u)
        PROVE  Promised
    <3>1. <<u, Default>> \in Arms /\ Download \in Stages
      BY DEF Arms, Uids, Variants, Stages, Download, Render
    <3> QED
      BY <2>2, <2>3, <3>1 DEF Seed
  <2>4. ASSUME NEW u \in TexturedSeeds, SeedVariant(u)
        PROVE  Promised
    <3>1. <<u, Textured>> \in Arms /\ Convert \in Stages
      BY PipelineAssumption DEF Arms, Variants, Stages, Download, Convert, Render
    <3> QED
      BY <2>2, <2>4, <3>1 DEF SeedVariant
  <2>5. ASSUME NEW u \in Uploads, UploadPublish(u)
        PROVE  Promised
    <3>1. <<u, Default>> \in Arms /\ Convert \in Stages
      BY DEF Arms, Uids, Variants, Stages, Download, Convert, Render
    <3> QED
      BY <2>5, <3>1 DEF UploadPublish
  <2>6. Promised
    BY <1>1, <2>3, <2>4, <2>5 DEF Incoming, UploadBlob, UploadRow, UploadLost
  <2> QED
    BY <2>1, <2>6
<1>2. ASSUME NEW w \in Workers, Handle(w)
      PROVE  /\ UNCHANGED <<accepted, retry>>
             /\ \A k \in Uids \X Stages :
                  deadLetter'[k] = "replayed" => deadLetter[k] = "replayed"
  <2>1. CASE RecordFailure(w)
    BY <2>1 DEF RecordFailure, outside, TypeOK, TablesOK
  <2>2. CASE ~RecordFailure(w)
    BY <1>2, <2>2
    DEF Handle, DownloadGate, DownloadWork, DownloadRecord, ConvertGate, ConvertWork,
        NormalizeGate, NormalizeWork, RenderGate, RenderWork, RecordArtifact, PublishNext, Ack,
        Nack, outside, tables
  <2> QED
    BY <2>1, <2>2
<1>3. CASE Delivery \/ Trouble \/ UNCHANGED vars
  BY <1>3
  DEF Delivery, Deliver, Take, Trouble, DeliverTwice, Congestion, LeaseExpires, Crash, Raise,
      RecordingFails, vars, tables, outside
<1>4. CASE Retrying
  BY <1>4
  DEF Retrying, ReplayPublish, ReplayCommit, ReplayRollback, DlqPublish, DlqAck, DlqCrash, tables,
      outside, TypeOK, TablesOK
<1> QED
  BY <1>1, <1>2, <1>3, <1>4 DEF Next

(* With nothing accepted there is nothing to hand on.                      *)
LEMMA HandedInit == Init => Handed
BY DEF Init, Handed, NothingLost, ReplayedIsUnderway, Idle

(* Every step keeps Handed.                                                *)
LEMMA HandedStep ==
  ASSUME TypeOK, TypeOK', Honest, Handed, [Next]_vars
  PROVE  Handed'
<1>1. ASSUME NEW a \in Arms, NEW s \in Stages, Accounted(a, s)
      PROVE  Accounted(a, s)'
  BY <1>1, AccountedStays, StagesAreNat
<1>2. \A w \in Workers : slot'[w].pc = "ack" => HandedOn(JobOf(w))'
  BY AckHandedOn
<1>3. \A j \in draining' : (j \in Held \/ HandedOn(j))'
  BY DrainHanded
<1>4. ASSUME NEW u \in Uids
      PROVE  <<u, Default>> \in Arms
  BY DEF Arms, Variants
<1>5. ASSUME retry' # None
      PROVE  Accounted(<<retry[1], Default>>, retry[2])'
  <2>1. CASE retry' = retry
    <3>1. PICK u \in Uids, s \in Stages : retry = <<u, s>>
      BY <1>5, <2>1 DEF TypeOK, OutsideOK
    <3>2. Accounted(<<u, Default>>, s)
      BY <1>5, <2>1, <3>1 DEF Handed
    <3>3. Accounted(<<u, Default>>, s)'
      BY <1>1, <1>4, <3>2
    <3> QED
      BY <2>1, <3>1, <3>3
  <2>2. ASSUME NEW u \in Uids, NEW s \in Stages, retry' = <<u, s>>,
               Fresh(JobFor(<<u, Default>>, s)) \in queue'
        PROVE  Accounted(<<retry[1], Default>>, retry[2])'
    <3>1. Accounted(<<u, Default>>, s)'
      BY <1>4, <2>2, FreshAccounts, StagesAreNat
    <3> QED
      BY <2>2, <3>1
  <2> QED
    BY <1>5, <2>1, <2>2, OutsideStep
<1>6. NothingLost'
  <2>1. ASSUME NEW a \in accepted'
        PROVE  Accounted(a, Download)'
    <3>1. CASE a \in accepted
      <4>1. a \in Arms /\ Accounted(a, Download)
        BY <3>1 DEF TypeOK, OutsideOK, Handed, NothingLost
      <4> QED
        BY <4>1, AccountedStays, StagesAreNat
    <3>2. ASSUME NEW s \in Stages, a \in Arms, Fresh(JobFor(a, s)) \in queue'
          PROVE  Accounted(a, Download)'
      BY <3>2, FreshAccounts, StagesAreNat
    <3> QED
      BY <3>1, <3>2, OutsideStep
  <2> QED
    BY <2>1 DEF NothingLost
<1>7. ReplayedIsUnderway'
  <2>1. ASSUME NEW u \in Uids, NEW s \in Stages, deadLetter'[<<u, s>>] = "replayed"
        PROVE  Accounted(<<u, Default>>, s)'
    <3>1. deadLetter[<<u, s>>] = "replayed" \/ retry = <<u, s>>
      BY <2>1, OutsideStep
    <3>2. Accounted(<<u, Default>>, s)
      <4>1. CASE deadLetter[<<u, s>>] = "replayed"
        BY <4>1 DEF Handed, ReplayedIsUnderway
      <4>2. CASE retry = <<u, s>>
        <5>1. retry # None
          BY <4>2, PipelineAssumption
        <5> QED
          BY <4>2, <5>1 DEF Handed
      <4> QED
        BY <3>1, <4>1, <4>2
    <3> QED
      BY <1>1, <1>4, <3>2
  <2> QED
    BY <2>1 DEF ReplayedIsUnderway
<1> QED
  BY <1>2, <1>3, <1>5, <1>6, <1>7 DEF Handed

-----------------------------------------------------------------------------
(* The theorems of Handed.                                                 *)

(* The invariant holds in every reachable state.                           *)
LEMMA Invariance == Spec => []IInv
<1>1. Init => IInv
  BY TypeInit, HonestInit, HandedInit DEF IInv
<1>2. IInv /\ [Next]_vars => IInv'
  BY TypeStep, HonestStep, HandedStep DEF IInv
<1> QED
  BY <1>1, <1>2, PTL DEF Spec

(* No accepted model drops out of the pipeline, for any number of models,  *)
(* instances, faults, duplicates and retries: it is rendered, or a message *)
(* still stands for it.                                                    *)
THEOREM NoArmIsLost == Spec => []NothingLost
<1>1. IInv => NothingLost
  BY DEF IInv, Handed
<1> QED
  BY <1>1, Invariance, PTL

(* A dead letter an admin has replayed is on its way, quarantined again,   *)
(* or past its stage.                                                      *)
THEOREM ReplayedJobsAreUnderway == Spec => []ReplayedIsUnderway
<1>1. IInv => ReplayedIsUnderway
  BY DEF IInv, Handed
<1> QED
  BY <1>1, Invariance, PTL

-----------------------------------------------------------------------------
(* The pipeline implements PipelinePromise.                                *)

(* A stage's output appears only over its predecessor's.                   *)
InOrder ==
  \A a \in Arms :
    /\ a \in converted => raw[a[1]] # {}
    /\ a \in normalized => a \in converted
    /\ views[a] # {} => a \in normalized

(* What a step can add to the storage: one output, over its input, or the  *)
(* row that says an output is there.                                       *)
AddRaw(u, s) ==
  /\ raw' = [raw EXCEPT ![u] = @ \cup {s}]
  /\ UNCHANGED <<converted, normalized, views, artifact>>

AddConverted(a) ==
  /\ raw[a[1]] # {}
  /\ converted' = converted \cup {a}
  /\ UNCHANGED <<raw, normalized, views, artifact>>

AddNormalized(a) ==
  /\ a \in converted
  /\ normalized' = normalized \cup {a}
  /\ UNCHANGED <<raw, converted, views, artifact>>

AddView(a, v) ==
  /\ a \in normalized
  /\ views' = [views EXCEPT ![a] = @ \cup {v}]
  /\ UNCHANGED <<raw, converted, normalized, artifact>>

AddRow == artifact \subseteq artifact' /\ UNCHANGED store

OneOutput ==
  \/ \E u \in Uids, s \in Suffixes : AddRaw(u, s)
  \/ \E a \in Arms : AddConverted(a) \/ AddNormalized(a)
  \/ \E a \in Arms, v \in Views : AddView(a, v)
  \/ AddRow

(* Every slot keeps its lease and its message.                             *)
SameLeases ==
  \A x \in Workers : slot'[x].leased = slot[x].leased /\ slot'[x].msg = slot[x].msg

(* The messages, the leases and the promises stay as they are.             *)
Quiet == UNCHANGED <<queue, dlq, accepted>> /\ SameLeases

(* A handler that moves on without giving its message back keeps it.       *)
LEMMA MovesKeepLeases ==
  ASSUME TypeOK, NEW w \in Workers, NEW p, MoveTo(w, p)
  PROVE  SameLeases
<1>1. slot \in [Workers -> SlotType]
  BY DEF TypeOK, SlotsOK
<1> QED
  BY <1>1 DEF MoveTo, SameLeases, SlotType

(* Storing an output is all that such a step of a handler does.            *)
LEMMA WorksAddOne ==
  ASSUME TypeOK, Honest, InOrder, NEW w \in Workers, Works(w)
  PROVE  (UNCHANGED <<store, artifact>> \/ OneOutput) /\ Quiet
<1>1. slot[w].pc \in Busy /\ slot[w] \in SlotType
  BY DEF Works, DownloadWork, ConvertWork, NormalizeWork, RenderWork, At, Busy, PCs, TypeOK,
         SlotsOK
<1>2. Arm(w) \in Arms /\ Uid(w) \in Uids /\ Arm(w)[1] = Uid(w)
  BY <1>1, BusyJob DEF Arm, ArmOf, Uid
<1>3. SameLeases
  <2>1. CASE RenderWork(w)
    BY <1>1, <2>1 DEF RenderWork, MoveTo, SameLeases, TypeOK, SlotsOK, SlotType
  <2>2. CASE ~RenderWork(w)
    <3>1. \E p : MoveTo(w, p)
      BY <2>2 DEF Works, DownloadWork, ConvertWork, NormalizeWork
    <3> QED
      BY <3>1, MovesKeepLeases
  <2> QED
    BY <2>1, <2>2
<1>4. Quiet
  BY <1>3 DEF Quiet, Works, DownloadWork, ConvertWork, NormalizeWork, RenderWork, pubsub, outside
<1>5. CASE DownloadWork(w)
  <2>1. UNCHANGED <<store, artifact>> \/ AddRaw(Uid(w), "glb")
    BY <1>5 DEF DownloadWork, AddRaw, store, tables
  <2> QED
    BY <1>2, <1>4, <2>1 DEF OneOutput, Suffixes
<1>6. CASE ConvertWork(w)
  <2>1. UNCHANGED <<store, artifact>> \/ AddConverted(Arm(w))
    BY <1>2, <1>6 DEF ConvertWork, AddConverted, store, tables
  <2> QED
    BY <1>2, <1>4, <2>1 DEF OneOutput
<1>7. CASE NormalizeWork(w)
  <2>1. UNCHANGED <<store, artifact>> \/ AddNormalized(Arm(w))
    BY <1>7 DEF NormalizeWork, AddNormalized, store, tables
  <2> QED
    BY <1>2, <1>4, <2>1 DEF OneOutput
<1>8. CASE RenderWork(w)
  <2>1. CASE UNCHANGED views
    BY <1>4, <1>8, <2>1 DEF RenderWork, store, tables
  <2>2. CASE ~UNCHANGED views
    <3>1. /\ views' = [views EXCEPT ![Arm(w)] = @ \cup {slot[w].view}]
          /\ slot[w].view = 0 => Arm(w) \in normalized
      BY <1>8, <2>2 DEF RenderWork
    <3>2. /\ slot[w].view \in Nat /\ slot[w].view < NumViews
          /\ 0 .. (slot[w].view - 1) \subseteq views[Arm(w)]
      BY <1>1, <1>8, PipelineAssumption DEF RenderWork, Honest, RenderSoFar, SlotType
    <3>3. slot[w].view \in Views
      BY <3>2, PipelineAssumption DEF Views
    <3>4. Arm(w) \in normalized
      <4>1. CASE slot[w].view = 0
        BY <3>1, <4>1
      <4>2. CASE slot[w].view # 0
        <5>1. 0 \in views[Arm(w)]
          BY <3>2, <4>2
        <5> QED
          BY <1>2, <5>1 DEF InOrder
      <4> QED
        BY <4>1, <4>2
    <3>5. UNCHANGED <<raw, converted, normalized, artifact>>
      BY <1>8 DEF RenderWork, tables
    <3> QED
      BY <1>2, <1>4, <3>1, <3>3, <3>4, <3>5 DEF OneOutput, AddView
  <2> QED
    BY <2>1, <2>2
<1> QED
  BY <1>5, <1>6, <1>7, <1>8 DEF Works

(* A step that adds to the storage does nothing an operator could see in   *)
(* the messages.                                                           *)
LEMMA StoreStep ==
  ASSUME TypeOK, Honest, InOrder, [Next]_vars
  PROVE  UNCHANGED <<store, artifact>> \/ (OneOutput /\ Quiet)
<1>1. CASE Incoming
  <2>1. ASSUME NEW u \in Uploads, UploadBlob(u)
        PROVE  OneOutput /\ Quiet
    <3>1. u \in Uids /\ UploadSuffix[u] \in Suffixes
      BY PipelineAssumption DEF Uids
    <3>2. AddRaw(u, UploadSuffix[u])
      BY <2>1 DEF UploadBlob, AddRaw, tables
    <3>3. Quiet
      BY <2>1 DEF UploadBlob, Quiet, SameLeases, pubsub
    <3> QED
      BY <3>1, <3>2, <3>3 DEF OneOutput
  <2>2. CASE ~(\E u \in Uploads : UploadBlob(u))
    BY <1>1, <2>2
    DEF Incoming, Seed, SeedVariant, Submit, UploadRow, UploadPublish, UploadLost, tables
  <2> QED
    BY <2>1, <2>2
<1>2. CASE Delivery
  BY <1>2 DEF Delivery, Deliver, Take, tables
<1>3. ASSUME NEW w \in Workers, Handle(w)
      PROVE  UNCHANGED <<store, artifact>> \/ (OneOutput /\ Quiet)
  <2>1. CASE Works(w)
    BY <2>1, WorksAddOne
  <2>2. CASE RecordArtifact(w)
    <3>1. \E p : MoveTo(w, p)
      BY <2>2 DEF RecordArtifact
    <3>2. SameLeases
      BY <3>1, MovesKeepLeases
    <3>3. UNCHANGED <<queue, dlq, accepted>> /\ UNCHANGED store /\ artifact \subseteq artifact'
      BY <2>2 DEF RecordArtifact, pubsub, outside
    <3> QED
      BY <3>2, <3>3 DEF Quiet, OneOutput, AddRow
  <2>3. CASE ~Works(w) /\ ~RecordArtifact(w)
    BY <1>3, <2>3
    DEF Handle, Works, DownloadGate, DownloadRecord, ConvertGate, NormalizeGate,
        RenderGate, PublishNext, Ack, RecordFailure, Nack, tables
  <2> QED
    BY <2>1, <2>2, <2>3
<1>4. CASE Trouble
  BY <1>4
  DEF Trouble, DeliverTwice, Take, Congestion, LeaseExpires, Crash, Raise, RecordingFails, tables
<1>5. CASE Retrying
  BY <1>5
  DEF Retrying, ReplayPublish, ReplayCommit, ReplayRollback, DlqPublish, DlqAck, DlqCrash, tables
<1>6. CASE UNCHANGED vars
  BY <1>6 DEF vars, tables
<1> QED
  BY <1>1, <1>2, <1>3, <1>4, <1>5, <1>6 DEF Next

(* Nothing is stored at first.                                             *)
LEMMA InOrderInit == Init => InOrder
BY DEF Init, InOrder

(* Every step keeps the outputs in order.                                  *)
LEMMA InOrderStep ==
  ASSUME TypeOK, Honest, InOrder, [Next]_vars
  PROVE  InOrder'
<1>1. CASE UNCHANGED <<store, artifact>>
  BY <1>1 DEF InOrder, store
<1>2. CASE OneOutput
  <2> SUFFICES ASSUME NEW a \in Arms
               PROVE  /\ a \in converted' => raw'[a[1]] # {}
                      /\ a \in normalized' => a \in converted'
                      /\ views'[a] # {} => a \in normalized'
    BY DEF InOrder
  <2>1. a[1] \in Uids
    BY DEF Arms
  <2>2. /\ a \in converted => raw[a[1]] # {}
        /\ a \in normalized => a \in converted
        /\ views[a] # {} => a \in normalized
    BY DEF InOrder
  <2>3. raw[a[1]] # {} => raw'[a[1]] # {}
    BY <1>2, <2>1
    DEF OneOutput, AddRaw, AddConverted, AddNormalized, AddView, AddRow, TypeOK, StoreOK, store
  <2>4. views'[a] # {} => views[a] # {} \/ a \in normalized
    BY <1>2
    DEF OneOutput, AddRaw, AddConverted, AddNormalized, AddView, AddRow, TypeOK, StoreOK, store
  <2>5. /\ converted \subseteq converted' /\ normalized \subseteq normalized'
        /\ a \in converted' => a \in converted \/ raw[a[1]] # {}
        /\ a \in normalized' => a \in normalized \/ a \in converted
    BY <1>2 DEF OneOutput, AddRaw, AddConverted, AddNormalized, AddView, AddRow, store
  <2> QED
    BY <2>2, <2>3, <2>4, <2>5
<1> QED
  BY <1>1, <1>2, StoreStep

(* A step that adds an output takes each arm at most one stage on.         *)
LEMMA ProgressStep ==
  ASSUME TypeOK, TypeOK', Grows, InOrder, InOrder', OneOutput, NEW a \in Arms
  PROVE  \/ Progress(a)' = Progress(a)
         \/ Progress(a) < Render /\ Progress(a)' = Progress(a) + 1
<1>1. a[1] \in Uids
  BY DEF Arms
<1>2. /\ a \in converted => raw[a[1]] # {}
      /\ a \in normalized => a \in converted
      /\ views[a] # {} => a \in normalized
  BY DEF InOrder
<1>3. /\ a \in converted' => raw'[a[1]] # {}
      /\ a \in normalized' => a \in converted'
      /\ views'[a] # {} => a \in normalized'
  BY DEF InOrder
<1>4. Views # {}
  BY PipelineAssumption DEF Views
<1>5. /\ Rendered(a) => views[a] # {}
      /\ Rendered(a)' => views'[a] # {}
      /\ Rendered(a) => Rendered(a)'
  BY <1>4, RenderedStays DEF Rendered
<1>6. CASE UNCHANGED <<converted, normalized, views, artifact>>
  <2>1. UNCHANGED Rendered(a) /\ (raw[a[1]] # {} => raw'[a[1]] # {})
    BY <1>1, <1>6 DEF Rendered, Grows
  <2> QED
    BY <1>2, <1>6, <2>1 DEF Progress, Download, Convert, Normalize, Render
<1>7. CASE UNCHANGED <<raw, normalized, views, artifact>>
  <2>1. UNCHANGED Rendered(a) /\ (a \in converted => a \in converted')
    BY <1>7 DEF Rendered, Grows
  <2> QED
    BY <1>2, <1>3, <1>7, <2>1 DEF Progress, Download, Convert, Normalize, Render
<1>8. CASE UNCHANGED <<raw, converted, views, artifact>>
  <2>1. UNCHANGED Rendered(a) /\ (a \in normalized => a \in normalized')
    BY <1>8 DEF Rendered, Grows
  <2> QED
    BY <1>2, <1>3, <1>5, <1>8, <2>1 DEF Progress, Download, Convert, Normalize, Render
<1>9. CASE UNCHANGED <<raw, converted, normalized>>
  BY <1>2, <1>3, <1>5, <1>9 DEF Progress, Download, Convert, Normalize, Render
<1> QED
  BY <1>6, <1>7, <1>8, <1>9
  DEF OneOutput, AddRaw, AddConverted, AddNormalized, AddView, AddRow, store

(* A failed delivery brings no job but its own.                            *)
LEMMA RedeliverAdds ==
  ASSUME NEW m \in Message, NEW waiting, Redeliver(m, waiting), waiting \subseteq queue
  PROVE  /\ \A n \in queue' : n \in queue \/ n.job = m.job
         /\ dlq' \subseteq dlq \cup {m.job}
<1>1. [m EXCEPT !.attempt = @ + 1].job = m.job
  BY DEF Message
<1> QED
  BY <1>1 DEF Redeliver

(* Messages and leases that stay as they are stand for the same jobs.      *)
LEMMA SameLive ==
  ASSUME UNCHANGED <<queue, dlq>>, SameLeases
  PROVE  Live' = Live
BY DEF Live, SameLeases, JobOf

(* A job that is published is live.                                        *)
LEMMA PublishLive ==
  ASSUME NEW j, queue' = queue \cup {Fresh(j)}, UNCHANGED dlq, SameLeases
  PROVE  Live' = Live \cup {j}
<1>1. Fresh(j).job = j
  BY DEF Fresh
<1> QED
  BY <1>1 DEF Live, SameLeases, JobOf

(* No job comes from nowhere: a step that gives a message back, takes one  *)
(* or acknowledges one adds no job.                                        *)
LEMMA ReturnLive ==
  ASSUME TypeOK, NEW w \in Workers, slot[w].pc \in Busy,
         IF slot[w].leased THEN Redeliver(slot[w].msg, queue) ELSE UNCHANGED pubsub,
         ~slot'[w].leased,
         \A x \in Workers \ {w} : slot'[x] = slot[x]
  PROVE  Live' \subseteq Live
<1>1. slot[w].msg \in Message
  BY BusyJob
<1>2. \A x \in Workers : slot'[x].leased => slot[x].leased /\ JobOf(x)' = JobOf(x)
  BY DEF JobOf
<1>3. CASE slot[w].leased
  <2>1. slot[w].msg.job \in Live
    BY <1>3 DEF Live, JobOf
  <2>2. /\ \A n \in queue' : n \in queue \/ n.job = slot[w].msg.job
        /\ dlq' \subseteq dlq \cup {slot[w].msg.job}
    BY <1>1, <1>3, RedeliverAdds
  <2> QED
    BY <1>2, <2>1, <2>2 DEF Live
<1>4. CASE ~slot[w].leased
  BY <1>2, <1>4 DEF Live, pubsub
<1> QED
  BY <1>3, <1>4

(* A delivered message's job is its slot's.                                *)
LEMMA TakeLive ==
  ASSUME TypeOK, NEW w \in Workers, NEW m \in queue, Take(w, m), queue' \subseteq queue
  PROVE  Live' \subseteq Live
<1>1. slot'[w].msg = m
  BY DEF Take, TypeOK, SlotsOK
<1>2. \A x \in Workers \ {w} : slot'[x] = slot[x]
  BY DEF Take, TypeOK, SlotsOK
<1>3. JobOf(w)' = m.job
  BY <1>1 DEF JobOf
<1>4. \A x \in Workers \ {w} : JobOf(x)' = JobOf(x)
  BY <1>2 DEF JobOf
<1> QED
  BY <1>2, <1>3, <1>4 DEF Live, Take

(* What a step does to the jobs some message stands for: it publishes one, *)
(* and may accept its arm, or it brings none.                              *)
Publishes(j) ==
  Live' = Live \cup {j} /\ (accepted' = accepted \/ accepted' = accepted \cup {ArmOf(j)})

BringsNone == Live' \subseteq Live /\ accepted' = accepted

(* A seeder, or the upload endpoint, publishes at most one job.            *)
LEMMA IncomingLive ==
  ASSUME TypeOK, Incoming
  PROVE  (\E j \in Job : Publishes(j)) \/ BringsNone
<1>1. SameLeases
  BY DEF Incoming, Seed, SeedVariant, Submit, UploadBlob, UploadRow, UploadPublish, UploadLost,
         SameLeases
<1>2. ASSUME NEW j \in Job, Submit(j)
      PROVE  Publishes(j)
  BY <1>1, <1>2, PublishLive DEF Submit, Publishes
<1>3. ASSUME NEW u \in Objaverse, Seed(u)
      PROVE  \E j \in Job : Publishes(j)
  <2>1. <<u, Default>> \in Arms /\ Download \in Stages
    BY DEF Arms, Uids, Variants, Stages, Download, Render
  <2> QED
    BY <1>2, <1>3, <2>1, JobForIsJob DEF Seed
<1>4. ASSUME NEW u \in TexturedSeeds, SeedVariant(u)
      PROVE  \E j \in Job : Publishes(j)
  <2>1. <<u, Textured>> \in Arms /\ Convert \in Stages
    BY PipelineAssumption DEF Arms, Variants, Stages, Download, Convert, Render
  <2> QED
    BY <1>2, <1>4, <2>1, JobForIsJob DEF SeedVariant
<1>5. ASSUME NEW u \in Uploads, UploadPublish(u)
      PROVE  \E j \in Job : Publishes(j)
  <2> DEFINE j == JobFor(<<u, Default>>, Convert)
  <2>1. <<u, Default>> \in Arms /\ Convert \in Stages
    BY DEF Arms, Uids, Variants, Stages, Download, Convert, Render
  <2>2. j \in Job /\ ArmOf(j) = <<u, Default>>
    BY <2>1, JobForIsJob DEF ArmOf, JobFor
  <2>3. /\ queue' = queue \cup {Fresh(j)} /\ UNCHANGED dlq
        /\ accepted' = accepted \cup {<<u, Default>>}
    BY <1>5 DEF UploadPublish
  <2>4. Live' = Live \cup {j}
    BY <1>1, <2>3, PublishLive
  <2> QED
    BY <2>2, <2>3, <2>4 DEF Publishes
<1>6. ASSUME NEW u \in Uploads, UploadBlob(u) \/ UploadRow(u) \/ UploadLost(u)
      PROVE  BringsNone
  BY <1>1, <1>6, SameLive DEF UploadBlob, UploadRow, UploadLost, pubsub, BringsNone
<1> QED
  BY <1>3, <1>4, <1>5, <1>6 DEF Incoming

(* A handler publishes the next stage's job, or brings none.               *)
LEMMA HandleLive ==
  ASSUME TypeOK, NEW w \in Workers, Handle(w)
  PROVE  (\E j \in Job : Publishes(j)) \/ BringsNone
<1>1. slot \in [Workers -> SlotType]
  BY DEF TypeOK, SlotsOK
<1>2. accepted' = accepted
  BY DEF Handle, DownloadGate, DownloadWork, DownloadRecord, ConvertGate, ConvertWork,
         NormalizeGate, NormalizeWork, RenderGate, RenderWork, RecordArtifact, PublishNext, Ack,
         RecordFailure, Nack, outside
<1>3. CASE PublishNext(w)
  <2>1. slot[w].pc \in Busy /\ JobOf(w).stage < Render
    BY <1>3 DEF PublishNext, Busy, PCs
  <2>2. Arm(w) \in Arms /\ JobOf(w).stage + 1 \in Stages
    BY <2>1, BusyJob DEF Stages, Download, Render
  <2> DEFINE j == JobFor(Arm(w), JobOf(w).stage + 1)
  <2>3. SameLeases
    BY <1>3, MovesKeepLeases DEF PublishNext
  <2>4. Live' = Live \cup {j}
    BY <1>3, <2>3, PublishLive DEF PublishNext
  <2> QED
    BY <1>2, <2>2, <2>4, JobForIsJob DEF Publishes
<1>4. CASE Ack(w)
  <2>1. \A x \in Workers : slot'[x].leased => slot[x].leased /\ JobOf(x)' = JobOf(x)
    BY <1>1, <1>4 DEF Ack, Idle, JobOf
  <2>2. UNCHANGED <<queue, dlq>>
    BY <1>4 DEF Ack, pubsub
  <2> QED
    BY <1>2, <2>1, <2>2 DEF Live, BringsNone
<1>5. CASE Nack(w)
  <2>1. slot[w].pc \in Busy
    BY <1>5 DEF Nack, Busy, PCs
  <2>2. ~slot'[w].leased /\ \A x \in Workers \ {w} : slot'[x] = slot[x]
    BY <1>1, <1>5 DEF Nack, Idle
  <2>3. Live' \subseteq Live
    BY <1>5, <2>1, <2>2, ReturnLive DEF Nack
  <2> QED
    BY <1>2, <2>3 DEF BringsNone
<1>6. CASE ~PublishNext(w) /\ ~Ack(w) /\ ~Nack(w)
  <2>1. UNCHANGED <<queue, dlq>>
    BY <1>6
    DEF Handle, DownloadGate, DownloadWork, DownloadRecord, ConvertGate, ConvertWork,
        NormalizeGate, NormalizeWork, RenderGate, RenderWork, RecordArtifact, RecordFailure, pubsub
  <2>2. SameLeases
    <3>1. CASE ConvertGate(w) \/ RenderWork(w)
      BY <1>1, <3>1 DEF ConvertGate, RenderWork, MoveTo, SameLeases, SlotType
    <3>2. CASE ~ConvertGate(w) /\ ~RenderWork(w)
      <4>1. \E p : MoveTo(w, p)
        BY <1>6, <3>2
        DEF Handle, DownloadGate, DownloadWork, DownloadRecord, ConvertWork, NormalizeGate,
            NormalizeWork, RenderGate, RecordArtifact, RecordFailure
      <4> QED
        BY <4>1, MovesKeepLeases
    <3> QED
      BY <3>1, <3>2
  <2> QED
    BY <1>2, <2>1, <2>2, SameLive DEF BringsNone
<1> QED
  BY <1>3, <1>4, <1>5, <1>6

(* Deliveries and faults bring no job.                                     *)
LEMMA TroubleLive ==
  ASSUME TypeOK, Delivery \/ Trouble
  PROVE  BringsNone
<1>1. slot \in [Workers -> SlotType]
  BY DEF TypeOK, SlotsOK
<1>2. accepted' = accepted
  BY DEF Delivery, Deliver, Take, Trouble, DeliverTwice, Congestion, LeaseExpires, Crash, Raise,
         RecordingFails
<1>3. ASSUME NEW w \in Workers, NEW m \in queue, Deliver(w, m) \/ DeliverTwice(w, m)
      PROVE  Live' \subseteq Live
  <2>1. Take(w, m) /\ queue' \subseteq queue
    BY <1>3 DEF Deliver, DeliverTwice
  <2> QED
    BY <2>1, TakeLive
<1>4. ASSUME NEW m \in queue, Congestion(m)
      PROVE  Live' \subseteq Live
  <2>1. m \in Message /\ m.job \in Live
    BY DEF TypeOK, PubsubOK, Live
  <2>2. /\ \A n \in queue' : n \in queue \/ n.job = m.job
        /\ dlq' \subseteq dlq \cup {m.job}
    BY <1>4, <2>1, RedeliverAdds DEF Congestion
  <2>3. UNCHANGED slot
    BY <1>4 DEF Congestion
  <2> QED
    BY <2>1, <2>2, <2>3 DEF Live, JobOf
<1>5. ASSUME NEW w \in Workers, LeaseExpires(w)
      PROVE  Live' \subseteq Live
  <2>1. slot[w].pc \in Busy
    BY <1>5 DEF LeaseExpires, TypeOK, SlotsOK
  <2>2. ~slot'[w].leased /\ \A x \in Workers \ {w} : slot'[x] = slot[x]
    BY <1>1, <1>5 DEF LeaseExpires, SlotType
  <2> QED
    BY <1>5, <2>1, <2>2, ReturnLive DEF LeaseExpires
<1>6. ASSUME NEW w \in Workers, Crash(w)
      PROVE  Live' \subseteq Live
  <2>1. ~slot'[w].leased /\ \A x \in Workers \ {w} : slot'[x] = slot[x]
    BY <1>1, <1>6 DEF Crash, Idle
  <2> QED
    BY <1>6, <2>1, ReturnLive DEF Crash
<1>7. ASSUME NEW w \in Workers, Raise(w) \/ RecordingFails(w)
      PROVE  Live' \subseteq Live
  <2>1. (\E p : MoveTo(w, p)) /\ UNCHANGED <<queue, dlq>>
    BY <1>7 DEF Raise, RecordingFails, pubsub
  <2> QED
    BY <2>1, MovesKeepLeases, SameLive
<1> QED
  BY <1>2, <1>3, <1>4, <1>5, <1>6, <1>7 DEF Delivery, Trouble, BringsNone

(* A retry publishes one job, or brings none.                              *)
LEMMA RetryingLive ==
  ASSUME TypeOK, Retrying
  PROVE  (\E j \in Job : Publishes(j)) \/ BringsNone
<1>1. SameLeases /\ accepted' = accepted
  BY DEF Retrying, ReplayPublish, ReplayCommit, ReplayRollback, DlqPublish, DlqAck, DlqCrash,
         SameLeases, outside
<1>2. ASSUME NEW u \in Uids, NEW s \in Stages, ReplayPublish(u, s)
      PROVE  \E j \in Job : Publishes(j)
  <2> DEFINE j == JobFor(<<u, Default>>, s)
  <2>1. j \in Job
    BY JobForIsJob DEF Arms, Variants
  <2>2. Live' = Live \cup {j}
    BY <1>1, <1>2, PublishLive DEF ReplayPublish
  <2> QED
    BY <1>1, <2>1, <2>2 DEF Publishes
<1>3. ASSUME NEW j \in dlq, DlqPublish(j)
      PROVE  Publishes(j) /\ j \in Job
  BY <1>1, <1>3, PublishLive DEF DlqPublish, Publishes, TypeOK, PubsubOK
<1>4. CASE DlqAck
  <2>1. UNCHANGED <<queue, slot>> /\ dlq' \subseteq dlq
    BY <1>4 DEF DlqAck
  <2> QED
    BY <1>1, <2>1 DEF Live, JobOf, BringsNone
<1>5. CASE ReplayCommit \/ ReplayRollback \/ DlqCrash
  BY <1>1, <1>5, SameLive DEF ReplayCommit, ReplayRollback, DlqCrash, pubsub, BringsNone
<1> QED
  BY <1>2, <1>3, <1>4, <1>5 DEF Retrying

(* Every step publishes one job at most.                                   *)
LEMMA LiveStep ==
  ASSUME TypeOK, [Next]_vars
  PROVE  (\E j \in Job : Publishes(j)) \/ BringsNone
<1>1. CASE UNCHANGED vars
  <2>1. UNCHANGED <<queue, dlq, accepted>> /\ SameLeases
    BY <1>1 DEF vars, pubsub, outside, SameLeases
  <2> QED
    BY <2>1, SameLive DEF BringsNone
<1> QED
  BY <1>1, IncomingLive, HandleLive, TroubleLive, RetryingLive DEF Next

(* The abstract step each kind of step is.                                 *)
LEMMA PromiseStep ==
  ASSUME IInv, InOrder, [Next]_vars
  PROVE  [Promise!PromiseNext]_(Promise!promiseVars)
<1>1. TypeOK /\ Honest /\ Handed /\ TypeOK'
  BY TypeStep DEF IInv
<1>2. Grows /\ InOrder'
  BY <1>1, StepGrows, InOrderStep
<1> DEFINE kept == {ArmOf(j) : j \in Live}
           shown == [a \in Arms |-> Progress(a)]
<1>3. kept \subseteq Arms
  BY <1>1, JobsAreJobs DEF ArmOf, Arms, Job
<1>4. CASE UNCHANGED <<store, artifact>>
  <2>1. shown' = shown
    BY <1>4 DEF Progress, Rendered, store
  <2>2. ASSUME NEW j \in Job, Publishes(j)
        PROVE  Promise!PromiseNext
    <3>1. ArmOf(j) \in Arms /\ kept' = kept \cup {ArmOf(j)}
      BY <2>2 DEF Publishes, ArmOf, Arms, Job
    <3>2. Promise!Accept(ArmOf(j)) \/ Promise!Revive(ArmOf(j))
      BY <2>1, <2>2, <3>1 DEF Promise!Accept, Promise!Revive, Publishes
    <3> QED
      BY <3>1, <3>2 DEF Promise!PromiseNext
  <2>3. CASE BringsNone
    <3> DEFINE S == kept \ kept'
    <3>1. kept' \subseteq kept /\ S \in SUBSET Arms
      BY <1>3, <2>3 DEF BringsNone
    <3>2. ASSUME NEW a \in S
          PROVE  shown[a] = Render
      <4>1. PICK j \in Live : ArmOf(j) = a
        OBVIOUS
      <4>2. a \in Arms /\ j.stage \in Nat
        BY <1>1, <1>3, JobsAreJobs DEF Job, Stages, Download, Render
      <4>3. Accounted(a, j.stage)
        BY <4>1, <4>2 DEF Accounted
      <4>4. Accounted(a, j.stage)'
        BY <1>1, <4>2, <4>3, AccountedStays
      <4>5. Rendered(a)'
        BY <4>2, <4>4 DEF Accounted
      <4>6. Rendered(a) /\ views[a] = Views /\ Views # {}
        BY <1>4, <4>5, PipelineAssumption DEF Rendered, store, Views
      <4> QED
        BY <4>2, <4>6 DEF InOrder, Progress
    <3>3. Promise!Release(S)
      BY <2>1, <2>3, <3>1, <3>2 DEF Promise!Release, BringsNone
    <3> QED
      BY <3>1, <3>3 DEF Promise!PromiseNext
  <2> QED
    BY <1>1, <2>2, <2>3, LiveStep
<1>5. CASE OneOutput /\ Quiet
  <2> DEFINE S == {a \in Arms : Progress(a)' # Progress(a)}
  <2>1. Live' = Live /\ accepted' = accepted
    BY <1>5, SameLive DEF Quiet
  <2>2. kept' = kept
    BY <2>1
  <2>3. \A a \in Arms : \/ a \notin S /\ Progress(a)' = Progress(a)
                        \/ a \in S /\ Progress(a) < Render /\ Progress(a)' = Progress(a) + 1
    BY <1>1, <1>2, <1>5, ProgressStep
  <2>4. Promise!Advance(S)
    BY <2>1, <2>2, <2>3 DEF Promise!Advance
  <2> QED
    BY <2>4 DEF Promise!PromiseNext
<1> QED
  BY <1>1, <1>4, <1>5, StoreStep

(* The pipeline keeps the promise an operator relies on: work advances one *)
(* stage at a time and never goes back, and the last message of an arm     *)
(* goes away only once the arm is rendered.                                *)
THEOREM PipelineKeepsPromise == Spec => KeepsPromise
<1>1. Init => Promise!PromiseInit
  <2>1. ASSUME Init
        PROVE  /\ Live = {} /\ accepted = {}
               /\ \A a \in Arms : Progress(a) = 0
    BY <2>1 DEF Init, Live, Idle, Progress, Arms
  <2> QED
    BY <2>1 DEF Promise!PromiseInit
<1>2. Init => InOrder
  BY InOrderInit
<1>3. IInv /\ InOrder /\ [Next]_vars => InOrder'
  BY InOrderStep DEF IInv
<1>4. IInv /\ InOrder /\ [Next]_vars => [Promise!PromiseNext]_(Promise!promiseVars)
  BY PromiseStep
<1> QED
  BY <1>1, <1>2, <1>3, <1>4, Invariance, PTL DEF Spec, KeepsPromise, Promise!PromiseSpec

=============================================================================
