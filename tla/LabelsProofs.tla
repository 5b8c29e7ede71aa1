----------------------------- MODULE LabelsProofs -----------------------------
(***************************************************************************)
(* Theorems about Labels for every set of models, requests and backfills.  *)
(* The invariant adds to the types what a transaction in progress relies   *)
(* on: Timely, that nothing carries a time that has not come; Skips, that  *)
(* a backfill about to insert knows every weak label committed before it   *)
(* began; Unprotected, that a request past its checks, and a manual label, *)
(* is for a model that has a row and was not reserved early.               *)
(***************************************************************************)
EXTENDS Labels, TLAPS

Timely ==
  /\ \A r \in label : r.at < r.done /\ r.done <= clock
  /\ \A a \in Requests : request[a].pc # "idle" => request[a].at < clock
  /\ \A b \in Backfills : backfill[b].pc # "idle" => backfill[b].at < clock

Skips ==
  \A b \in Backfills : backfill[b].pc = "weak" =>
    \A r \in label : r.source = "weak" /\ r.done <= backfill[b].at => r.uid \in backfill[b].weak

Unprotected ==
  /\ \A a \in Requests :
       /\ request[a].pc # "idle" => model[request[a].uid] # "none"
       /\ request[a].pc = "free" => request[a].uid \notin early
  /\ \A r \in label : r.source = "manual" => model[r.uid] # "none"
  /\ EarlyReservationHolds

LInv == LabelsTypeOK /\ Timely /\ Skips /\ RerunAddsNothing /\ Unprotected

-----------------------------------------------------------------------------

(* Nothing has happened yet.                                               *)
LEMMA LabelsInitially == LabelsInit => LInv
BY LabelsAssumption
DEF LabelsInit, LInv, LabelsTypeOK, Timely, Skips, RerunAddsNothing, Unprotected,
    EarlyReservationHolds, NoRequest, NoBackfill, Times, Row

(* Ingesting, deleting and restoring only change model rows, and none of   *)
(* them takes a row away.                                                  *)
LEMMA CatalogStep ==
  ASSUME LInv, NEW u \in Uids, Ingest(u) \/ DeleteModel(u) \/ RestoreModel(u)
  PROVE  LInv'
<1>1. LabelsTypeOK'
  BY DEF LInv, LabelsTypeOK, Ingest, DeleteModel, RestoreModel
<1>2. \A v \in Uids : model[v] # "none" => model'[v] # "none"
  BY DEF LInv, LabelsTypeOK, Ingest, DeleteModel, RestoreModel
<1>3. UNCHANGED <<label, reserved, early, selection, request, backfill, clock>>
  BY DEF Ingest, DeleteModel, RestoreModel
<1>4. Timely' /\ Skips' /\ RerunAddsNothing'
  BY <1>3 DEF LInv, Timely, Skips, RerunAddsNothing
<1>5. \A r \in label : r.uid \in Uids
  BY DEF LInv, LabelsTypeOK, Row
<1>6. Unprotected'
  BY <1>2, <1>3, <1>5 DEF LInv, LabelsTypeOK, Unprotected, EarlyReservationHolds
<1> QED
  BY <1>1, <1>4, <1>6 DEF LInv

(* A tick of the clock makes no time later than now.                       *)
LEMMA TickStep ==
  ASSUME LInv, Tick
  PROVE  /\ clock \in Times /\ clock' \in Times /\ clock < clock'
         /\ \A r \in label : r.at < r.done /\ r.done <= clock'
BY LabelsAssumption DEF LInv, LabelsTypeOK, Timely, Tick, Times, Row

(* A request passes its first check only for a model that has a row.       *)
LEMMA RequireLiveStep ==
  ASSUME LInv, NEW a \in Requests, NEW u \in Uids, RequireLive(a, u)
  PROVE  LInv'
<1>1. clock \in Times /\ clock' \in Times /\ clock < clock'
      /\ \A r \in label : r.at < r.done /\ r.done <= clock'
  BY TickStep DEF RequireLive
<1>2. model[u] = "live"
  BY DEF RequireLive, Passes
<1>3. LabelsTypeOK'
  BY <1>1 DEF LInv, LabelsTypeOK, RequireLive, tables
<1>4. \A x \in Requests \ {a} : request'[x] = request[x]
  BY DEF LInv, LabelsTypeOK, RequireLive
<1>5. request'[a] = [pc |-> "live", uid |-> u, at |-> clock]
  BY DEF LInv, LabelsTypeOK, RequireLive
<1>6. UNCHANGED <<tables, early, selection, backfill>>
  BY DEF RequireLive
<1>7. Timely'
  <2>1. \A x \in Requests : request'[x].pc # "idle" => request'[x].at < clock'
    BY <1>1, <1>4, <1>5 DEF LInv, LabelsTypeOK, Timely, Times
  <2>2. \A b \in Backfills : backfill[b].pc # "idle" => backfill[b].at < clock'
    BY <1>1 DEF LInv, LabelsTypeOK, Timely, Times
  <2> QED
    BY <1>1, <1>6, <2>1, <2>2 DEF Timely, tables
<1>8. Skips' /\ RerunAddsNothing'
  BY <1>6 DEF LInv, Skips, RerunAddsNothing, tables
<1>9. Unprotected'
  BY <1>2, <1>4, <1>5, <1>6 DEF LInv, Unprotected, EarlyReservationHolds, tables
<1> QED
  BY <1>3, <1>7, <1>8, <1>9 DEF LInv

(* It passes its second check only for a model that is not reserved now,   *)
(* so was not reserved early.                                              *)
LEMMA RefuseReservedStep ==
  ASSUME LInv, NEW a \in Requests, RefuseReserved(a)
  PROVE  LInv'
<1>1. \A x \in Requests \ {a} : request'[x] = request[x]
  BY DEF LInv, LabelsTypeOK, RefuseReserved
<1>2. \/ request'[a] = NoRequest
      \/ /\ request[a].uid \notin reserved
         /\ request[a].pc = "live"
         /\ request'[a] = [pc |-> "free", uid |-> request[a].uid, at |-> request[a].at]
  BY DEF LInv, LabelsTypeOK, RefuseReserved, Passes
<1>3. UNCHANGED <<tables, early, selection, backfill, clock>>
  BY DEF RefuseReserved
<1>4. LabelsTypeOK'
  BY <1>3, LabelsAssumption
  DEF LInv, LabelsTypeOK, RefuseReserved, Passes, tables, NoRequest, Times
<1>5. Timely'
  BY <1>1, <1>2, <1>3 DEF LInv, Timely, tables, NoRequest
<1>6. Skips' /\ RerunAddsNothing'
  BY <1>3 DEF LInv, Skips, RerunAddsNothing, tables
<1>7. Unprotected'
  <2>1. \A x \in Requests : request'[x].pc # "idle" => model'[request'[x].uid] # "none"
    BY <1>1, <1>2, <1>3 DEF LInv, Unprotected, tables, NoRequest
  <2>2. \A x \in Requests : request'[x].pc = "free" => request'[x].uid \notin early'
    BY <1>1, <1>2, <1>3 DEF LInv, LabelsTypeOK, Unprotected, tables, NoRequest
  <2> QED
    BY <1>3, <2>1, <2>2 DEF LInv, Unprotected, EarlyReservationHolds, tables
<1> QED
  BY <1>4, <1>5, <1>6, <1>7 DEF LInv

(* The row a request adds is manual, for a model not reserved early.       *)
LEMMA InsertManualStep ==
  ASSUME LInv, NEW a \in Requests, InsertManual(a)
  PROVE  LInv'
<1> DEFINE row == [uid |-> request[a].uid, source |-> "manual",
                   at |-> request[a].at, done |-> clock]
<1>1. /\ request[a].uid \in Uids /\ request[a].at \in Times /\ clock \in Times
      /\ request[a].at < clock /\ request[a].uid \notin early
      /\ model[request[a].uid] # "none"
  BY DEF LInv, LabelsTypeOK, Timely, Unprotected, InsertManual
<1>2. label' = label \cup {row}
  BY DEF InsertManual
<1>3. UNCHANGED <<model, reserved, early, selection, backfill, clock>>
  BY DEF InsertManual
<1>4. /\ \A x \in Requests \ {a} : request'[x] = request[x]
      /\ request'[a] = NoRequest
  BY DEF LInv, LabelsTypeOK, InsertManual
<1>5. LabelsTypeOK'
  <2>1. label' \subseteq Row
    BY <1>1, <1>2 DEF LInv, LabelsTypeOK, Row, Sources
  <2>2. NoRequest \in [pc : {"idle", "live", "free"}, uid : Uids \cup {NoUid}, at : Times]
    BY LabelsAssumption DEF NoRequest, Times
  <2>3. request' = [request EXCEPT ![a] = NoRequest]
    BY DEF InsertManual
  <2>4. request' \in [Requests ->
                        [pc : {"idle", "live", "free"}, uid : Uids \cup {NoUid}, at : Times]]
    BY <2>2, <2>3 DEF LInv, LabelsTypeOK
  <2>5. \A x \in Requests : request'[x].pc # "idle" => request'[x].uid \in Uids
    BY <1>4 DEF LInv, LabelsTypeOK, NoRequest
  <2> QED
    BY <1>3, <2>1, <2>4, <2>5 DEF LInv, LabelsTypeOK
<1>6. Timely'
  BY <1>1, <1>2, <1>3, <1>4 DEF LInv, Timely, NoRequest, Times
<1>7. Skips' /\ RerunAddsNothing'
  BY <1>2, <1>3 DEF LInv, Skips, RerunAddsNothing
<1>8. Unprotected'
  BY <1>1, <1>2, <1>3, <1>4 DEF LInv, Unprotected, EarlyReservationHolds, NoRequest
<1> QED
  BY <1>5, <1>6, <1>7, <1>8 DEF LInv

(* A backfill begins.                                                      *)
LEMMA ReadModelsStep ==
  ASSUME LInv, NEW b \in Backfills, ReadModels(b)
  PROVE  LInv'
<1>1. clock \in Times /\ clock' \in Times /\ clock < clock'
      /\ \A r \in label : r.at < r.done /\ r.done <= clock'
  BY TickStep DEF ReadModels
<1>2. UNCHANGED <<tables, early, selection, request>>
  BY DEF ReadModels
<1>3. /\ \A x \in Backfills \ {b} : backfill'[x] = backfill[x]
      /\ backfill'[b].pc = "known" /\ backfill'[b].at = clock
  BY DEF LInv, LabelsTypeOK, ReadModels
<1>4. LabelsTypeOK'
  BY <1>1, <1>2 DEF LInv, LabelsTypeOK, ReadModels, tables
<1>5. Timely'
  <2>1. \A x \in Backfills : backfill'[x].pc # "idle" => backfill'[x].at < clock'
    BY <1>1, <1>3 DEF LInv, LabelsTypeOK, Timely, Times
  <2>2. \A x \in Requests : request[x].pc # "idle" => request[x].at < clock'
    BY <1>1 DEF LInv, LabelsTypeOK, Timely, Times
  <2> QED
    BY <1>1, <1>2, <2>1, <2>2 DEF Timely, tables
<1>6. Skips' /\ RerunAddsNothing'
  BY <1>2, <1>3 DEF LInv, Skips, RerunAddsNothing, tables
<1>7. Unprotected'
  BY <1>2 DEF LInv, Unprotected, EarlyReservationHolds, tables
<1> QED
  BY <1>4, <1>5, <1>6, <1>7 DEF LInv

(* It reads every weak label committed so far.                             *)
LEMMA ReadWeakStep ==
  ASSUME LInv, NEW b \in Backfills, ReadWeak(b)
  PROVE  LInv'
<1>1. UNCHANGED <<tables, early, selection, request, clock>>
  BY DEF ReadWeak
<1>2. /\ \A x \in Backfills \ {b} : backfill'[x] = backfill[x]
      /\ backfill'[b].pc = "weak" /\ backfill'[b].at = backfill[b].at
      /\ backfill'[b].weak = WeakUids /\ backfill[b].pc = "known"
  BY DEF LInv, LabelsTypeOK, ReadWeak
<1>3. WeakUids \in SUBSET Uids
  BY DEF WeakUids, LInv, LabelsTypeOK, Row
<1>4. LabelsTypeOK'
  <2>1. backfill \in [Backfills -> [pc : {"idle", "known", "weak"}, at : Times,
                                    known : SUBSET Uids, weak : SUBSET Uids]]
    BY DEF LInv, LabelsTypeOK
  <2>2. backfill' = [backfill EXCEPT ![b] = [@ EXCEPT !.pc = "weak", !.weak = WeakUids]]
    BY <2>1 DEF ReadWeak
  <2>3. [backfill[b] EXCEPT !.pc = "weak", !.weak = WeakUids] \in
          [pc : {"idle", "known", "weak"}, at : Times, known : SUBSET Uids, weak : SUBSET Uids]
    BY <1>3, <2>1
  <2>4. backfill' \in [Backfills -> [pc : {"idle", "known", "weak"}, at : Times,
                                     known : SUBSET Uids, weak : SUBSET Uids]]
    BY <2>1, <2>2, <2>3
  <2> QED
    BY <1>1, <2>4 DEF LInv, LabelsTypeOK, tables, Row, Times
<1>5. Timely'
  BY <1>1, <1>2 DEF LInv, Timely, tables
<1>6. Skips'
  <2>1. label' = label
    BY <1>1 DEF tables
  <2>2. \A r \in label : r.source = "weak" => r.uid \in WeakUids
    BY DEF WeakUids
  <2>3. ASSUME NEW x \in Backfills, x # b, backfill'[x].pc = "weak"
        PROVE  \A r \in label :
                 r.source = "weak" /\ r.done <= backfill'[x].at => r.uid \in backfill'[x].weak
    BY <1>2, <2>3 DEF LInv, Skips
  <2> QED
    BY <1>2, <2>1, <2>2, <2>3 DEF Skips
<1>7. RerunAddsNothing' /\ Unprotected'
  BY <1>1 DEF LInv, RerunAddsNothing, Unprotected, EarlyReservationHolds, tables
<1> QED
  BY <1>4, <1>5, <1>6, <1>7 DEF LInv

(* The rows it adds are for models that had no weak label when it began.   *)
LEMMA InsertWeakStep ==
  ASSUME LInv, NEW b \in Backfills, InsertWeak(b)
  PROVE  LInv'
<1> DEFINE new == [uid : Pending(b), source : {"weak"}, at : {backfill[b].at}, done : {clock}]
<1>1. /\ backfill[b].at \in Times /\ clock \in Times /\ backfill[b].at < clock
      /\ Pending(b) \subseteq Uids
  BY DEF LInv, LabelsTypeOK, Timely, InsertWeak, Pending
<1>2. label' = label \cup new
  BY DEF InsertWeak
<1>3. UNCHANGED <<model, reserved, early, selection, request, clock>>
  BY DEF InsertWeak
<1>4. /\ \A x \in Backfills \ {b} : backfill'[x] = backfill[x]
      /\ backfill'[b] = NoBackfill
  BY DEF LInv, LabelsTypeOK, InsertWeak
<1>5. \A r \in new : /\ r.uid \in Pending(b) /\ r.source = "weak"
                     /\ r.at = backfill[b].at /\ r.done = clock
  OBVIOUS
<1>6. LabelsTypeOK'
  <2>1. label' \subseteq Row
    BY <1>1, <1>2 DEF LInv, LabelsTypeOK, Row, Sources
  <2>2. NoBackfill \in [pc : {"idle", "known", "weak"}, at : Times,
                        known : SUBSET Uids, weak : SUBSET Uids]
    BY LabelsAssumption DEF NoBackfill, Times
  <2> QED
    BY <1>3, <2>1, <2>2 DEF LInv, LabelsTypeOK, InsertWeak
<1>7. Timely'
  <2>1. \A r \in label' : r.at < r.done /\ r.done <= clock
    <3>1. \A r \in new : r.at < r.done /\ r.done <= clock
      BY <1>1, <1>5 DEF Times
    <3> QED
      BY <1>2, <3>1 DEF LInv, Timely
  <2> QED
    BY <1>3, <1>4, <2>1 DEF LInv, Timely, NoBackfill
<1>8. Skips'
  <2>1. \A x \in Backfills : backfill[x].pc = "weak" => ~(clock <= backfill[x].at)
    BY DEF LInv, LabelsTypeOK, Timely, Times
  <2>2. SUFFICES ASSUME NEW x \in Backfills \ {b}, backfill[x].pc = "weak", NEW r \in label',
                        r.source = "weak", r.done <= backfill[x].at
                 PROVE  r.uid \in backfill[x].weak
    BY <1>4 DEF Skips, NoBackfill
  <2>3. r \in label
    BY <1>2, <1>5, <2>1, <2>2
  <2> QED
    BY <2>2, <2>3 DEF LInv, Skips
<1>9. RerunAddsNothing'
  <2>1. SUFFICES ASSUME NEW v \in label', NEW w \in label',
                        v.source = "weak", w.source = "weak", v.uid = w.uid
                 PROVE  w.at < v.done
    BY DEF RerunAddsNothing
  <2>2. CASE v \in label /\ w \in label
    BY <2>1, <2>2 DEF LInv, RerunAddsNothing
  <2>3. CASE v \in new
    <3>1. w.at < clock
      BY <1>1, <1>2, <1>5 DEF LInv, LabelsTypeOK, Timely, Row, Times
    <3> QED
      BY <1>5, <2>3, <3>1
  <2>4. CASE v \in label /\ w \in new
    <3>1. w.uid \notin backfill[b].weak /\ w.at = backfill[b].at
      BY <1>5, <2>4 DEF Pending
    <3>2. ~(v.done <= backfill[b].at)
      BY <2>1, <2>4, <3>1 DEF LInv, Skips, InsertWeak
    <3>3. v.done \in Nat /\ backfill[b].at \in Nat
      BY <1>1, <2>4 DEF LInv, LabelsTypeOK, Row, Times
    <3> QED
      BY <3>1, <3>2, <3>3
  <2> QED
    BY <1>2, <2>2, <2>3, <2>4
<1>10. Unprotected'
  BY <1>2, <1>3, <1>5 DEF LInv, Unprotected, EarlyReservationHolds
<1> QED
  BY <1>6, <1>7, <1>8, <1>9, <1>10 DEF LInv

(* A transaction that ends without a row leaves nothing to rely on.        *)
LEMMA EndRequestStep ==
  ASSUME LInv, NEW a \in Requests, EndRequest(a)
  PROVE  LInv'
<1>1. UNCHANGED <<tables, early, selection, backfill, clock>>
  BY DEF EndRequest
<1>2. /\ \A x \in Requests \ {a} : request'[x] = request[x]
      /\ request'[a] = NoRequest
  BY DEF LInv, LabelsTypeOK, EndRequest
<1>3. LabelsTypeOK'
  BY <1>1, LabelsAssumption DEF LInv, LabelsTypeOK, EndRequest, tables, NoRequest, Times
<1>4. Timely' /\ Unprotected'
  BY <1>1, <1>2 DEF LInv, Timely, Unprotected, EarlyReservationHolds, tables, NoRequest
<1>5. Skips' /\ RerunAddsNothing'
  BY <1>1 DEF LInv, Skips, RerunAddsNothing, tables
<1> QED
  BY <1>3, <1>4, <1>5 DEF LInv

(* The same for a backfill.                                                *)
LEMMA EndBackfillStep ==
  ASSUME LInv, NEW b \in Backfills, EndBackfill(b)
  PROVE  LInv'
<1>1. UNCHANGED <<tables, early, selection, request, clock>>
  BY DEF EndBackfill
<1>2. /\ \A x \in Backfills \ {b} : backfill'[x] = backfill[x]
      /\ backfill'[b] = NoBackfill
  BY DEF LInv, LabelsTypeOK, EndBackfill
<1>3. LabelsTypeOK'
  BY <1>1, LabelsAssumption DEF LInv, LabelsTypeOK, EndBackfill, tables, NoBackfill, Times
<1>4. Timely' /\ Skips'
  BY <1>1, <1>2 DEF LInv, Timely, Skips, tables, NoBackfill
<1>5. RerunAddsNothing' /\ Unprotected'
  BY <1>1 DEF LInv, RerunAddsNothing, Unprotected, EarlyReservationHolds, tables
<1> QED
  BY <1>3, <1>4, <1>5 DEF LInv

(* Selecting changes nothing that is promised; a reservation counts as     *)
(* early only for an object with no model row, which has no labels and     *)
(* which no request is past its checks for.                                *)
LEMMA DevSetStep ==
  ASSUME LInv, SelectDevSet \/ MarkDevSet
  PROVE  LInv'
<1>1. UNCHANGED <<model, label, request, backfill, clock>>
  BY DEF SelectDevSet, MarkDevSet, tables
<1>2. LabelsTypeOK'
  BY LabelsAssumption DEF LInv, LabelsTypeOK, SelectDevSet, MarkDevSet, tables
<1>3. Timely' /\ Skips' /\ RerunAddsNothing'
  BY <1>1 DEF LInv, Timely, Skips, RerunAddsNothing
<1>4. \A u \in early' : u \in early \/ model[u] = "none"
  BY DEF SelectDevSet, MarkDevSet
<1>5. Unprotected'
  BY <1>1, <1>4 DEF LInv, Unprotected, EarlyReservationHolds
<1> QED
  BY <1>2, <1>3, <1>5 DEF LInv

(* Every step of the specification preserves the invariant.                *)
LEMMA LabelsStep ==
  ASSUME LInv, [LabelsNext]_labelVars
  PROVE  LInv'
<1>1. CASE \E u \in Uids : Ingest(u) \/ DeleteModel(u) \/ RestoreModel(u)
  BY <1>1, CatalogStep
<1>2. CASE \E a \in Requests, u \in Uids : RequireLive(a, u)
  BY <1>2, RequireLiveStep
<1>3. CASE \E a \in Requests : RefuseReserved(a)
  BY <1>3, RefuseReservedStep
<1>4. CASE \E a \in Requests : InsertManual(a)
  BY <1>4, InsertManualStep
<1>5. CASE \E b \in Backfills : ReadModels(b)
  BY <1>5, ReadModelsStep
<1>6. CASE \E b \in Backfills : ReadWeak(b)
  BY <1>6, ReadWeakStep
<1>7. CASE \E b \in Backfills : InsertWeak(b)
  BY <1>7, InsertWeakStep
<1>8. CASE SelectDevSet \/ MarkDevSet
  BY <1>8, DevSetStep
<1>9. CASE \E a \in Requests : EndRequest(a)
  BY <1>9, EndRequestStep
<1>10. CASE \E b \in Backfills : EndBackfill(b)
  BY <1>10, EndBackfillStep
<1>11. CASE UNCHANGED labelVars
  BY <1>11 DEF LInv, LabelsTypeOK, Timely, Skips, RerunAddsNothing, Unprotected,
              EarlyReservationHolds, labelVars, tables
<1> QED
  BY <1>1, <1>2, <1>3, <1>4, <1>5, <1>6, <1>7, <1>8, <1>9, <1>10, <1>11
  DEF LabelsNext

(* So it always holds.                                                     *)
LEMMA LabelsInvariant == LabelsSpec => []LInv
<1>1. LInv /\ [LabelsNext]_labelVars => LInv'
  BY LabelsStep
<1> QED
  BY LabelsInitially, <1>1, PTL DEF LabelsSpec

-----------------------------------------------------------------------------

(* Every value stays in its type, and a uid that was reserved early is     *)
(* reserved for good: nothing unmarks a dev set.                           *)
THEOREM LabelsTypeCorrect == LabelsSpec => []LabelsTypeOK
<1>1. LInv => LabelsTypeOK
  BY DEF LInv
<1> QED
  BY LabelsInvariant, <1>1, PTL

(* A backfill that began after a weak label was committed adds no other    *)
(* for that model, however many backfills overlap.                         *)
THEOREM RerunsAddNothing == LabelsSpec => []RerunAddsNothing
<1>1. LInv => RerunAddsNothing
  BY DEF LInv
<1> QED
  BY LabelsInvariant, <1>1, PTL

(* A model reserved before it was ingested never gets a manual label.      *)
THEOREM EarlyReservationsHold == LabelsSpec => []EarlyReservationHolds
<1>1. LInv => EarlyReservationHolds
  BY DEF LInv, Unprotected
<1> QED
  BY LabelsInvariant, <1>1, PTL

(* A weak label a person has reviewed is never the current one again, and  *)
(* no later weak label is: one newer than the review would have begun      *)
(* after the reviewed label was committed, which RerunAddsNothing forbids. *)
THEOREM ReviewedLabelsStay == LabelsSpec => []ReviewedStays
<1>1. ASSUME LInv PROVE ReviewedStays
  <2>1. SUFFICES ASSUME NEW w \in label, NEW m \in label,
                        w.source = "weak", m.source = "manual",
                        w.uid = m.uid, w.done <= m.at,
                        NEW r \in Newest(m.uid)
                 PROVE  r.source = "manual"
    BY DEF ReviewedStays
  <2>2. r \in label /\ r.uid = m.uid /\ m.at <= r.at
    BY <2>1 DEF Newest, RowsOf
  <2>3. /\ r.source \in Sources
        /\ w.done \in Nat /\ m.at \in Nat /\ r.at \in Nat
    BY <1>1, <2>1, <2>2 DEF LInv, LabelsTypeOK, Row, Times
  <2>4. ~(r.at < w.done)
    BY <2>1, <2>2, <2>3
  <2>5. r.source # "weak"
    BY <1>1, <2>1, <2>2, <2>4 DEF LInv, RerunAddsNothing
  <2> QED
    BY <2>3, <2>5 DEF Sources
<1> QED
  BY LabelsInvariant, <1>1, PTL

=============================================================================
