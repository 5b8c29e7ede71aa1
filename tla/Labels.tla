------------------------------- MODULE Labels -------------------------------
(***************************************************************************)
(* The label table and what is decided from it: the labeling endpoint      *)
(* (set_label in server/app/api.py), the weak-label backfill               *)
(* (server/app/backfill_labels.py), the reservation of a dev set           *)
(* (ml/build_dev_set.py), and soft deletion.                               *)
(*                                                                         *)
(* Labels are appended, never changed; the current label of a model is the *)
(* newest by created_at.  created_at is Postgres's now(), the time its     *)
(* transaction began, not the time the row became visible: a transaction   *)
(* that began early and commits late inserts a row that is already old.    *)
(* Each statement of a transaction sees what is committed when it runs, so *)
(* every statement is a step here.                                         *)
(*                                                                         *)
(* The class of a label is left out: nothing below depends on it.          *)
(***************************************************************************)
EXTENDS Naturals

CONSTANTS
  Uids,       \* models, and objects that may become models
  WeakCsv,    \* the uids weak_labels.csv has a class for
  Gold,       \* the LVIS gold objects a dev set is selected from
  Requests,   \* set_label requests in progress at once
  Backfills,  \* operators running the backfill at once
  MaxClock,   \* bound: transactions that write a label
  NoUid

ASSUME LabelsAssumption ==
  /\ WeakCsv \subseteq Uids
  /\ Gold \subseteq Uids
  /\ MaxClock \in Nat
  /\ NoUid \notin Uids

VARIABLES
  model,      \* model[u]: "none", or a row that is "live" or "deleted"
  label,      \* the label rows
  reserved,   \* dev_set_member
  early,      \* history: uids that were reserved before they were ingested
  selection,  \* the dev set's CSV: the uids chosen
  request,    \* request[a]: a set_label request
  backfill,   \* backfill[b]: a run of the backfill
  clock       \* the time of the next transaction to begin

tables == <<model, label, reserved>>
labelVars == <<tables, early, selection, request, backfill, clock>>

Sources == {"weak", "manual"}
Times == 0 .. MaxClock

(* done is when the row was committed: a transaction sees it that begins   *)
(* at that time or later.  The table has no such column.                   *)
Row == [uid : Uids, source : Sources, at : Times, done : Times]

NoRequest == [pc |-> "idle", uid |-> NoUid, at |-> 0]
NoBackfill == [pc |-> "idle", at |-> 0, known |-> {}, weak |-> {}]

LabelsTypeOK ==
  /\ model \in [Uids -> {"none", "live", "deleted"}]
  /\ label \subseteq Row
  /\ reserved \subseteq Uids
  /\ early \subseteq reserved
  /\ selection \subseteq Gold
  /\ request \in [Requests ->
       [pc : {"idle", "live", "free"}, uid : Uids \cup {NoUid}, at : Times]]
  /\ \A a \in Requests : request[a].pc # "idle" => request[a].uid \in Uids
  /\ backfill \in [Backfills ->
       [pc : {"idle", "known", "weak"}, at : Times, known : SUBSET Uids, weak : SUBSET Uids]]
  /\ clock \in Times

LabelsInit ==
  /\ model = [u \in Uids |-> "none"]
  /\ label = {}
  /\ reserved = {}
  /\ early = {}
  /\ selection = {}
  /\ request = [a \in Requests |-> NoRequest]
  /\ backfill = [b \in Backfills |-> NoBackfill]
  /\ clock = 0

(* A transaction that will write labels begins, and takes its created_at.  *)
Tick ==
  /\ clock < MaxClock
  /\ clock' = clock + 1

-----------------------------------------------------------------------------
(* The catalog.                                                            *)

(* A download or an upload leaves the model row.                           *)
Ingest(u) ==
  /\ model[u] = "none"
  /\ model' = [model EXCEPT ![u] = "live"]
  /\ UNCHANGED <<label, reserved, early, selection, request, backfill, clock>>

DeleteModel(u) ==
  /\ model[u] = "live"
  /\ model' = [model EXCEPT ![u] = "deleted"]
  /\ UNCHANGED <<label, reserved, early, selection, request, backfill, clock>>

RestoreModel(u) ==
  /\ model[u] = "deleted"
  /\ model' = [model EXCEPT ![u] = "live"]
  /\ UNCHANGED <<label, reserved, early, selection, request, backfill, clock>>

-----------------------------------------------------------------------------
(* set_label: the live check, the reservation check, the insert.           *)

(* _require_live_model, 404, and then _refuse_dev_set_member, 409.         *)
(* (Mutant: the two checks in the other order.)                            *)
PassesSwapped(check, u) ==
  IF check = 2 THEN model[u] = "live" ELSE u \notin reserved

Passes(check, u) ==
  IF check = 1 THEN model[u] = "live" ELSE u \notin reserved

RequireLive(a, u) ==
  /\ request[a].pc = "idle"
  /\ Passes(1, u)
  /\ Tick
  /\ request' = [request EXCEPT ![a] = [pc |-> "live", uid |-> u, at |-> clock]]
  /\ UNCHANGED <<tables, early, selection, backfill>>

RefuseReserved(a) ==
  /\ request[a].pc = "live"
  /\ request' = [request EXCEPT
       ![a] = IF Passes(2, @.uid) THEN [@ EXCEPT !.pc = "free"] ELSE NoRequest]
  /\ UNCHANGED <<tables, early, selection, backfill, clock>>

InsertManual(a) ==
  /\ request[a].pc = "free"
  /\ label' = label \cup {[uid |-> request[a].uid, source |-> "manual",
                           at |-> request[a].at, done |-> clock]}
  /\ request' = [request EXCEPT ![a] = NoRequest]
  /\ UNCHANGED <<model, reserved, early, selection, backfill, clock>>

-----------------------------------------------------------------------------
(* backfill: one transaction that reads the models, reads the weak labels, *)
(* and inserts one for every row of the CSV that has a model and none.     *)

ReadModels(b) ==
  /\ backfill[b].pc = "idle"
  /\ Tick
  /\ backfill' = [backfill EXCEPT ![b] =
       [pc |-> "known", at |-> clock, known |-> {u \in Uids : model[u] # "none"}, weak |-> {}]]
  /\ UNCHANGED <<tables, early, selection, request>>

(* (Mutant: the models with a manual label are read instead.)              *)
ManualUids == {r.uid : r \in {s \in label : s.source = "manual"}}

WeakUids == {r.uid : r \in {s \in label : s.source = "weak"}}

ReadWeak(b) ==
  /\ backfill[b].pc = "known"
  /\ backfill' = [backfill EXCEPT ![b].pc = "weak", ![b].weak = WeakUids]
  /\ UNCHANGED <<tables, early, selection, request, clock>>

(* (Mutant: models that have a weak label are not skipped.)                *)
PendingAll(b) == WeakCsv \cap backfill[b].known

Pending(b) == WeakCsv \cap (backfill[b].known \ backfill[b].weak)

InsertWeak(b) ==
  /\ backfill[b].pc = "weak"
  /\ label' = label \cup [uid : Pending(b), source : {"weak"},
                          at : {backfill[b].at}, done : {clock}]
  /\ backfill' = [backfill EXCEPT ![b] = NoBackfill]
  /\ UNCHANGED <<model, reserved, early, selection, request, clock>>

-----------------------------------------------------------------------------
(* session_scope: a request or a backfill that raises, or a dry run, ends  *)
(* its transaction without a row.                                          *)

EndRequest(a) ==
  /\ request[a].pc # "idle"
  /\ request' = [request EXCEPT ![a] = NoRequest]
  /\ UNCHANGED <<tables, early, selection, backfill, clock>>

EndBackfill(b) ==
  /\ backfill[b].pc # "idle"
  /\ backfill' = [backfill EXCEPT ![b] = NoBackfill]
  /\ UNCHANGED <<tables, early, selection, request, clock>>

-----------------------------------------------------------------------------
(* build_dev_set: choose among the gold objects that were never ingested,  *)
(* write the CSV, then reserve what the CSV lists.                         *)

SelectDevSet ==
  /\ \E chosen \in SUBSET {u \in Gold : model[u] = "none"} :
       chosen # {} /\ selection' = chosen
  /\ UNCHANGED <<tables, early, request, backfill, clock>>

(* At the end of the selection, and again with --mark-only: an insert that *)
(* does nothing on a conflict, and never removes a reservation.            *)
(* (Mutant: the reservations become those of the latest CSV.)              *)
MarkDevSetReplaces ==
  /\ selection # {}
  /\ reserved' = selection
  /\ early' = early \cup {u \in selection \ reserved : model[u] = "none"}
  /\ UNCHANGED <<model, label, selection, request, backfill, clock>>

MarkDevSet ==
  /\ selection # {}
  /\ reserved' = reserved \cup selection
  /\ early' = early \cup {u \in selection \ reserved : model[u] = "none"}
  /\ UNCHANGED <<model, label, selection, request, backfill, clock>>

-----------------------------------------------------------------------------

LabelsNext ==
  \/ \E u \in Uids : Ingest(u) \/ DeleteModel(u) \/ RestoreModel(u)
  \/ \E a \in Requests :
       \/ \E u \in Uids : RequireLive(a, u)
       \/ RefuseReserved(a) \/ InsertManual(a) \/ EndRequest(a)
  \/ \E b \in Backfills : ReadModels(b) \/ ReadWeak(b) \/ InsertWeak(b) \/ EndBackfill(b)
  \/ SelectDevSet \/ MarkDevSet

LabelsSpec == LabelsInit /\ [][LabelsNext]_labelVars

-----------------------------------------------------------------------------
(* Properties.                                                             *)

RowsOf(u) == {r \in label : r.uid = u}

(* _latest_labels, and the same DISTINCT ON in ml/train.py.  No two        *)
(* transactions begin at one time and each writes one row per model, so    *)
(* the tie-break by id is never needed.                                    *)
Newest(u) == {r \in RowsOf(u) : \A s \in RowsOf(u) : s.at <= r.at}

(* A weak label a person saw and confirmed or corrected is settled: the    *)
(* model's current label is a manual one from then on, however many        *)
(* backfills run, at once or later, and however late they commit.          *)
ReviewedStays ==
  \A w, m \in label :
    /\ w.source = "weak" /\ m.source = "manual"
    /\ w.uid = m.uid /\ w.done <= m.at
    => \A r \in Newest(m.uid) : r.source = "manual"

(* "Re-running never duplicates rows" (backfill_labels.py): a backfill     *)
(* that began after a weak label was committed adds none for that model.   *)
RerunAddsNothing ==
  \A v, w \in label :
    v.source = "weak" /\ w.source = "weak" /\ v.uid = w.uid => w.at < v.done

(* A model reserved before it was ingested never gets a manual label: the  *)
(* request's live check comes before its reservation check, so what it     *)
(* finds live was reserved already ("no window exists in which they are    *)
(* visible and unprotected", build_dev_set.py).                            *)
EarlyReservationHolds ==
  \A r \in label : r.source = "manual" => r.uid \notin early

(* "The API resolves the most recent label as current, so a re-import      *)
(* can't clobber human work" (backfill_labels.py): a model a person has    *)
(* labeled has a manual label as its current one.                          *)
HumanWins ==
  \A m \in label :
    m.source = "manual" => \A r \in Newest(m.uid) : r.source = "manual"

=============================================================================
