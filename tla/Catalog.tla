------------------------------ MODULE Catalog ------------------------------
(***************************************************************************)
(* The catalog as the experiments read it, and as its users and the        *)
(* backfill change it meanwhile (Labels and Pipeline model how).  A hash   *)
(* of a uid is a constant, one for each salt.  The shape renders of every  *)
(* model here are done.                                                    *)
(***************************************************************************)
EXTENDS Integers, FiniteSets

CONSTANTS
  Corpus,      \* uids seeded for training
  Gold,        \* uids of the selection lvis, reserved
  WeakGold,    \* those of them that are in weak_labels.csv as well
  Roster,      \* taxonomy.ROSTER
  OffRoster,   \* a class name of old rows
  Unlimited,   \* the limit of a command that has no --limit
  MaxEvents    \* bound: commands, processes and changes of the catalog

Uids == Corpus \cup Gold
Unlabeled == "unlabeled"

ASSUME CatalogAssumption ==
  /\ IsFiniteSet(Uids) /\ Corpus \cap Gold = {}
  /\ WeakGold \subseteq Gold
  /\ OffRoster \notin Roster /\ Unlabeled \notin Roster \cup {OffRoster}
  /\ Unlimited \notin Int
  /\ MaxEvents \in Nat

VARIABLES
  label,    \* label[u]: its current class, or Unlabeled
  live,     \* live[u]: deleted_at is null
  events    \* how many of the bounded events there have been

catalogVars == <<label, live, events>>

CatalogTypeOK ==
  /\ label \in [Uids -> Roster \cup {OffRoster, Unlabeled}]
  /\ live \in [Uids -> BOOLEAN]
  /\ events \in 0 .. MaxEvents

CatalogInit ==
  /\ \E c \in Roster, labeled \in {Corpus, Corpus \cup WeakGold} :
       label = [u \in Uids |-> IF u \in labeled THEN c ELSE Unlabeled]
  /\ live = [u \in Uids |-> TRUE]
  /\ events = 0

Event == events < MaxEvents /\ events' = events + 1

(* A person corrects a label of the corpus; the backfill gives one to a    *)
(* reserved model that has none.                                           *)
Relabel(u, c) ==
  /\ Event
  /\ u \in Corpus \/ (u \in WeakGold /\ label[u] = Unlabeled)
  /\ c # label[u]
  /\ label' = [label EXCEPT ![u] = c]
  /\ UNCHANGED live

Delete(u) ==
  /\ Event
  /\ live[u]
  /\ live' = [live EXCEPT ![u] = FALSE]
  /\ UNCHANGED label

Restore(u) ==
  /\ Event
  /\ ~live[u]
  /\ live' = [live EXCEPT ![u] = TRUE]
  /\ UNCHANGED label

(* load_rendered_uids; load_trainable_samples.  The class of a sample is   *)
(* left out, since no step depends on it.                                  *)
Rendered == {u \in Uids : live[u]}
Trainable == {u \in Rendered : label[u] \in Roster}

(* The n of a set that rank lowest.                                        *)
Lowest(n, set, rank) ==
  {x \in set : Cardinality({o \in set : rank[o] < rank[x]}) < n}

(* What a limit takes of a sorted list: it is the end of a slice, so that  *)
(* 0 leaves nothing, and one below it drops from the list's end.           *)
Limited(limit, set, rank) ==
  IF limit = Unlimited THEN set
  ELSE Lowest(IF limit < 0 THEN Cardinality(set) + limit ELSE limit, set, rank)
=============================================================================
