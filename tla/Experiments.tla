---------------------------- MODULE Experiments ----------------------------
(***************************************************************************)
(* What a training run is trained on and what it is scored on: the         *)
(* trainable set, its subsample and its split (ml/train.py, ml/splits.py), *)
(* and the selection an evaluation scores (ml/evaluate.py), beside a       *)
(* catalog that changes under them.  The lists a run or an evaluation is   *)
(* given may be read at any stage of their making (TextureLists), so they  *)
(* are inputs.  What a run does after its row, and whether it has weights  *)
(* yet to be scored with, is TrainingRun's.                                *)
(***************************************************************************)
EXTENDS Catalog

CONSTANTS
  Bucket,       \* Bucket[<<u, seed>>]: where splits.bucket_of puts u
  SampleRank,   \* SampleRank[<<u, seed>>]: subsample_rank
  Seeds,        \* Config.seed
  Configs,      \* what training is started with, see NoConfig
  OldTables,    \* what earlier versions of the trainer may have left in the table
  SubsetLists,  \* what load_subset may return
  DevLists,     \* what load_dev_set may return
  MaxRuns       \* bound: training runs

Partitions == {"train", "val", "test"}
Runs == 1 .. MaxRuns

(* The command line of a training run.                                     *)
NoConfig == [seed |-> 0, limit |-> Unlimited, subset |-> FALSE]

(* split is what the run was trained on and what it held out; its val and  *)
(* test are in the row where recorded is TRUE.  basis and population are   *)
(* history: the set the limit was applied to, and what was kept of it.     *)
NoRun == [exists |-> FALSE, config |-> NoConfig, basis |-> {}, population |-> {},
          split |-> [p \in Partitions |-> {}], scheme |-> "hashed", recorded |-> FALSE]

(* A run of the earlier versions, which shuffled, and did not record what  *)
(* was held out at first.                                                  *)
OldRuns ==
  {old \in [exists : {TRUE}, config : Configs, basis : SUBSET Uids,
            population : SUBSET Uids, split : [Partitions -> SUBSET Uids],
            scheme : {"shuffled"}, recorded : BOOLEAN] :
     /\ old.basis # {} /\ old.population \subseteq old.basis
     /\ \A p \in Partitions : old.split[p] \subseteq old.population
     /\ \A p, q \in Partitions : p # q => old.split[p] \cap old.split[q] = {}}

ASSUME ExperimentsAssumption ==
  /\ Bucket \in [Uids \X Seeds -> Partitions]
  /\ SampleRank \in [Uids \X Seeds -> Nat]
  /\ \A u, o \in Uids, s \in Seeds : SampleRank[<<u, s>>] = SampleRank[<<o, s>>] => u = o
  /\ Configs \subseteq [seed : Seeds, limit : Int \cup {Unlimited}, subset : BOOLEAN]
  /\ OldTables \subseteq [Runs -> OldRuns \cup {NoRun}]
  /\ \A list \in SubsetLists : list \subseteq Uids
  /\ \A list \in DevLists : list \subseteq Gold
  /\ MaxRuns \in Nat

VARIABLES
  job,      \* a training process before its run row, and its samples
  run,      \* run[r]: a training run
  scorer    \* an evaluation on one of the gold lists, between its queries

runVars == <<job, run, scorer>>
experimentVars == <<catalogVars, runVars>>

NoJob == [pc |-> "idle", samples |-> {}]

(* An evaluation on a list.  runs and gone are history: how many runs      *)
(* there were when it began, any of which it may be for; and the uids that *)
(* were deleted since it looked which are rendered.                        *)
NoScorer == [pc |-> "idle", rendered |-> {}, runs |-> 0, gone |-> {}]

RunsTypeOK ==
  /\ job.pc \in {"idle", "samples"} /\ job.samples \subseteq Uids
  /\ \A r \in Runs : /\ run[r].population \subseteq run[r].basis
                     /\ run[r].basis \subseteq Uids
                     /\ run[r].exists <=> run[r].basis # {}
  /\ scorer.pc \in {"idle", "clean"} /\ scorer.rendered \subseteq Gold

(* The table has the runs of earlier versions, on models with a label.     *)
RunsInit ==
  /\ job = NoJob
  /\ run \in OldTables
  /\ \A r \in Runs, u \in Uids : u \in run[r].population => label[u] # Unlabeled
  /\ scorer = NoScorer

-----------------------------------------------------------------------------
(* Pure steps.                                                             *)

(* subsample.  (Mutant: every second of the uids in an order, as the index *)
(* into the sorted list did.)                                              *)
SubsampleByIndex(uids, limit, seed) ==
  LET Place(u) == Cardinality({o \in uids : SampleRank[<<o, seed>>] < SampleRank[<<u, seed>>]}) IN
  IF limit = Unlimited \/ limit >= Cardinality(uids) THEN uids
  ELSE {u \in uids : (Place(u) - Cardinality(uids)) % 2 = 0}
Subsample(uids, limit, seed) ==
  Limited(limit, uids, [u \in uids |-> SampleRank[<<u, seed>>]])

(* stratified_split.                                                       *)
Split(uids, seed) == [p \in Partitions |-> {u \in uids : Bucket[<<u, seed>>] = p}]

(* restrict_to_subset, where there is a subset.                            *)
Restricted(uids, config, list) == IF config.subset THEN uids \cap list ELSE uids

-----------------------------------------------------------------------------
(* A change of the catalog.                                                *)
Change(u) ==
  /\ \/ Restore(u) /\ UNCHANGED scorer
     \/ \E c \in Roster \cup {OffRoster} : Relabel(u, c) /\ UNCHANGED scorer
     \/ /\ Delete(u)
        /\ scorer' = IF scorer.pc = "idle" THEN scorer
                     ELSE [scorer EXCEPT !.gone = @ \cup {u}]
  /\ UNCHANGED <<job, run>>

(* Training: main of ml/train.py, up to the run's row.                     *)
LoadSamples ==
  /\ job.pc = "idle"
  /\ \E r \in Runs : ~run[r].exists
  /\ Trainable # {}
  /\ Event
  /\ job' = [pc |-> "samples", samples |-> Trainable]
  /\ UNCHANGED <<label, live, run, scorer>>

(* The subset, the limit, and the row with its snapshot; a limit of 0, or  *)
(* one that drops all there is, leaves a run without samples.              *)
CreateRun(r, config, list) ==
  LET basis == Restricted(job.samples, config, list)
      population == Subsample(basis, config.limit, config.seed) IN
  /\ job.pc = "samples"
  /\ ~run[r].exists /\ \A q \in 1 .. r - 1 : run[q].exists
  /\ basis # {}
  /\ run' = [run EXCEPT ![r] =
       [exists |-> TRUE, config |-> config, basis |-> basis, population |-> population,
        split |-> Split(population, config.seed), scheme |-> "hashed", recorded |-> TRUE]]
  /\ job' = NoJob
  /\ UNCHANGED <<catalogVars, scorer>>

(* No subset, or nothing of it is trainable; or the process died.          *)
StopJob ==
  /\ job.pc = "samples"
  /\ job' = NoJob
  /\ UNCHANGED <<catalogVars, run, scorer>>

-----------------------------------------------------------------------------
(* Evaluation: _score_run of ml/evaluate.py, which changes nothing here.   *)

(* The split of a run, computed again from what is trainable now, in its   *)
(* subset, within its limit and under its seed; as it is split today.      *)
Again(c, uids) == Split(Subsample(uids, c.limit, c.seed), c.seed)

(* resolve_scored_samples: the recorded uids of val and test that are      *)
(* still trainable.  train is not recorded, and nothing is by the oldest   *)
(* runs, which were split otherwise: the split is computed again then.     *)
(* (Mutant: it always is.)                                                 *)
ResolvedAgain(r, p, list) ==
  Again(run[r].config, Restricted(Trainable, run[r].config, list))[p]
Resolved(r, p, list) ==
  IF p \in {"val", "test"} /\ run[r].recorded
  THEN run[r].split[p] \cap Trainable
  ELSE Again(run[r].config, Restricted(Trainable, run[r].config, list))[p]

(* resolve_external_dev_set: what of the list is rendered, and then what   *)
(* of that is not trainable.                                               *)
LoadRendered(list) ==
  /\ scorer.pc = "idle"
  /\ list \cap Rendered # {}
  /\ scorer' = [NoScorer EXCEPT !.pc = "clean", !.rendered = list \cap Rendered,
                                !.runs = Cardinality({r \in Runs : run[r].exists})]
  /\ UNCHANGED <<catalogVars, job, run>>

(* (Mutant: whatever is rendered.)                                         *)
CleanAll(uids) == uids
Clean(uids) == uids \ Trainable

(* It is scored, or refused.                                               *)
EndEvaluation ==
  /\ scorer.pc = "clean"
  /\ scorer' = NoScorer
  /\ UNCHANGED <<catalogVars, job, run>>

ExperimentsNext ==
  \/ \E u \in Uids : Change(u)
  \/ LoadSamples \/ StopJob
  \/ \E r \in Runs, config \in Configs, list \in SubsetLists : CreateRun(r, config, list)
  \/ \E list \in DevLists : LoadRendered(list)
  \/ EndEvaluation

ExperimentsSpec == CatalogInit /\ RunsInit /\ [][ExperimentsNext]_experimentVars
-----------------------------------------------------------------------------
(* What an evaluation's number is about.  On val and test, where the run   *)
(* recorded them, nothing it was trained on is scored, whichever version   *)
(* split it and whatever the catalog, the limit and the list are by now.   *)
(* On train, the models a run of today's scheme is scored on without       *)
(* having seen them are no more than have come or gone since; of a run     *)
(* that was split otherwise, nothing is claimed where the split is         *)
(* computed again ("a recomputed partition is not theirs").                *)
ScoresFollowTheRun ==
  \A r \in Runs, list \in SubsetLists : run[r].exists =>
    LET basis == Restricted(Trainable, run[r].config, list)
        trained == run[r].split["train"] IN
    /\ run[r].recorded =>
         \A p \in {"val", "test"} : Resolved(r, p, list) \cap trained = {}
    /\ run[r].scheme = "hashed" =>
         Cardinality(Resolved(r, "train", list) \ trained)
           <= Cardinality(basis \ run[r].basis) + Cardinality(run[r].basis \ basis)

(* Between two runs with the same seed and limit, a model that comes or    *)
(* goes takes at most one other with it (the docstring of subsample).      *)
SubsampleIsStable ==
  \A r, q \in Runs :
    /\ run[r].scheme = "hashed" /\ run[q].scheme = "hashed"
    /\ run[r].config.seed = run[q].config.seed /\ run[r].config.limit = run[q].config.limit
    => Cardinality(run[r].population \ run[q].population)
        <= Cardinality(run[r].basis \ run[q].basis) + Cardinality(run[q].basis \ run[r].basis)

(* No run is scored on a gold model it was trained on, however it came by  *)
(* a label; except one that is deleted while the evaluation is between its *)
(* two queries.                                                            *)
GoldIsClean ==
  scorer.pc = "clean" =>
    \A r \in 1 .. scorer.runs :
      Clean(scorer.rendered) \cap run[r].split["train"] \subseteq scorer.gone

=============================================================================
