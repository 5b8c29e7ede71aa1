----------------------------- MODULE ModelCache -----------------------------
(***************************************************************************)
(* Predictions (server/app/predict.py) and the trained model they keep     *)
(* loaded.  Request threads share the dictionary _loaded without a lock;   *)
(* the newest run is looked up, found loaded or not, loaded from the       *)
(* bucket, and put in place of what is there, each its own step.           *)
(*                                                                         *)
(* A model is the id of the run whose weights it holds.  Training runs are *)
(* TrainingRun's; here a run saves weights and completes, in any order,    *)
(* and no run does so twice.                                               *)
(***************************************************************************)
EXTENDS Naturals, FiniteSets

CONSTANTS
  Readers,  \* the threads that predict
  MaxRuns   \* bound: training runs

ASSUME ModelCacheAssumption == MaxRuns \in Nat /\ IsFiniteSet(Readers)

VARIABLES
  trained,  \* the runs that are completed and have weights
  loaded,   \* _loaded: a function from run ids to models
  request   \* request[t]

cacheVars == <<trained, loaded, request>>

Runs == 1 .. MaxRuns
NoRun == 0

(* floor is history: the newest trained run when the request began.        *)
NoPrediction == [pc |-> "idle", run |-> NoRun, model |-> NoRun, floor |-> NoRun]

CacheTypeOK ==
  /\ trained \subseteq Runs
  /\ DOMAIN loaded \subseteq Runs /\ \A r \in DOMAIN loaded : loaded[r] \in Runs
  /\ request \in [Readers ->
       [pc : {"idle", "look", "load", "clear", "store", "answer"},
        run : Runs \cup {NoRun}, model : Runs \cup {NoRun}, floor : Runs \cup {NoRun}]]

CacheInit ==
  /\ trained = {}
  /\ loaded = [r \in {} |-> NoRun]
  /\ request = [t \in Readers |-> NoPrediction]

Newest(runs) == IF runs = {} THEN NoRun ELSE CHOOSE r \in runs : \A o \in runs : o <= r

(* End of main in ml/train.py.                                             *)
Complete(r) ==
  /\ r \in Runs \ trained
  /\ trained' = trained \cup {r}
  /\ UNCHANGED <<loaded, request>>

(* A request arrives; the rest of it up to _current_model reads nothing    *)
(* that is in this module.                                                 *)
Ask(t) ==
  /\ request[t].pc = "idle"
  /\ request' = [request EXCEPT ![t] = [NoPrediction EXCEPT !.pc = "look",
                                                         !.floor = Newest(trained)]]
  /\ UNCHANGED <<trained, loaded>>

(* latest_trained_run_id; without a run there is no prediction.  (Mutant:  *)
(* while a model is loaded, nobody asks for a newer one.)                  *)
LatestLoaded == Newest(IF DOMAIN loaded = {} THEN trained ELSE DOMAIN loaded)
Latest == Newest(trained)

Look(t) ==
  /\ request[t].pc = "look"
  /\ request' = IF Latest = NoRun THEN [request EXCEPT ![t] = NoPrediction]
                ELSE [request EXCEPT ![t].pc = "load", ![t].run = Latest]
  /\ UNCHANGED <<trained, loaded>>

(* _loaded.get, and on a miss the load; a load that fails ends the request *)
(* and leaves the dictionary as it is.                                     *)
Load(t) ==
  LET r == request[t].run IN
  /\ request[t].pc = "load"
  /\ \/ /\ r \in DOMAIN loaded
        /\ request' = [request EXCEPT ![t].pc = "answer", ![t].model = loaded[r]]
     \/ /\ r \notin DOMAIN loaded
        /\ \/ request' = [request EXCEPT ![t].pc = "clear", ![t].model = r]
           \/ request' = [request EXCEPT ![t] = NoPrediction]
  /\ UNCHANGED <<trained, loaded>>

(* (Mutant: what was loaded stays.)                                        *)
ClearedNot == loaded
Cleared == [r \in {} |-> NoRun]

Clear(t) ==
  /\ request[t].pc = "clear"
  /\ loaded' = Cleared
  /\ request' = [request EXCEPT ![t].pc = "store"]
  /\ UNCHANGED trained

(* (Mutant: the model is kept under the run that is newest by now.)        *)
KeyNow(t) == Latest
Key(t) == request[t].run

Store(t) ==
  /\ request[t].pc = "store"
  /\ loaded' = [r \in DOMAIN loaded \cup {Key(t)} |->
                  IF r = Key(t) THEN request[t].model ELSE loaded[r]]
  /\ request' = [request EXCEPT ![t].pc = "answer"]
  /\ UNCHANGED trained

(* classify, classify_upload: the answer, or an error of the render.       *)
Answer(t) ==
  /\ request[t].pc = "answer"
  /\ request' = [request EXCEPT ![t] = NoPrediction]
  /\ UNCHANGED <<trained, loaded>>

CacheNext ==
  \/ \E r \in Runs : Complete(r)
  \/ \E t \in Readers :
       Ask(t) \/ Look(t) \/ Load(t) \/ Clear(t) \/ Store(t) \/ Answer(t)

CacheSpec == CacheInit /\ [][CacheNext]_cacheVars

-----------------------------------------------------------------------------
(* An answer names the run whose weights gave it, and no run older than    *)
(* the newest there was when the request came in, whoever replaces the     *)
(* loaded model meanwhile (predict.py:38-43, 65-74).                       *)
AnswersAreCurrent ==
  \A t \in Readers : request[t].pc = "answer" =>
    /\ request[t].model = request[t].run
    /\ request[t].run >= request[t].floor

(* The loaded models seen from outside: which run a prediction is of, and, *)
(* once it answers, whose weights it answers by.                           *)
Seen(t) ==
  CASE request[t].pc = "idle" -> [stage |-> "none", run |-> NoRun]
    [] request[t].pc = "look" -> [stage |-> "asked", run |-> NoRun]
    [] request[t].pc = "answer" -> [stage |-> "answered", run |-> request[t].model]
    [] OTHER -> [stage |-> "chosen", run |-> request[t].run]

Promise == INSTANCE PredictionPromise WITH
  Callers <- Readers, prediction <- [t \in Readers |-> Seen(t)]

(* Keeping a model loaded is invisible: every prediction is by the run     *)
(* that was newest at one moment while it was asked for (predict.py:40-43, *)
(* where a copy in every instance would be "still correct").               *)
CacheKeepsPromise == Promise!PromiseSpec

(* Clearing and storing are two steps, so two threads may leave two models *)
(* loaded, one each; never more than there are threads.                    *)
ResidentsAreBounded == Cardinality(DOMAIN loaded) <= Cardinality(Readers)

=============================================================================
