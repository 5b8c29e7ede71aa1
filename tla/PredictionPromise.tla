-------------------------- MODULE PredictionPromise --------------------------
(***************************************************************************)
(* What predictions promise, in terms a caller can see: a prediction takes *)
(* the newest trained run at one moment between the request and the        *)
(* answer, and its answer is by that run's weights, whatever has trained   *)
(* or been asked meanwhile.  There is no loaded model here: keeping one is *)
(* to be invisible.                                                        *)
(*                                                                         *)
(* ModelCache implements this: see ModelCache's instance Promise.          *)
(***************************************************************************)
EXTENDS Naturals

CONSTANTS
  Callers,  \* the threads that predict
  Runs      \* the training runs, numbered in their order

VARIABLES
  trained,    \* the runs with weights to predict with
  prediction  \* prediction[c]: its stage, and the run of it or of its weights

promiseVars == <<trained, prediction>>

None == [stage |-> "none", run |-> 0]

PromiseInit ==
  /\ trained = {}
  /\ prediction = [c \in Callers |-> None]

Train(r) ==
  /\ trained' = trained \cup {r}
  /\ UNCHANGED prediction

Begin(c) ==
  /\ prediction[c] = None
  /\ prediction' = [prediction EXCEPT ![c] = [stage |-> "asked", run |-> 0]]
  /\ UNCHANGED trained

(* The moment that decides which run answers.                              *)
Choose(c, r) ==
  /\ prediction[c].stage = "asked"
  /\ r \in trained /\ \A o \in trained : o <= r
  /\ prediction' = [prediction EXCEPT ![c] = [stage |-> "chosen", run |-> r]]
  /\ UNCHANGED trained

(* No run has trained, or the chosen one's weights do not load.            *)
Refuse(c) ==
  /\ \/ prediction[c].stage = "asked" /\ trained = {}
     \/ prediction[c].stage = "chosen"
  /\ prediction' = [prediction EXCEPT ![c] = None]
  /\ UNCHANGED trained

(* The weights that answer are the chosen run's.                           *)
Predict(c) ==
  /\ prediction[c].stage = "chosen"
  /\ prediction' = [prediction EXCEPT ![c].stage = "answered"]
  /\ UNCHANGED trained

Leave(c) ==
  /\ prediction[c].stage = "answered"
  /\ prediction' = [prediction EXCEPT ![c] = None]
  /\ UNCHANGED trained

PromiseNext ==
  \/ \E r \in Runs : Train(r)
  \/ \E c \in Callers :
       \/ Begin(c) \/ Refuse(c) \/ Predict(c) \/ Leave(c)
       \/ \E r \in Runs : Choose(c, r)

PromiseSpec == PromiseInit /\ [][PromiseNext]_promiseVars

=============================================================================
