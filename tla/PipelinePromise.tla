--------------------------- MODULE PipelinePromise ---------------------------
(***************************************************************************)
(* What the preprocessing pipeline promises about one arm of one model, in *)
(* terms an operator can see: how many stages have left their output, and  *)
(* whether some message still stands for the arm (waiting, being worked    *)
(* on, or quarantined).  Work advances stage by stage and never goes back, *)
(* a stage's output appears only over its predecessor's, and the last      *)
(* message of an arm disappears only when the arm is rendered.             *)
(*                                                                         *)
(* Pipeline implements this: see Pipeline's instance Promise.              *)
(***************************************************************************)
EXTENDS Naturals

CONSTANTS
  Arms,      \* the units of work: a model under one variant
  LastStage  \* the number of stages

VARIABLES
  progress,  \* progress[a]: stages whose output is complete
  promised,  \* the arms whose processing was promised
  kept       \* the arms some message stands for

promiseVars == <<progress, promised, kept>>

PromiseInit ==
  /\ progress = [a \in Arms |-> 0]
  /\ promised = {}
  /\ kept = {}

(* A promise is made only with a message to keep it.                       *)
Accept(a) ==
  /\ promised' = promised \cup {a}
  /\ kept' = kept \cup {a}
  /\ UNCHANGED progress

(* The arms of a model share its source mesh, so several may advance.      *)
Advance(S) ==
  /\ \A a \in S : progress[a] < LastStage
  /\ progress' = [a \in Arms |-> IF a \in S THEN progress[a] + 1 ELSE progress[a]]
  /\ UNCHANGED <<promised, kept>>

(* A retry may bring back an arm that is already done, or was never asked  *)
(* for.                                                                    *)
Revive(a) ==
  /\ kept' = kept \cup {a}
  /\ UNCHANGED <<progress, promised>>

(* Letting go of several arms at once is what acknowledging a batch does.  *)
Release(S) ==
  /\ \A a \in S : progress[a] = LastStage
  /\ kept' = kept \ S
  /\ UNCHANGED <<progress, promised>>

PromiseNext ==
  \/ \E a \in Arms : Accept(a) \/ Revive(a)
  \/ \E S \in SUBSET Arms : Advance(S) \/ Release(S)

PromiseSpec == PromiseInit /\ [][PromiseNext]_promiseVars

=============================================================================
