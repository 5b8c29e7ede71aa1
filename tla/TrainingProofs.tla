--------------------------- MODULE TrainingProofs ---------------------------
(***************************************************************************)
(* Theorems about TrainingRun for any number of processes, epochs, batches *)
(* and faults.  The invariant adds to the types: Owned, that a row belongs *)
(* to one process and is running as long as that is active; OnCurve, what  *)
(* the loop knows of the curve it has logged; Scored, what an evaluation   *)
(* has read.                                                               *)
(***************************************************************************)
EXTENDS TrainingRun, TLAPS

Active == {"train", "validate", "keep", "report", "finalize", "failing"}

Owned ==
  /\ \A j \in Jobs :
       /\ job[j].pc \in {"none", "queued"} =>
            \E p \in Policies : job[j] = [NoJob EXCEPT !.pc = job[j].pc, !.policy = p]
       /\ job[j].pc \in Active =>
            job[j].run # 0 /\ job[j].epoch # 0 /\ run[job[j].run].status = "running"
       /\ job[j].run # 0 => run[job[j].run].status # "none"
  /\ \A i, j \in Jobs : job[i].run # 0 /\ job[i].run = job[j].run => i = j
  /\ \A r \in RunIds :
       /\ run[r].status = "none" => metric[r] = {} /\ weights[r] = 0
       /\ run[r].status # "completed" => ~run[r].uri /\ run[r].report = 0

Looping == {"train", "validate", "keep"}

(* The epochs whose checkpoint has been decided.                           *)
Decided(j) == IF job[j].pc \in Looping THEN job[j].epoch - 1 ELSE Epochs

(* The losses a curve has at the end of an epoch.                          *)
Ends(curve, epoch) == {m.val : m \in {n \in curve : n.step = epoch * Batches - 1}}

(* The steps on record, in an epoch and at its end.                        *)
Logged(j) ==
  LET r == job[j].run IN
  /\ job[j].pc \in {"validate", "keep"} => job[j].batch = Batches - 1
  /\ job[j].pc \in {"train", "validate"} => \A m \in metric[r] : m.step < Step(j)
  /\ job[j].pc = "keep" =>
       /\ \A m \in metric[r] : m.step <= Step(j)
       /\ Ends(metric[r], job[j].epoch) = {job[j].val}
       /\ job[j].val = NoLoss <=> ~job[j].hasVal

(* The checkpoint that is stored, and why it is that one.                  *)
BestKept(j) ==
  LET r == job[j].run IN
  /\ weights[r] = job[j].kept
  /\ job[j].kept <= Decided(j)
  /\ Decided(j) # 0 => job[j].kept # 0
  /\ job[j].policy = "last" \/ ~job[j].hasVal => job[j].kept = Decided(j)
  /\ job[j].policy # "last" /\ job[j].hasVal =>
       /\ job[j].kept = 0 => job[j].best = NoLoss
       /\ job[j].kept # 0 =>
            job[j].best # NoLoss /\ Ends(metric[r], job[j].kept) = {job[j].best}
       /\ job[j].kept # 0 =>
            /\ job[j].best = NaN <=> NaN \in Ends(metric[r], 1)
            /\ job[j].best = NaN => job[j].kept = 1
       /\ \A epoch \in 1 .. Decided(j) : \A y \in Ends(metric[r], epoch) :
            ~Less(y, job[j].best)

OnCurve ==
  \A j \in Jobs : job[j].pc \in Looping \cup {"report", "finalize"} => Logged(j) /\ BestKept(j)

(* WeightsAreBest, for one process.                                        *)
Published(j) ==
  LET r == job[j].run
      w == weights[r] IN
  r # 0 /\ run[r].status = "completed" =>
    IF job[j].policy = "last" \/ ~job[j].hasVal
    THEN w = Epochs
    ELSE IF NaN \in Ends(metric[r], 1)
    THEN w = 1
    ELSE \A epoch \in 1 .. Epochs : \A x \in Ends(metric[r], w), y \in Ends(metric[r], epoch) :
           x # NaN /\ ~Less(y, x)

Scored ==
  /\ \A r \in RunIds : run[r].status = "completed" => weights[r] # 0
  /\ \A e \in Evals :
       /\ scorer[e].pc # "none" => scorer[e].run # 0
       /\ scorer[e].pc \in {"blob", "score"} => run[scorer[e].run].status = "completed"
       /\ scorer[e].pc = "score" => scorer[e].model = weights[scorer[e].run]
       /\ evaluation[e].status = "completed" => scorer[e].pc = "ended"

TInv ==
  /\ TrainingTypeOK /\ Owned /\ OnCurve /\ Scored /\ ReportsAgree
  /\ \A j \in Jobs : Published(j)

-----------------------------------------------------------------------------
(* Products.                                                               *)

LEMMA Products ==
  ASSUME NEW c \in Nat
  PROVE  /\ \A a \in Nat : a * c \in Nat /\ (a + 1) * c = a * c + c
         /\ \A a, b \in Nat : a <= b => a * c <= b * c
<1>1. \A a \in Nat : a * c \in Nat /\ (a + 1) * c = a * c + c
  OBVIOUS
<1>2. ASSUME NEW a \in Nat, NEW b \in Nat, a <= b PROVE a * c <= b * c
  <2>1. PICK d \in Nat : b = a + d
    BY <1>2
  <2>2. b * c = a * c + d * c /\ d * c \in Nat /\ a * c \in Nat
    BY <2>1
  <2> QED
    BY <2>2
<1> QED
  BY <1>1, <1>2

(* The step that comes next lies between the ends of the epochs.           *)
LEMMA StepBounds ==
  ASSUME TrainingTypeOK, NEW j \in Jobs, job[j].epoch # 0
  PROVE  /\ Step(j) \in 0 .. Epochs * Batches
         /\ Step(j) <= job[j].epoch * Batches - 1
         /\ job[j].batch = Batches - 1 => Step(j) = job[j].epoch * Batches - 1
         /\ \A epoch \in 1 .. job[j].epoch - 1 : epoch * Batches - 1 < Step(j)
         /\ \A epoch \in 1 .. job[j].epoch : epoch * Batches - 1 \in Nat
<1> DEFINE e == job[j].epoch
           b == job[j].batch
<1>1. e \in Nat \ {0} /\ e <= Epochs /\ b \in Nat /\ b <= Batches - 1
  BY TrainingAssumption DEF TrainingTypeOK, EpochOrNone
<1>2. Batches \in Nat \ {0} /\ Epochs \in Nat
  BY TrainingAssumption
<1>3. PICK d \in Nat : e = d + 1
  BY <1>1
<1>4. /\ d * Batches \in Nat /\ e * Batches = d * Batches + Batches
      /\ e * Batches <= Epochs * Batches /\ Epochs * Batches \in Nat
  BY <1>1, <1>2, <1>3, Products
<1>5. Step(j) = d * Batches + b
  <2> HIDE DEF e, b
  <2>1. Step(j) = (e - 1) * Batches + b
    BY DEF Step, e, b
  <2>2. e - 1 = d
    BY <1>3
  <2> QED
    BY <2>1, <2>2
<1>6. ASSUME NEW epoch \in 1 .. e - 1 PROVE epoch * Batches - 1 < Step(j)
  <2>1. epoch \in Nat /\ epoch <= d
    BY <1>1, <1>3
  <2>2. epoch * Batches \in Nat /\ epoch * Batches <= d * Batches
    BY <1>2, <2>1, Products
  <2> HIDE DEF e, b
  <2> QED
    BY <1>1, <1>4, <1>5, <2>2
<1>7. ASSUME NEW epoch \in 1 .. e PROVE epoch * Batches - 1 \in Nat
  <2>1. PICK f \in Nat : epoch = f + 1
    BY <1>1
  <2>2. f * Batches \in Nat /\ epoch * Batches = f * Batches + Batches
    BY <1>2, <2>1, Products
  <2> QED
    BY <1>2, <2>2
<1> HIDE DEF e, b
<1>8. /\ Step(j) \in 0 .. Epochs * Batches
      /\ Step(j) <= e * Batches - 1
      /\ b = Batches - 1 => Step(j) = e * Batches - 1
  BY <1>1, <1>2, <1>4, <1>5
<1> QED
  BY <1>6, <1>7, <1>8 DEF e, b

-----------------------------------------------------------------------------
(* A step of a training process.                                           *)

JobAction(j) == Launch(j) \/ JobStep(j) \/ Raise(j) \/ FinalizeRaises(j) \/ Kill(j)

JobType ==
  [pc : Over \cup {"none", "queued", "train", "validate", "keep", "report", "finalize",
                   "failing"},
   run : 0 .. MaxRuns, epoch : EpochOrNone, batch : 0 .. Batches - 1, val : Losses,
   best : Losses, kept : EpochOrNone, policy : Policies, hasVal : BOOLEAN]

(* It changes its own record, and the row, curve and blob of its run, which*)
(* no process had, or which was running.                                   *)
LEMMA JobMoves ==
  ASSUME TrainingTypeOK, Owned, NEW j \in Jobs, JobAction(j)
  PROVE  /\ UNCHANGED <<evaluation, scorer>> /\ faults' \in 0 .. MaxFaults
         /\ job' = [job EXCEPT ![j] = job'[j]]
         /\ job[j].run # 0 => job'[j].run = job[j].run
         /\ job[j].run = 0 => job'[j].run = 0 \/ run[job'[j].run].status = "none"
         /\ \A r \in RunIds : r # job'[j].run =>
              run'[r] = run[r] /\ metric'[r] = metric[r] /\ weights'[r] = weights[r]
         /\ \A r \in RunIds : run[r].status \in {"completed", "failed"} =>
              run'[r] = run[r] /\ metric'[r] = metric[r] /\ weights'[r] = weights[r]
         /\ DOMAIN run' = RunIds /\ DOMAIN metric' = RunIds /\ DOMAIN weights' = RunIds
<1>0. /\ DOMAIN run = RunIds /\ DOMAIN metric = RunIds /\ DOMAIN weights = RunIds
      /\ DOMAIN job = Jobs /\ faults \in 0 .. MaxFaults /\ MaxFaults \in Nat
  BY TrainingAssumption DEF TrainingTypeOK
<1>1. job[j] = [job[j] EXCEPT !.run = job[j].run] /\ job[j] \in JobType
  BY DEF TrainingTypeOK, JobType
<1>2. job[j].pc \in Active => run[job[j].run].status = "running"
  BY DEF Owned
<1>3. CASE Launch(j) \/ StopBeforeRun(j) \/ Report(j) \/ Raise(j) \/ FinalizeRaises(j) \/ Kill(j)
  BY <1>0, <1>1, <1>3 DEF Launch, Submit, StopBeforeRun, Report, Raise, FinalizeRaises, Kill, JobTo,
     Fault, JobType
<1>4. CASE CreateRun(j)
  <2>1. PICK r \in RunIds, hasVal \in BOOLEAN :
          /\ run[r].status = "none"
          /\ run' = [run EXCEPT ![r].status = "running"]
          /\ job' = [job EXCEPT ![j] = [@ EXCEPT !.pc = "train", !.run = r, !.epoch = 1,
                                                 !.hasVal = hasVal]]
    BY <1>4 DEF CreateRun
  <2>2. job'[j] = [job[j] EXCEPT !.pc = "train", !.run = r, !.epoch = 1, !.hasVal = hasVal]
    BY <1>0, <2>1
  <2>3. job[j].run = 0
    BY <1>4 DEF CreateRun, Owned, NoJob
  <2>5. job'[j].run = r
    BY <1>1, <2>2 DEF JobType
  <2>4. UNCHANGED <<metric, weights, evaluation, scorer, faults>>
    BY <1>4 DEF CreateRun
  <2>6. job' = [job EXCEPT ![j] = job'[j]]
    BY <2>1, <2>2
  <2>7. \A q \in RunIds : q # r => run'[q] = run[q]
    BY <1>0, <2>1
  <2> QED
    BY <1>0, <2>1, <2>3, <2>4, <2>5, <2>6, <2>7
<1>5. CASE TrainBatch(j)
  BY <1>0, <1>1, <1>2, <1>5 DEF TrainBatch, JobTo, Log, JobType, Active
<1>6. CASE Validate(j)
  <2>1. PICK v \in ValLosses(j) :
          Log(j, v) /\ job' = [job EXCEPT ![j].pc = "keep", ![j].val = v]
    BY <1>6 DEF Validate
  <2>2. job'[j] = [job[j] EXCEPT !.pc = "keep", !.val = v] /\ job'[j].run = job[j].run
    BY <1>0, <1>1, <2>1 DEF JobType
  <2>3. job' = [job EXCEPT ![j] = job'[j]]
    BY <1>0, <2>1, <2>2
  <2>4. \A r \in RunIds : r # job[j].run => metric'[r] = metric[r]
    BY <1>0, <2>1 DEF Log
  <2>5. UNCHANGED <<run, weights, evaluation, scorer, faults>> /\ DOMAIN metric' = RunIds
    BY <1>0, <1>6, <2>1 DEF Validate, Log
  <2> QED
    BY <1>0, <1>2, <1>6, <2>2, <2>3, <2>4, <2>5 DEF Validate, Active
<1>7. CASE KeepEpoch(j)
  BY <1>0, <1>1, <1>2, <1>7 DEF KeepEpoch, AfterEpoch, JobType, Active
<1>8. CASE Finalize(j) \/ MarkFailed(j)
  BY <1>0, <1>1, <1>2, <1>8 DEF Finalize, MarkFailed, JobTo, JobType, Active
<1> QED
  BY <1>3, <1>4, <1>5, <1>6, <1>7, <1>8 DEF JobAction, JobStep

LEMMA JobTypes ==
  ASSUME TrainingTypeOK, Owned, NEW j \in Jobs, JobAction(j)
  PROVE  TrainingTypeOK'
<1> DEFINE RunType == [status : Statuses, uri : BOOLEAN, report : EpochOrNone]
           Curves == SUBSET [step : 0 .. Epochs * Batches, val : Losses]
<1>1. UNCHANGED <<evaluation, scorer>> /\ faults' \in 0 .. MaxFaults
  BY JobMoves
<1>2. job \in [Jobs -> JobType]
  BY DEF TrainingTypeOK, JobType
<1>3. job[j] \in JobType /\ run \in [RunIds -> RunType] /\ metric \in [RunIds -> Curves]
      /\ weights \in [RunIds -> EpochOrNone]
  BY <1>2 DEF TrainingTypeOK
<1>4. job[j].pc \in Active => job[j].run \in RunIds /\ job[j].epoch \in 1 .. Epochs
  <2>1. job[j].run \in 0 .. MaxRuns /\ job[j].epoch \in 0 .. Epochs
    BY <1>3 DEF JobType, EpochOrNone
  <2>2. job[j].pc \in Active => job[j].run # 0 /\ job[j].epoch # 0
    BY DEF Owned
  <2> QED
    BY <2>1, <2>2, TrainingAssumption DEF RunIds
<1>5. /\ 0 \in EpochOrNone /\ 1 \in EpochOrNone /\ 0 \in 0 .. Batches - 1
      /\ NoLoss \in Losses /\ \A x \in 1 .. NaN : x \in Losses
      /\ NaN \in Losses /\ \A r \in RunIds : r \in 0 .. MaxRuns
  BY TrainingAssumption DEF EpochOrNone, NoLoss, Losses, NaN, RunIds
<1>6. ASSUME NEW val \in Losses, job[j].pc \in Active, Log(j, val)
      PROVE  metric' \in [RunIds -> Curves]
  <2>1. [step |-> Step(j), val |-> val] \in [step : 0 .. Epochs * Batches, val : Losses]
    <3>1. Step(j) \in 0 .. Epochs * Batches
      BY <1>6, StepBounds DEF Owned
    <3> QED
      BY <1>6, <3>1
  <2>2. metric[job[j].run] \cup {[step |-> Step(j), val |-> val]} \in Curves
    BY <1>3, <1>4, <1>6, <2>1
  <2> QED
    BY <1>3, <1>4, <1>6, <2>2 DEF Log
<1>7. /\ job'[j] \in JobType /\ run' \in [RunIds -> RunType]
      /\ metric' \in [RunIds -> Curves] /\ weights' \in [RunIds -> EpochOrNone]
  <2>1. CASE Launch(j) \/ StopBeforeRun(j) \/ Report(j) \/ Raise(j) \/ FinalizeRaises(j) \/ Kill(j)
    <3>1. UNCHANGED <<run, metric, weights>>
      BY <2>1 DEF Launch, Submit, StopBeforeRun, Report, Raise, FinalizeRaises, Kill
    <3>2. PICK pc \in Over \cup {"queued", "finalize", "failing"}, p \in Policies :
            \/ job' = [job EXCEPT ![j].pc = pc]
            \/ job' = [job EXCEPT ![j].pc = pc, ![j].policy = p]
      BY <2>1 DEF Launch, Submit, StopBeforeRun, Report, Raise, FinalizeRaises, Kill, JobTo, Over,
         Policies
    <3>3. job'[j] \in JobType
      BY <1>2, <1>3, <3>2 DEF JobType
    <3> QED
      BY <1>3, <3>1, <3>3
  <2>2. CASE CreateRun(j)
    <3>1. PICK r \in RunIds, hasVal \in BOOLEAN :
            /\ run' = [run EXCEPT ![r].status = "running"]
            /\ job' = [job EXCEPT ![j] = [@ EXCEPT !.pc = "train", !.run = r, !.epoch = 1,
                                                   !.hasVal = hasVal]]
      BY <2>2 DEF CreateRun
    <3>2. job'[j] = [job[j] EXCEPT !.pc = "train", !.run = r, !.epoch = 1, !.hasVal = hasVal]
      BY <1>2, <3>1
    <3>3. job'[j] \in JobType
      BY <1>3, <1>5, <3>2 DEF JobType
    <3>4. run' \in [RunIds -> RunType]
      BY <1>3, <3>1 DEF Statuses
    <3> QED
      BY <1>3, <2>2, <3>3, <3>4 DEF CreateRun
  <2>3. CASE TrainBatch(j)
    <3>1. metric' \in [RunIds -> Curves]
      BY <1>3, <1>5, <1>6, <2>3 DEF TrainBatch, Active
    <3>2. \/ job' = [job EXCEPT ![j].pc = "validate"]
          \/ /\ job' = [job EXCEPT ![j].batch = @ + 1]
             /\ job[j].batch # Batches - 1
      BY <2>3 DEF TrainBatch, JobTo
    <3>3. job[j].batch # Batches - 1 => job[j].batch + 1 \in 0 .. Batches - 1
      <4> DEFINE batch == job[j].batch
      <4>1. batch \in 0 .. Batches - 1
        BY <1>3 DEF JobType
      <4> HIDE DEF batch
      <4>2. batch # Batches - 1 => batch + 1 \in 0 .. Batches - 1
        BY <4>1, TrainingAssumption
      <4> QED
        BY <4>2 DEF batch
    <3>4. job'[j] \in JobType
      <4>1. \/ job'[j] = [job[j] EXCEPT !.pc = "validate"]
            \/ /\ job'[j] = [job[j] EXCEPT !.batch = job[j].batch + 1]
               /\ job[j].batch + 1 \in 0 .. Batches - 1
        BY <1>2, <3>2, <3>3
      <4> DEFINE next == job[j].batch + 1
      <4>2. CASE job'[j] = [job[j] EXCEPT !.pc = "validate"]
        BY <1>3, <4>2 DEF JobType
      <4>3. CASE job'[j] = [job[j] EXCEPT !.batch = next] /\ next \in 0 .. Batches - 1
        <5> HIDE DEF next
        <5> QED
          BY <1>3, <4>3 DEF JobType
      <4> QED
        BY <4>1, <4>2, <4>3
    <3> QED
      BY <1>3, <2>3, <3>1, <3>4 DEF TrainBatch
  <2>4. CASE Validate(j)
    <3>1. PICK v \in ValLosses(j) :
            Log(j, v) /\ job' = [job EXCEPT ![j].pc = "keep", ![j].val = v]
      BY <2>4 DEF Validate
    <3>2. v \in Losses
      BY <1>5, <3>1 DEF ValLosses
    <3>3. job'[j] \in JobType
      BY <1>2, <1>3, <3>1, <3>2 DEF JobType
    <3>4. metric' \in [RunIds -> Curves]
      BY <1>6, <2>4, <3>1, <3>2 DEF Validate, Active
    <3> QED
      BY <1>3, <2>4, <3>3, <3>4 DEF Validate
  <2>5. CASE KeepEpoch(j)
    <3>1. job[j].pc \in Active /\ job[j].epoch \in EpochOrNone
      BY <1>3, <2>5 DEF KeepEpoch, Active, JobType
    <3>2. weights' \in [RunIds -> EpochOrNone]
      BY <1>3, <1>4, <2>5, <3>1 DEF KeepEpoch
    <3>3. job'[j] = AfterEpoch(j)
      BY <1>2, <2>5 DEF KeepEpoch
    <3>4. AfterEpoch(j) \in JobType
      <4> DEFINE K == IF Keeping(j)
                      THEN [job[j] EXCEPT !.kept = job[j].epoch, !.best = job[j].val]
                      ELSE job[j]
      <4>1. K \in JobType /\ K.epoch = job[j].epoch
        BY <1>3 DEF JobType
      <4>2. AfterEpoch(j) = IF job[j].epoch = Epochs
                            THEN [K EXCEPT !.pc = "report"]
                            ELSE [K EXCEPT !.pc = "train", !.epoch = @ + 1, !.batch = 0]
        BY DEF AfterEpoch
      <4>3. job[j].epoch # Epochs => job[j].epoch + 1 \in EpochOrNone
        BY <1>4, <3>1, TrainingAssumption DEF EpochOrNone
      <4> HIDE DEF K
      <4> QED
        BY <1>5, <4>1, <4>2, <4>3 DEF JobType
    <3> QED
      BY <1>3, <2>5, <3>2, <3>3, <3>4 DEF KeepEpoch
  <2>6. CASE Finalize(j) \/ MarkFailed(j)
    <3>1. job'[j] \in JobType
      <4>1. job' = [job EXCEPT ![j].pc = "ended"]
        BY <2>6 DEF Finalize, MarkFailed, JobTo
      <4> QED
        BY <1>2, <1>3, <4>1 DEF JobType, Over
    <3>2. run' \in [RunIds -> RunType]
      <4>1. CASE Finalize(j)
        <5> DEFINE row == [status |-> "completed", uri |-> TRUE,
                           report |-> IF job[j].hasVal THEN job[j].kept ELSE 0]
        <5>1. (IF job[j].hasVal THEN job[j].kept ELSE 0) \in EpochOrNone
          BY <1>3, <1>5 DEF JobType
        <5>2. row \in RunType
          BY <5>1 DEF Statuses
        <5>3. run' = [run EXCEPT ![job[j].run] = row]
          BY <4>1 DEF Finalize
        <5> HIDE DEF row
        <5> QED
          BY <1>3, <5>2, <5>3
      <4>2. CASE MarkFailed(j)
        <5>1. run' = [run EXCEPT ![job[j].run].status = "failed"]
          BY <4>2 DEF MarkFailed
        <5> QED
          BY <1>3, <5>1 DEF Statuses
      <4> QED
        BY <2>6, <4>1, <4>2
    <3> QED
      BY <1>3, <2>6, <3>1, <3>2 DEF Finalize, MarkFailed
  <2> QED
    BY <2>1, <2>2, <2>3, <2>4, <2>5, <2>6 DEF JobAction, JobStep
<1>8. job' \in [Jobs -> JobType]
  BY <1>2, <1>7, JobMoves
<1> QED
  BY <1>1, <1>7, <1>8 DEF TrainingTypeOK, JobType

(* The other processes keep what is theirs.                                *)
LEMMA OthersKeep ==
  ASSUME TrainingTypeOK, Owned, NEW j \in Jobs, JobAction(j), NEW i \in Jobs, i # j
  PROVE  /\ job'[i] = job[i]
         /\ job[i].run # 0 =>
              LET r == job[i].run IN
              r # job'[j].run /\ run'[r] = run[r] /\ metric'[r] = metric[r] /\ weights'[r] = weights[r]
<1>1. job'[i] = job[i]
  BY JobMoves DEF TrainingTypeOK
<1>2. job[i].run # 0 => job[i].run # job'[j].run /\ job[i].run \in RunIds
  <2>1. job[i].run \in 0 .. MaxRuns /\ MaxRuns \in Nat
    BY TrainingAssumption DEF TrainingTypeOK
  <2>2. job[i].run # 0 => run[job[i].run].status # "none" /\ job[i].run # job[j].run
    BY DEF Owned
  <2>3. /\ job[j].run # 0 => job'[j].run = job[j].run
        /\ job[j].run = 0 => job'[j].run = 0 \/ run[job'[j].run].status = "none"
    BY JobMoves
  <2> QED
    BY <2>1, <2>2, <2>3 DEF RunIds
<1> QED
  BY <1>1, <1>2, JobMoves

LEMMA JobOwned ==
  ASSUME TrainingTypeOK, Owned, NEW j \in Jobs, JobAction(j)
  PROVE  Owned'
<1>0. job[j] \in JobType /\ job \in [Jobs -> JobType]
  BY DEF TrainingTypeOK, JobType
<1>1. /\ job[j].pc \in {"none", "queued"} =>
           \E p \in Policies : job[j] = [NoJob EXCEPT !.pc = job[j].pc, !.policy = p]
      /\ job[j].pc \in Active =>
           job[j].run # 0 /\ job[j].epoch # 0 /\ run[job[j].run].status = "running"
      /\ job[j].run # 0 => run[job[j].run].status # "none"
  BY DEF Owned
<1>2. /\ job[j].pc \in Active => job[j].run \in RunIds
      /\ job[j].run # 0 => job[j].run \in RunIds
  <2>1. job[j].run \in 0 .. MaxRuns
    BY <1>0 DEF JobType
  <2>2. job[j].pc \in Active => job[j].run # 0
    BY <1>1
  <2> QED
    BY <2>1, <2>2, TrainingAssumption DEF RunIds
<1>3. DOMAIN run = RunIds /\ \A r \in RunIds :
        /\ DOMAIN run[r] = {"status", "uri", "report"}
        /\ run[r].status # "completed" => ~run[r].uri /\ run[r].report = 0
  BY DEF TrainingTypeOK, Owned
<1> DEFINE Own(i) ==
      /\ job'[i].pc \in {"none", "queued"} =>
           \E p \in Policies : job'[i] = [NoJob EXCEPT !.pc = job'[i].pc, !.policy = p]
      /\ job'[i].pc \in Active =>
           job'[i].run # 0 /\ job'[i].epoch # 0 /\ run'[job'[i].run].status = "running"
      /\ job'[i].run # 0 => run'[job'[i].run].status # "none"
    Row(r) == /\ run'[r].status = "none" => metric'[r] = {} /\ weights'[r] = 0
              /\ run'[r].status # "completed" => ~run'[r].uri /\ run'[r].report = 0
<1>4. /\ Own(j)
      /\ job'[j].run # 0 /\ run'[job'[j].run].status # "completed" =>
           ~run'[job'[j].run].uri /\ run'[job'[j].run].report = 0
  <2>1. CASE Launch(j)
    <3>1. PICK p \in Policies : job' = [job EXCEPT ![j].pc = "queued", ![j].policy = p]
      BY <2>1 DEF Launch, Submit
    <3>2. job'[j] = [NoJob EXCEPT !.pc = "queued", !.policy = p]
      BY <1>0, <1>1, <2>1, <3>1 DEF Launch, Submit, NoJob
    <3> QED
      BY <2>1, <3>2 DEF Launch, Submit, NoJob, Active
  <2>2. CASE StopBeforeRun(j) \/ Report(j) \/ Raise(j) \/ FinalizeRaises(j) \/ Kill(j)
    <3>1. UNCHANGED run
      BY <2>2 DEF StopBeforeRun, Report, Raise, FinalizeRaises, Kill
    <3>2. PICK pc \in Over \cup {"finalize", "failing"} :
            /\ job' = [job EXCEPT ![j].pc = pc]
            /\ pc \in {"finalize", "failing"} => job[j].pc \in Active
      BY <2>2 DEF StopBeforeRun, Report, Raise, FinalizeRaises, Kill, JobTo, Over, Active
    <3>3. job'[j] = [job[j] EXCEPT !.pc = pc]
      BY <1>0, <3>2
    <3>4. job'[j].pc = pc /\ job'[j].run = job[j].run /\ job'[j].epoch = job[j].epoch
      BY <1>0, <3>3 DEF JobType
    <3> QED
      BY <1>1, <1>2, <1>3, <3>1, <3>2, <3>4 DEF Over, Active
  <2>3. CASE CreateRun(j)
    <3>1. PICK r \in RunIds, hasVal \in BOOLEAN :
            /\ run[r].status = "none"
            /\ run' = [run EXCEPT ![r].status = "running"]
            /\ job' = [job EXCEPT ![j] = [@ EXCEPT !.pc = "train", !.run = r, !.epoch = 1,
                                                   !.hasVal = hasVal]]
      BY <2>3 DEF CreateRun
    <3>2. job'[j] = [job[j] EXCEPT !.pc = "train", !.run = r, !.epoch = 1, !.hasVal = hasVal]
      BY <1>0, <3>1
    <3>3. job'[j].pc = "train" /\ job'[j].run = r /\ job'[j].epoch = 1
      BY <1>0, <3>2 DEF JobType
    <3>4. /\ run'[r].status = "running" /\ run'[r].uri = run[r].uri
          /\ run'[r].report = run[r].report
      BY <1>3, <3>1
    <3>5. run[r].status # "completed" /\ r # 0
      BY <3>1, TrainingAssumption DEF RunIds
    <3>6. ~run'[r].uri /\ run'[r].report = 0
      BY <1>3, <3>4, <3>5
    <3>7. Own(j)
      BY <3>3, <3>4, <3>5
    <3> QED
      BY <3>3, <3>6, <3>7
  <2>4. CASE TrainBatch(j) \/ Validate(j) \/ KeepEpoch(j)
    <3>1. UNCHANGED run /\ job[j].pc \in Active
      BY <2>4 DEF TrainBatch, Validate, KeepEpoch, Active
    <3>2. /\ job'[j].pc \in {"train", "validate", "keep", "report"}
          /\ job'[j].run = job[j].run /\ job'[j].epoch # 0
      <4>1. job[j].epoch \in Nat /\ job[j].epoch # 0
        <5>1. job[j].epoch \in 0 .. Epochs
          BY <1>0 DEF JobType, EpochOrNone
        <5>2. job[j].epoch # 0
          BY <1>1, <3>1
        <5> QED
          BY <5>1, <5>2, TrainingAssumption
      <4>2. CASE TrainBatch(j)
        BY <1>0, <4>1, <4>2 DEF TrainBatch, JobTo, JobType
      <4>3. CASE Validate(j)
        BY <1>0, <4>1, <4>3 DEF Validate, JobType
      <4>4. CASE KeepEpoch(j)
        BY <1>0, <4>1, <4>4 DEF KeepEpoch, AfterEpoch, JobType
      <4> QED
        BY <2>4, <4>2, <4>3, <4>4
    <3> QED
      BY <1>1, <1>2, <1>3, <3>1, <3>2 DEF Active
  <2>5. CASE Finalize(j) \/ MarkFailed(j)
    <3>1. job' = [job EXCEPT ![j].pc = "ended"] /\ job[j].pc \in Active
      BY <2>5 DEF Finalize, MarkFailed, JobTo, Active
    <3>2. job'[j].pc = "ended" /\ job'[j].run = job[j].run
      BY <1>0, <3>1 DEF JobType
    <3>3. /\ run'[job[j].run].status \in {"completed", "failed"}
          /\ run'[job[j].run].status = "failed" =>
               /\ run'[job[j].run].uri = run[job[j].run].uri
               /\ run'[job[j].run].report = run[job[j].run].report
      BY <1>2, <1>3, <2>5, <3>1 DEF Finalize, MarkFailed
    <3> QED
      BY <1>1, <1>2, <1>3, <3>1, <3>2, <3>3 DEF Active
  <2> QED
    BY <2>1, <2>2, <2>3, <2>4, <2>5 DEF JobAction, JobStep
<1>5. ASSUME NEW i \in Jobs PROVE Own(i)
  <2>1. CASE i = j
    BY <1>4, <2>1
  <2>2. CASE i # j
    <3>1. /\ job'[i] = job[i]
          /\ job[i].run # 0 => run'[job[i].run] = run[job[i].run]
      BY <2>2, OthersKeep
    <3>2. /\ job[i].pc \in {"none", "queued"} =>
               \E p \in Policies : job[i] = [NoJob EXCEPT !.pc = job[i].pc, !.policy = p]
          /\ job[i].pc \in Active =>
               job[i].run # 0 /\ job[i].epoch # 0 /\ run[job[i].run].status = "running"
          /\ job[i].run # 0 => run[job[i].run].status # "none"
      BY DEF Owned
    <3>3. job'[i].pc \in {"none", "queued"} =>
            \E p \in Policies : job'[i] = [NoJob EXCEPT !.pc = job'[i].pc, !.policy = p]
      BY <3>1, <3>2
    <3>4. /\ job'[i].pc \in Active =>
               job'[i].run # 0 /\ job'[i].epoch # 0 /\ run'[job'[i].run].status = "running"
          /\ job'[i].run # 0 => run'[job'[i].run].status # "none"
      BY <3>1, <3>2
    <3> QED
      BY <3>3, <3>4
  <2> QED
    BY <2>1, <2>2
<1>6. ASSUME NEW i \in Jobs, NEW k \in Jobs, job'[i].run # 0, job'[i].run = job'[k].run
      PROVE  i = k
  <2>1. CASE i # j /\ k # j
    <3>1. job'[i] = job[i] /\ job'[k] = job[k]
      BY <2>1, OthersKeep
    <3>2. job[i].run # 0 /\ job[i].run = job[k].run
      BY <1>6, <3>1
    <3>3. \A a, b \in Jobs : job[a].run # 0 /\ job[a].run = job[b].run => a = b
      BY DEF Owned
    <3> QED
      BY <3>2, <3>3
  <2>2. CASE i # j /\ k = j
    <3>1. job'[i] = job[i] /\ (job[i].run # 0 => job[i].run # job'[j].run)
      BY <2>2, OthersKeep
    <3> QED
      BY <1>6, <2>2, <3>1
  <2>3. CASE i = j /\ k # j
    <3>1. job'[k] = job[k] /\ (job[k].run # 0 => job[k].run # job'[j].run)
      BY <2>3, OthersKeep
    <3> QED
      BY <1>6, <2>3, <3>1
  <2> QED
    BY <2>1, <2>2, <2>3
<1>7. ASSUME NEW r \in RunIds PROVE Row(r)
  <2>1. CASE r = job'[j].run
    <3>1. r # 0
      BY TrainingAssumption DEF RunIds
    <3> QED
      BY <1>4, <2>1, <3>1
  <2>2. CASE r # job'[j].run
    <3>1. run'[r] = run[r] /\ metric'[r] = metric[r] /\ weights'[r] = weights[r]
      BY <2>2, JobMoves
    <3> QED
      BY <3>1 DEF Owned
  <2> QED
    BY <2>1, <2>2
<1> QED
  BY <1>5, <1>6, <1>7 DEF Owned

-----------------------------------------------------------------------------
(* The curve.                                                              *)

(* A row that is logged changes no epoch that is over.                     *)
LEMMA LogKeeps ==
  ASSUME TrainingTypeOK, NEW j \in Jobs, job[j].epoch # 0, job[j].run \in RunIds,
         NEW v, Log(j, v)
  PROVE  /\ metric'[job[j].run] = metric[job[j].run] \cup {[step |-> Step(j), val |-> v]}
         /\ \A epoch \in 1 .. job[j].epoch - 1 :
              Ends(metric'[job[j].run], epoch) = Ends(metric[job[j].run], epoch)
<1>1. metric'[job[j].run] = metric[job[j].run] \cup {[step |-> Step(j), val |-> v]}
  BY DEF TrainingTypeOK, Log
<1>2. ASSUME NEW epoch \in 1 .. job[j].epoch - 1
      PROVE  Ends(metric'[job[j].run], epoch) = Ends(metric[job[j].run], epoch)
  <2>1. Step(j) # epoch * Batches - 1
    <3>1. epoch * Batches - 1 < Step(j) /\ Step(j) \in Nat
      BY StepBounds, TrainingAssumption
    <3>2. epoch * Batches - 1 \in Nat
      <4>1. epoch \in 1 .. job[j].epoch
        BY DEF TrainingTypeOK, EpochOrNone
      <4> QED
        BY <4>1, StepBounds
    <3> QED
      BY <3>1, <3>2
  <2>2. {n \in metric'[job[j].run] : n.step = epoch * Batches - 1}
          = {n \in metric[job[j].run] : n.step = epoch * Batches - 1}
    BY <1>1, <2>1
  <2> QED
    BY <2>2 DEF Ends
<1> QED
  BY <1>1, <1>2

(* The processes that do not move.                                         *)
LEMMA OthersOnCurve ==
  ASSUME TInv, NEW j \in Jobs, JobAction(j), NEW i \in Jobs, i # j,
         job'[i].pc \in Looping \cup {"report", "finalize"}
  PROVE  Logged(i)' /\ BestKept(i)'
<1>1. job'[i] = job[i] /\ job[i].pc \in Active
  BY OthersKeep DEF TInv, Looping, Active
<1>2. job[i].run # 0
  BY <1>1 DEF TInv, Owned
<1>3. metric'[job[i].run] = metric[job[i].run] /\ weights'[job[i].run] = weights[job[i].run]
  BY <1>2, OthersKeep DEF TInv
<1>4. Logged(i) /\ BestKept(i)
  BY <1>1 DEF TInv, OnCurve
<1>5. Step(i)' = Step(i) /\ Decided(i)' = Decided(i)
  BY <1>1 DEF Step, Decided
<1>6. Logged(i)'
  BY <1>1, <1>3, <1>4, <1>5 DEF Logged
<1>7. BestKept(i)'
  BY <1>1, <1>3, <1>4, <1>5 DEF BestKept
<1> QED
  BY <1>6, <1>7

(* The process that moves.                                                 *)
LEMMA JobOnCurve ==
  ASSUME TInv, NEW j \in Jobs, JobAction(j),
         job'[j].pc \in Looping \cup {"report", "finalize"}
  PROVE  Logged(j)' /\ BestKept(j)'
<1>0. TrainingTypeOK /\ Owned /\ job \in [Jobs -> JobType] /\ job[j] \in JobType
  BY DEF TInv, TrainingTypeOK, JobType
<1>1. job[j].pc \in Active => job[j].run \in RunIds /\ job[j].epoch \in 1 .. Epochs
  <2>1. job[j].run \in 0 .. MaxRuns /\ job[j].epoch \in 0 .. Epochs
    BY <1>0 DEF JobType, EpochOrNone
  <2>2. job[j].pc \in Active => job[j].run # 0 /\ job[j].epoch # 0
    BY <1>0 DEF Owned
  <2> QED
    BY <2>1, <2>2, TrainingAssumption DEF RunIds
<1>2. job[j].pc \in Looping \cup {"report", "finalize"} => Logged(j) /\ BestKept(j)
  BY DEF TInv, OnCurve
<1>3. Epochs \in Nat \ {0} /\ Batches \in Nat \ {0} /\ NaN \in Nat /\ NaN > 1 /\ NoLoss = 0
  BY TrainingAssumption DEF NaN, NoLoss
<1>4. CASE CreateRun(j)
  <2>1. PICK r \in RunIds, hasVal \in BOOLEAN :
          /\ run[r].status = "none"
          /\ job' = [job EXCEPT ![j] = [@ EXCEPT !.pc = "train", !.run = r, !.epoch = 1,
                                                 !.hasVal = hasVal]]
    BY <1>4 DEF CreateRun
  <2>2. PICK p \in Policies : job[j] = [NoJob EXCEPT !.pc = "queued", !.policy = p]
    <3>1. job[j].pc = "queued"
      BY <1>4 DEF CreateRun
    <3>2. job[j].pc \in {"none", "queued"} =>
            \E p \in Policies : job[j] = [NoJob EXCEPT !.pc = job[j].pc, !.policy = p]
      BY <1>0 DEF Owned
    <3> QED
      BY <3>1, <3>2
  <2>3. job'[j] = [job[j] EXCEPT !.pc = "train", !.run = r, !.epoch = 1, !.hasVal = hasVal]
    BY <1>0, <2>1
  <2>4. /\ job'[j].pc = "train" /\ job'[j].run = r /\ job'[j].epoch = 1
        /\ job'[j].kept = 0 /\ job'[j].best = NoLoss
    BY <2>2, <2>3 DEF NoJob
  <2>5. metric'[r] = {} /\ weights'[r] = 0
    BY <1>0, <1>4, <2>1 DEF CreateRun, Owned
  <2>6. Decided(j)' = 0
    BY <2>4 DEF Decided, Looping
  <2>7. Logged(j)'
    BY <2>4, <2>5 DEF Logged
  <2>8. BestKept(j)'
    BY <1>3, <2>4, <2>5, <2>6 DEF BestKept
  <2> QED
    BY <2>7, <2>8
<1>5. CASE TrainBatch(j)
  <2> DEFINE r == job[j].run
             e == job[j].epoch
             b == job[j].batch
  <2>1. job[j].pc = "train" /\ r \in RunIds /\ e \in 1 .. Epochs /\ b \in 0 .. Batches - 1
    BY <1>0, <1>1, <1>5 DEF TrainBatch, Active, JobType
  <2>2. PICK moved \in {FALSE, TRUE} :
          /\ moved => job' = [job EXCEPT ![j].batch = @ + 1] /\ b # Batches - 1
          /\ ~moved => job' = [job EXCEPT ![j].pc = "validate"] /\ b = Batches - 1
                       /\ metric' = metric
    BY <1>5 DEF TrainBatch, JobTo
  <2>3. /\ moved => job'[j] = [job[j] EXCEPT !.batch = b + 1]
        /\ ~moved => job'[j] = [job[j] EXCEPT !.pc = "validate"]
    BY <1>0, <2>2
  <2>4. /\ job'[j].run = r /\ job'[j].epoch = e /\ job'[j].val = job[j].val
        /\ job'[j].best = job[j].best /\ job'[j].kept = job[j].kept
        /\ job'[j].policy = job[j].policy /\ job'[j].hasVal = job[j].hasVal
        /\ moved => job'[j].batch = b + 1 /\ job'[j].pc = "train"
        /\ ~moved => job'[j].batch = b /\ job'[j].pc = "validate"
    BY <1>0, <2>1, <2>3 DEF JobType
  <2>5. metric' = metric \/ Log(j, NoLoss)
    BY <1>5 DEF TrainBatch
  <2>6. /\ metric'[r] = metric[r] \/ metric'[r] = metric[r] \cup {[step |-> Step(j), val |-> NoLoss]}
        /\ \A epoch \in 1 .. e - 1 : Ends(metric'[r], epoch) = Ends(metric[r], epoch)
    BY <1>0, <2>1, <2>5, LogKeeps
  <2>7. /\ moved => Step(j)' = Step(j) + 1
        /\ ~moved => Step(j)' = Step(j)
        /\ Step(j) \in Nat
    <3>1. Step(j) \in Nat
      BY <1>0, <2>1, StepBounds, <1>3
    <3>2. (e - 1) * Batches \in Nat
      BY <1>3, <2>1, Products
    <3> DEFINE x == (e - 1) * Batches
    <3>3. Step(j) = x + b /\ Step(j)' = x + job'[j].batch
      BY <2>4 DEF Step
    <3> HIDE DEF x, b
    <3>4. b \in Nat
      BY <2>1, <1>3 DEF b
    <3> QED
      BY <2>2, <2>4, <3>1, <3>2, <3>3, <3>4 DEF x, b
  <2>8. Logged(j)'
    <3>1. \A m \in metric[r] : m.step < Step(j) /\ m.step \in Nat
      BY <1>0, <1>2, <1>3, <2>1 DEF Logged, Looping, TrainingTypeOK
    <3>2. \A m \in metric'[r] : m.step < Step(j)'
      BY <2>2, <2>6, <2>7, <3>1
    <3>3. ~moved => job'[j].batch = Batches - 1
      BY <2>2, <2>4
    <3> HIDE DEF r
    <3> QED
      BY <2>4, <3>2, <3>3 DEF Logged
  <2>9. BestKept(j)'
    <3>1. Decided(j) = e - 1 /\ Decided(j)' = e - 1
      BY <2>1, <2>4 DEF Decided, Looping
    <3>2. weights' = weights
      BY <1>5 DEF TrainBatch
    <3>3. BestKept(j)
      BY <1>2, <2>1 DEF Looping
    <3>4. job[j].kept \in Nat
      BY <1>0, <1>3 DEF JobType, EpochOrNone
    <3>5. job[j].kept # 0 => job[j].kept \in 1 .. e - 1
      BY <2>1, <3>1, <3>3, <3>4 DEF BestKept
    <3>7. job[j].kept # 0 => 1 \in 1 .. e - 1
      <4> HIDE DEF r
      <4> QED
        BY <2>1, <3>5
    <3>6. job[j].kept # 0 => /\ Ends(metric'[r], job[j].kept) = Ends(metric[r], job[j].kept)
                             /\ Ends(metric'[r], 1) = Ends(metric[r], 1)
      BY <2>6, <3>5, <3>7
    <3> HIDE DEF r, e
    <3> QED
      BY <2>4, <2>6, <3>1, <3>2, <3>3, <3>6 DEF BestKept, r
  <2> QED
    BY <2>8, <2>9
<1>6. CASE Validate(j)
  <2> DEFINE r == job[j].run
             e == job[j].epoch
  <2>1. job[j].pc = "validate" /\ r \in RunIds /\ e \in 1 .. Epochs
    BY <1>0, <1>1, <1>6 DEF Validate, Active
  <2>2. PICK v \in ValLosses(j) :
          Log(j, v) /\ job' = [job EXCEPT ![j].pc = "keep", ![j].val = v]
    BY <1>6 DEF Validate
  <2>3. job'[j] = [job[j] EXCEPT !.pc = "keep", !.val = v]
    BY <1>0, <2>2
  <2>4. /\ job'[j].run = r /\ job'[j].epoch = e /\ job'[j].val = v /\ job'[j].pc = "keep"
        /\ job'[j].best = job[j].best /\ job'[j].kept = job[j].kept
        /\ job'[j].policy = job[j].policy /\ job'[j].hasVal = job[j].hasVal
        /\ job'[j].batch = job[j].batch
    BY <1>0, <2>1, <2>3 DEF JobType
  <2>5. /\ metric'[r] = metric[r] \cup {[step |-> Step(j), val |-> v]}
        /\ \A epoch \in 1 .. e - 1 : Ends(metric'[r], epoch) = Ends(metric[r], epoch)
    BY <1>0, <2>1, <2>2, LogKeeps
  <2>6. Step(j)' = Step(j)
    BY <2>4 DEF Step
  <2>7. /\ job[j].batch = Batches - 1 /\ \A m \in metric[r] : m.step < Step(j) /\ m.step \in Nat
        /\ Step(j) \in Nat /\ Step(j) = e * Batches - 1
    <3>1. job[j].batch = Batches - 1 /\ \A m \in metric[r] : m.step < Step(j)
      BY <1>2, <2>1 DEF Logged, Looping
    <3>2. \A m \in metric[r] : m.step \in Nat
      BY <1>0, <1>3, <2>1 DEF TrainingTypeOK
    <3> QED
      BY <1>0, <1>3, <2>1, <3>1, <3>2, StepBounds
  <2>8. v = NoLoss <=> ~job[j].hasVal
    BY <1>3, <2>2 DEF ValLosses
  <2>9. Logged(j)'
    <3>1. Ends(metric'[r], e) = {v}
      <4>1. {n \in metric'[r] : n.step = e * Batches - 1} = {[step |-> Step(j), val |-> v]}
        <5> HIDE DEF r, e
        <5> QED
          BY <2>5, <2>7
      <4>2. Ends(metric'[r], e) = {m.val : m \in {[step |-> Step(j), val |-> v]}}
        BY <4>1 DEF Ends
      <4> HIDE DEF r, e
      <4> QED
        BY <4>2
    <3>2. \A m \in metric'[r] : m.step <= Step(j)
      <4> HIDE DEF r, e
      <4> QED
        BY <2>5, <2>7
    <3> HIDE DEF r, e
    <3> QED
      BY <2>4, <2>6, <2>7, <2>8, <3>1, <3>2 DEF Logged
  <2>10. BestKept(j)'
    <3>1. Decided(j) = e - 1 /\ Decided(j)' = e - 1
      BY <2>1, <2>4 DEF Decided, Looping
    <3>2. weights' = weights
      BY <1>6 DEF Validate
    <3>3. BestKept(j)
      BY <1>2, <2>1 DEF Looping
    <3>4. job[j].kept \in Nat
      BY <1>0, <1>3 DEF JobType, EpochOrNone
    <3>5. job[j].kept # 0 => job[j].kept \in 1 .. e - 1
      BY <2>1, <3>1, <3>3, <3>4 DEF BestKept
    <3>7. job[j].kept # 0 => 1 \in 1 .. e - 1
      <4> HIDE DEF r
      <4> QED
        BY <2>1, <3>5
    <3>6. job[j].kept # 0 => /\ Ends(metric'[r], job[j].kept) = Ends(metric[r], job[j].kept)
                             /\ Ends(metric'[r], 1) = Ends(metric[r], 1)
      BY <2>5, <3>5, <3>7
    <3> HIDE DEF r, e
    <3> QED
      BY <2>4, <2>5, <3>1, <3>2, <3>3, <3>6 DEF BestKept, r
  <2> QED
    BY <2>9, <2>10
<1>7. CASE KeepEpoch(j)
  <2> DEFINE r == job[j].run
             e == job[j].epoch
             old == job[j]
             new == job'[j]
  <2>1. old.pc = "keep" /\ r \in RunIds /\ e \in 1 .. Epochs /\ UNCHANGED metric
    BY <1>0, <1>1, <1>7 DEF KeepEpoch, Active
  <2>2. Logged(j) /\ BestKept(j) /\ Decided(j) = e - 1
    BY <1>2, <2>1 DEF Looping, Decided
  <2>3. new = AfterEpoch(j) /\ weights'[r] = IF Keeping(j) THEN e ELSE weights[r]
    BY <1>0, <1>7, <2>1 DEF KeepEpoch, TrainingTypeOK
  <2>4. /\ new.run = r /\ new.val = old.val /\ new.policy = old.policy /\ new.hasVal = old.hasVal
        /\ new.kept = (IF Keeping(j) THEN e ELSE old.kept)
        /\ new.best = (IF Keeping(j) THEN old.val ELSE old.best)
    BY <1>0, <2>3 DEF AfterEpoch, JobType
  <2>5. \/ new.pc = "report" /\ e = Epochs
        \/ new.pc = "train" /\ new.epoch = e + 1 /\ new.batch = 0
    BY <1>0, <2>3 DEF AfterEpoch, JobType
  <2>6. Decided(j)' = e
    BY <2>1, <2>5 DEF Decided, Looping
  <2>7. Logged(j)'
    <3>1. CASE new.pc = "train" /\ new.epoch = e + 1 /\ new.batch = 0
      <4>1. \A m \in metric[r] : m.step <= e * Batches - 1 /\ m.step \in Nat
        <5>1. old.batch = Batches - 1 /\ \A m \in metric[r] : m.step <= Step(j)
          BY <2>1, <2>2 DEF Logged
        <5>2. \A m \in metric[r] : m.step \in Nat
          BY <1>0, <1>3, <2>1 DEF TrainingTypeOK
        <5> QED
          BY <1>0, <1>3, <2>1, <5>1, <5>2, StepBounds
      <4>2. Step(j)' = e * Batches /\ e * Batches \in Nat
        <5>1. Step(j)' = (e + 1 - 1) * Batches + 0 /\ e + 1 - 1 = e /\ e * Batches \in Nat
          BY <1>3, <2>1, <3>1, Products DEF Step
        <5> QED
          BY <5>1
      <4>3. \A m \in metric[r] : m.step < Step(j)'
        <5> HIDE DEF r, e
        <5> QED
          BY <4>1, <4>2
      <4> QED
        BY <2>1, <2>4, <3>1, <4>3 DEF Logged
    <3>2. CASE new.pc = "report"
      BY <3>2 DEF Logged
    <3> QED
      BY <2>5, <3>1, <3>2
  <2>8. /\ Ends(metric[r], e) = {old.val} /\ (old.val = NoLoss <=> ~old.hasVal)
        /\ \A epoch \in 1 .. e : \A y \in Ends(metric[r], epoch) : y \in Nat
        /\ old.val \in Nat /\ old.best \in Nat /\ old.kept \in Nat
    <3>1. \A m \in metric[r] : m.val \in Nat
      BY <1>0, <1>3, <2>1 DEF TrainingTypeOK, Losses
    <3>2. \A epoch \in 1 .. e : \A y \in Ends(metric[r], epoch) : y \in Nat
      BY <3>1 DEF Ends
    <3>3. Ends(metric[r], e) = {old.val} /\ (old.val = NoLoss <=> ~old.hasVal)
      BY <2>1, <2>2 DEF Logged
    <3>4. old.val \in Nat /\ old.best \in Nat /\ old.kept \in Nat
      BY <1>0, <1>3 DEF JobType, Losses, EpochOrNone
    <3> QED
      BY <3>2, <3>3, <3>4
  <2>9. \A epoch \in 1 .. e : epoch = e \/ epoch \in 1 .. e - 1
    BY <2>1
  <2>10. CASE Keeping(j)
    <3>1. new.kept = e /\ new.best = old.val /\ weights'[r] = e
      BY <2>3, <2>4, <2>10
    <3>2. ASSUME old.policy # "last", old.hasVal,
                 NEW epoch \in 1 .. e, NEW y \in Ends(metric[r], epoch)
          PROVE  ~Less(y, old.val)
      <4>1. CASE epoch = e
        BY <2>8, <3>2, <4>1 DEF Less
      <4>2. CASE epoch \in 1 .. e - 1
        <5>1. e - 1 # 0
          BY <2>1, <4>2
        <5>2. old.best # NoLoss /\ ~Less(y, old.best) /\ y \in Nat
          BY <2>2, <2>8, <3>2, <4>2, <5>1 DEF BestKept
        <5>3. Less(old.val, old.best)
          BY <2>8, <2>10, <3>2, <5>2 DEF Keeping, Keeps
        <5> HIDE DEF old, e, r
        <5> QED
          BY <1>3, <2>8, <5>2, <5>3 DEF Less
      <4> QED
        BY <2>9, <4>1, <4>2
    <3>3. /\ e <= e /\ e # 0
      BY <2>1
    <3>10. ASSUME old.policy # "last", old.hasVal
           PROVE  /\ old.val = NaN <=> NaN \in Ends(metric[r], 1)
                  /\ old.val = NaN => e = 1
      <4>1. CASE e = 1
        BY <2>8, <4>1
      <4>2. CASE e # 1
        <5>1. e - 1 # 0 /\ 1 \in 1 .. e - 1
          BY <2>1, <4>2
        <5>2. old.kept # 0 /\ old.best # NoLoss
          BY <2>2, <3>10, <5>1 DEF BestKept
        <5>3. Less(old.val, old.best)
          BY <2>8, <2>10, <3>10, <5>2 DEF Keeping, Keeps
        <5>4. old.val # NaN /\ old.best # NaN
          BY <5>3 DEF Less
        <5>5. old.best = NaN <=> NaN \in Ends(metric[r], 1)
          BY <2>2, <3>10, <5>2 DEF BestKept
        <5> QED
          BY <5>4, <5>5
      <4> QED
        BY <4>1, <4>2
    <3> HIDE DEF old, e, r
    <3>4. old.policy # "last" /\ old.hasVal => old.val # NoLoss /\ Ends(metric[r], e) = {old.val}
      BY <2>8
    <3>5. metric' = metric /\ e \in Nat
      BY <2>1, <1>3
    <3>6. \A epoch \in 1 .. e : \A y \in Ends(metric'[r], epoch) :
            old.policy # "last" /\ old.hasVal =>
              ~Less(y, new.best)
      BY <3>1, <3>2, <3>4, <3>5
    <3> HIDE DEF new
    <3>7. /\ weights'[new.run] = new.kept /\ new.kept <= e /\ new.kept # 0
          /\ new.policy = "last" \/ ~new.hasVal => new.kept = e
          /\ new.policy # "last" /\ new.hasVal =>
               /\ new.best # NoLoss /\ Ends(metric'[new.run], new.kept) = {new.best}
               /\ new.best = NaN <=> NaN \in Ends(metric'[new.run], 1)
               /\ new.best = NaN => new.kept = 1
      BY <2>4, <3>1, <3>2, <3>3, <3>4, <3>5, <3>10
    <3>8. \A epoch \in 1 .. Decided(j)' : \A y \in Ends(metric'[new.run], epoch) :
            new.policy # "last" /\ new.hasVal =>
              ~Less(y, new.best)
      BY <2>4, <2>6, <3>6
    <3>9. /\ new.kept <= Decided(j)'
          /\ new.policy = "last" \/ ~new.hasVal => new.kept = Decided(j)'
      BY <2>6, <3>7
    <3> QED
      BY <2>7, <3>7, <3>8, <3>9 DEF BestKept, new
  <2>11. CASE ~Keeping(j)
    <3>1. new.kept = old.kept /\ new.best = old.best /\ weights'[r] = weights[r]
      BY <2>3, <2>4, <2>11
    <3>2. /\ old.policy # "last" /\ old.hasVal /\ old.best # NoLoss
          /\ ~Less(old.val, old.best)
      BY <2>8, <2>11 DEF Keeping, Keeps
    <3>3. old.kept # 0 /\ old.kept <= e
          /\ (old.best = NaN <=> NaN \in Ends(metric[r], 1)) /\ (old.best = NaN => old.kept = 1)
          /\ weights[r] = old.kept /\ Ends(metric[r], old.kept) = {old.best}
      <4>1. old.kept # 0 /\ old.kept <= e - 1
            /\ (old.best = NaN <=> NaN \in Ends(metric[r], 1)) /\ (old.best = NaN => old.kept = 1)
            /\ weights[r] = old.kept /\ Ends(metric[r], old.kept) = {old.best}
        BY <2>2, <3>2 DEF BestKept
      <4> QED
        BY <2>1, <2>8, <4>1
    <3>4. ASSUME NEW epoch \in 1 .. e, NEW y \in Ends(metric[r], epoch)
          PROVE  ~Less(y, old.best)
      <4>1. CASE epoch = e
        BY <2>8, <3>2, <3>3, <3>4, <4>1
      <4>2. CASE epoch \in 1 .. e - 1
        BY <2>2, <3>2, <3>4, <4>2 DEF BestKept
      <4> QED
        BY <2>9, <4>1, <4>2
    <3> HIDE DEF old, e, r
    <3>5. metric' = metric /\ e \in Nat
      BY <2>1, <1>3
    <3>6. \A epoch \in 1 .. e : \A y \in Ends(metric'[r], epoch) :
            old.policy # "last" /\ old.hasVal =>
              ~Less(y, new.best)
      BY <3>1, <3>2, <3>4, <3>5
    <3> HIDE DEF new
    <3>7. /\ weights'[new.run] = new.kept /\ new.kept <= e /\ new.kept # 0
          /\ new.policy = "last" \/ ~new.hasVal => new.kept = e
          /\ new.policy # "last" /\ new.hasVal =>
               /\ new.best # NoLoss /\ Ends(metric'[new.run], new.kept) = {new.best}
               /\ new.best = NaN <=> NaN \in Ends(metric'[new.run], 1)
               /\ new.best = NaN => new.kept = 1
      BY <2>4, <3>1, <3>2, <3>3, <3>4, <3>5
    <3>8. \A epoch \in 1 .. Decided(j)' : \A y \in Ends(metric'[new.run], epoch) :
            new.policy # "last" /\ new.hasVal =>
              ~Less(y, new.best)
      BY <2>4, <2>6, <3>6
    <3>9. /\ new.kept <= Decided(j)'
          /\ new.policy = "last" \/ ~new.hasVal => new.kept = Decided(j)'
      BY <2>6, <3>7
    <3> QED
      BY <2>7, <3>7, <3>8, <3>9 DEF BestKept, new
  <2> QED
    BY <2>7, <2>10, <2>11
<1>8. CASE Report(j)
  <2>1. job' = [job EXCEPT ![j].pc = "finalize"] /\ UNCHANGED <<metric, weights>>
        /\ job[j].pc = "report"
    BY <1>8 DEF Report, JobTo
  <2>2. /\ job'[j].run = job[j].run /\ job'[j].epoch = job[j].epoch /\ job'[j].val = job[j].val
        /\ job'[j].best = job[j].best /\ job'[j].kept = job[j].kept
        /\ job'[j].policy = job[j].policy /\ job'[j].hasVal = job[j].hasVal
        /\ job'[j].pc = "finalize"
    BY <1>0, <2>1 DEF JobType
  <2>3. Decided(j)' = Decided(j)
    BY <2>1, <2>2 DEF Decided, Looping
  <2>4. BestKept(j)
    BY <1>2, <2>1
  <2>5. BestKept(j)'
    BY <2>1, <2>2, <2>3, <2>4 DEF BestKept
  <2>6. Logged(j)'
    BY <2>2 DEF Logged
  <2> QED
    BY <2>5, <2>6
<1>9. CASE Launch(j) \/ StopBeforeRun(j) \/ Raise(j) \/ FinalizeRaises(j) \/ Kill(j)
           \/ Finalize(j) \/ MarkFailed(j)
  <2>1. PICK pc \in Over \cup {"queued", "failing"}, p \in Policies :
          \/ job' = [job EXCEPT ![j].pc = pc]
          \/ job' = [job EXCEPT ![j].pc = pc, ![j].policy = p]
    BY <1>9 DEF Launch, Submit, StopBeforeRun, Raise, FinalizeRaises, Kill, Finalize, MarkFailed, JobTo,
       Over, Policies
  <2>2. job'[j].pc = pc
    BY <1>0, <2>1 DEF JobType
  <2> QED
    BY <2>2 DEF Over, Looping
<1> QED
  BY <1>4, <1>5, <1>6, <1>7, <1>8, <1>9 DEF JobAction, JobStep
-----------------------------------------------------------------------------
(* What is published.                                                      *)

(* Only Finalize completes a run.                                          *)
LEMMA CompletedByFinalize ==
  ASSUME TInv, NEW j \in Jobs, JobAction(j), NEW r \in RunIds,
         run'[r].status = "completed", run[r].status # "completed"
  PROVE  Finalize(j) /\ r = job[j].run
<1>0. TrainingTypeOK /\ Owned
  BY DEF TInv
<1>1. r = job'[j].run
  BY <1>0, JobMoves
<1>2. run' # run
  OBVIOUS
<1>3. CreateRun(j) \/ MarkFailed(j) \/ Finalize(j)
  BY <1>2 DEF JobAction, JobStep, Launch, Submit, StopBeforeRun, TrainBatch, Validate, KeepEpoch, Report,
     Raise, FinalizeRaises, Kill
<1>4. DOMAIN run = RunIds /\ DOMAIN run[r] = {"status", "uri", "report"}
  BY <1>0 DEF TrainingTypeOK
<1>5. ~CreateRun(j)
  <2>1. SUFFICES ASSUME CreateRun(j) PROVE FALSE
    OBVIOUS
  <2>2. PICK q \in RunIds : run' = [run EXCEPT ![q].status = "running"]
    BY <2>1 DEF CreateRun
  <2> QED
    BY <1>4, <2>2
<1>6. ~MarkFailed(j)
  <2>1. SUFFICES ASSUME MarkFailed(j) PROVE FALSE
    OBVIOUS
  <2>2. run' = [run EXCEPT ![job[j].run].status = "failed"]
    BY <2>1 DEF MarkFailed
  <2> QED
    BY <1>4, <2>2
<1>7. Finalize(j)
  BY <1>3, <1>5, <1>6
<1>8. job[j].run = r
  <2>1. job[j].run # 0
    BY <1>0, <1>7 DEF Finalize, Owned, Active
  <2> QED
    BY <1>0, <1>1, <2>1, JobMoves
<1> QED
  BY <1>7, <1>8

(* What Finalize records.                                                  *)
LEMMA FinalizeRecords ==
  ASSUME TInv, NEW j \in Jobs, Finalize(j)
  PROVE  LET r == job[j].run IN
         /\ r \in RunIds /\ weights'[r] = weights[r] /\ metric'[r] = metric[r]
         /\ weights[r] = job[j].kept /\ weights[r] # 0
         /\ run'[r].report \in {0, weights[r]}
         /\ BestKept(j) /\ Decided(j) = Epochs
         /\ job'[j] = [job[j] EXCEPT !.pc = "ended"]
<1>1. job[j].pc = "finalize"
  BY DEF Finalize
<1>2. BestKept(j) /\ Decided(j) = Epochs
  BY <1>1 DEF TInv, OnCurve, Decided, Looping
<1>3. job[j].run \in RunIds
  <2>1. job[j].run \in 0 .. MaxRuns /\ job[j].run # 0
    BY <1>1 DEF TInv, TrainingTypeOK, Owned, Active
  <2> QED
    BY <2>1, TrainingAssumption DEF RunIds
<1>4. UNCHANGED <<weights, metric>>
  BY DEF Finalize
<1>5. weights[job[j].run] = job[j].kept /\ weights[job[j].run] # 0
  BY <1>2, TrainingAssumption DEF BestKept
<1>6. run'[job[j].run].report = (IF job[j].hasVal THEN job[j].kept ELSE 0)
  BY <1>3 DEF Finalize, TInv, TrainingTypeOK
<1>7. job'[j] = [job[j] EXCEPT !.pc = "ended"]
  BY DEF Finalize, JobTo, TInv, TrainingTypeOK
<1> QED
  BY <1>2, <1>3, <1>4, <1>5, <1>6, <1>7

LEMMA JobPublished ==
  ASSUME TInv, NEW j \in Jobs, JobAction(j), NEW i \in Jobs
  PROVE  Published(i)'
<1>0. TrainingTypeOK /\ Owned /\ TrainingTypeOK' /\ Owned' /\ Published(i)
  BY JobTypes, JobOwned DEF TInv
<1> SUFFICES ASSUME job'[i].run # 0, run'[job'[i].run].status = "completed"
             PROVE  Published(i)'
  BY DEF Published
<1>1. CASE i # j
  <2>1. job'[i] = job[i]
    BY <1>0, <1>1, OthersKeep
  <2>2. LET r == job[i].run IN
        run'[r] = run[r] /\ metric'[r] = metric[r] /\ weights'[r] = weights[r]
    BY <1>0, <1>1, <2>1, OthersKeep
  <2> QED
    BY <1>0, <2>1, <2>2 DEF Published
<1>2. CASE i = j
  <2>0. job'[j].run \in RunIds
    <3>1. job'[j].run \in 0 .. MaxRuns
      BY <1>0 DEF TrainingTypeOK
    <3> QED
      BY <1>2, <3>1, TrainingAssumption DEF RunIds
  <2>1. run[job'[j].run].status # "completed"
    <3>1. SUFFICES ASSUME run[job'[j].run].status = "completed" PROVE FALSE
      OBVIOUS
    <3>2. job[j].run = job'[j].run
      <4>1. /\ job[j].run # 0 => job'[j].run = job[j].run
            /\ job[j].run = 0 => job'[j].run = 0 \/ run[job'[j].run].status = "none"
        BY <1>0, JobMoves
      <4> QED
        BY <1>2, <3>1, <4>1
    <3>3. job[j].pc \notin Active
      BY <1>0, <3>1, <3>2 DEF Owned
    <3>4. job[j].pc \notin {"none", "queued"}
      <4>1. SUFFICES ASSUME job[j].pc \in {"none", "queued"} PROVE FALSE
        OBVIOUS
      <4>2. PICK p \in Policies : job[j] = [NoJob EXCEPT !.pc = job[j].pc, !.policy = p]
        BY <1>0, <4>1 DEF Owned
      <4>3. job[j].run = 0
        BY <4>2 DEF NoJob
      <4> QED
        BY <1>2, <3>2, <4>3
    <3>5. job[j].pc \in Over
      BY <1>0, <3>3, <3>4 DEF TrainingTypeOK, Active
    <3> QED
      BY <3>5 DEF JobAction, JobStep, Launch, Submit, StopBeforeRun, CreateRun, TrainBatch, Validate,
         KeepEpoch, Report, Finalize, MarkFailed, Raise, FinalizeRaises, Kill, Over
  <2>2. Finalize(j) /\ job'[j].run = job[j].run
    BY <1>2, <2>0, <2>1, CompletedByFinalize
  <2> DEFINE r == job[j].run
             w == weights[r]
  <2>3. /\ r \in RunIds /\ weights'[r] = w /\ metric'[r] = metric[r] /\ w = job[j].kept /\ w # 0
        /\ BestKept(j) /\ Decided(j) = Epochs /\ job'[j] = [job[j] EXCEPT !.pc = "ended"]
    BY <2>2, FinalizeRecords
  <2>4. job'[j].policy = job[j].policy /\ job'[j].hasVal = job[j].hasVal
    BY <1>0, <2>3 DEF TrainingTypeOK
  <2> HIDE DEF r, w
  <2>5. IF job[j].policy = "last" \/ ~job[j].hasVal
        THEN w = Epochs
        ELSE IF NaN \in Ends(metric[r], 1)
        THEN w = 1
        ELSE \A epoch \in 1 .. Epochs : \A x \in Ends(metric[r], w), y \in Ends(metric[r], epoch) :
               x # NaN /\ ~Less(y, x)
    BY <2>3 DEF BestKept, r
  <2> QED
    BY <1>2, <2>2, <2>3, <2>4, <2>5 DEF Published, r
<1> QED
  BY <1>1, <1>2

LEMMA JobScored ==
  ASSUME TInv, NEW j \in Jobs, JobAction(j)
  PROVE  Scored' /\ ReportsAgree'
<1>0. TrainingTypeOK /\ Owned /\ Owned' /\ Scored /\ ReportsAgree
  BY JobOwned DEF TInv
<1>1. UNCHANGED <<evaluation, scorer>>
  BY <1>0, JobMoves
<1>2. ASSUME NEW r \in RunIds, run[r].status = "completed"
      PROVE  run'[r] = run[r] /\ weights'[r] = weights[r]
  BY <1>0, <1>2, JobMoves
<1>3. ASSUME NEW r \in RunIds, run'[r].status = "completed"
      PROVE  weights'[r] # 0 /\ (run'[r].report # 0 => run'[r].report = weights'[r])
  <2>1. CASE run[r].status = "completed"
    BY <1>0, <1>2, <2>1 DEF Scored, ReportsAgree
  <2>2. CASE run[r].status # "completed"
    <3>1. Finalize(j) /\ r = job[j].run
      BY <1>3, <2>2, CompletedByFinalize
    <3> QED
      BY <3>1, FinalizeRecords
  <2> QED
    BY <2>1, <2>2
<1>4. ASSUME NEW e \in Evals, scorer[e].run # 0 PROVE scorer[e].run \in RunIds
  <2>1. scorer[e].run \in 0 .. MaxRuns
    BY <1>0 DEF TrainingTypeOK
  <2> QED
    BY <1>4, <2>1, TrainingAssumption DEF RunIds
<1>5. Scored'
  <2>1. \A r \in RunIds : run'[r].status = "completed" => weights'[r] # 0
    BY <1>3
  <2>2. ASSUME NEW e \in Evals
        PROVE  /\ scorer[e].pc # "none" => scorer[e].run # 0
               /\ scorer[e].pc \in {"blob", "score"} => run'[scorer[e].run].status = "completed"
               /\ scorer[e].pc = "score" => scorer[e].model = weights'[scorer[e].run]
               /\ evaluation[e].status = "completed" => scorer[e].pc = "ended"
    <3>1. /\ scorer[e].pc # "none" => scorer[e].run # 0
          /\ scorer[e].pc \in {"blob", "score"} => run[scorer[e].run].status = "completed"
          /\ scorer[e].pc = "score" => scorer[e].model = weights[scorer[e].run]
          /\ evaluation[e].status = "completed" => scorer[e].pc = "ended"
      BY <1>0 DEF Scored
    <3> QED
      BY <1>2, <1>4, <3>1
  <2> QED
    BY <1>1, <2>1, <2>2 DEF Scored
<1>6. ReportsAgree'
  <2>1. ASSUME NEW r \in RunIds, run'[r].report # 0 PROVE run'[r].report = weights'[r]
    BY <1>0, <1>3, <2>1 DEF Owned
  <2>2. ASSUME NEW e \in Evals, evaluation[e].status = "completed"
        PROVE  /\ run'[scorer[e].run].status = "completed"
               /\ evaluation[e].epoch = weights'[scorer[e].run]
               /\ evaluation[e].epoch # 0
    <3>1. scorer[e].run # 0
      BY <1>0, <2>2 DEF Scored
    <3>2. /\ run[scorer[e].run].status = "completed"
          /\ evaluation[e].epoch = weights[scorer[e].run]
          /\ evaluation[e].epoch # 0
      BY <1>0, <2>2 DEF ReportsAgree
    <3> QED
      BY <1>2, <1>4, <3>1, <3>2
  <2> QED
    BY <1>1, <2>1, <2>2 DEF ReportsAgree
<1> QED
  BY <1>5, <1>6

-----------------------------------------------------------------------------
(* A step of an evaluation.                                                *)

EvalAction(e) ==
  \/ LaunchEvaluation(e) \/ EvaluateByHand(e) \/ ScorerStep(e)
  \/ ScorerRaises(e) \/ FailEvaluationFails(e) \/ KillScorer(e)

ScorerType ==
  [pc : Over \cup {"none", "queued", "row", "blob", "score", "failing"},
   run : 0 .. MaxRuns, model : EpochOrNone]

(* It changes its own record and its own row, and nothing of a run.        *)
LEMMA ScorerMoves ==
  ASSUME TrainingTypeOK, NEW e \in Evals, EvalAction(e)
  PROVE  /\ UNCHANGED <<run, metric, weights, job>> /\ faults' \in 0 .. MaxFaults
         /\ scorer' = [scorer EXCEPT ![e] = scorer'[e]]
         /\ evaluation' = [evaluation EXCEPT ![e] = evaluation'[e]]
<1>1. faults \in 0 .. MaxFaults /\ MaxFaults \in Nat
  BY TrainingAssumption DEF TrainingTypeOK
<1>2. UNCHANGED <<run, metric, weights, job>> /\ faults' \in 0 .. MaxFaults
  BY <1>1 DEF EvalAction, LaunchEvaluation, EvaluateByHand, Request, ScorerStep, StartEvaluation,
     LoadRun, LoadWeights, Refuse, FinishEvaluation, Finished, FailEvaluation, ScorerRaises,
     FailEvaluationFails, KillScorer, Fault
<1>3. DOMAIN scorer = Evals /\ DOMAIN evaluation = Evals
  BY DEF TrainingTypeOK
<1>4. scorer' = [scorer EXCEPT ![e] = scorer'[e]]
  <2>1. \/ \E r \in RunIds : scorer' = [scorer EXCEPT ![e].pc = "queued", ![e].run = r]
        \/ \E pc \in Over \cup {"row", "blob", "failing"} : scorer' = [scorer EXCEPT ![e].pc = pc]
        \/ scorer' = [scorer EXCEPT ![e].pc = "score", ![e].model = weights[scorer[e].run]]
    BY DEF EvalAction, LaunchEvaluation, EvaluateByHand, Request, ScorerStep, StartEvaluation,
       LoadRun, LoadWeights, Refuse, FinishEvaluation, Finished, FailEvaluation, ScorerRaises,
       FailEvaluationFails, KillScorer, ScorerTo, Over
  <2> QED
    BY <1>3, <2>1
<1>5. evaluation' = [evaluation EXCEPT ![e] = evaluation'[e]]
  <2>1. \/ evaluation' = evaluation
        \/ \E s \in Statuses : evaluation' = [evaluation EXCEPT ![e].status = s]
        \/ \E row \in {[status |-> "completed", epoch |-> scorer[e].model]} :
             evaluation' = [evaluation EXCEPT ![e] = row]
    BY DEF EvalAction, LaunchEvaluation, EvaluateByHand, Request, ScorerStep, StartEvaluation,
       LoadRun, LoadWeights, Refuse, FinishEvaluation, Finished, FailEvaluation, ScorerRaises,
       FailEvaluationFails, KillScorer, Statuses
  <2>2. CASE evaluation' = evaluation
    <3>1. evaluation = [i \in Evals |-> evaluation[i]]
      BY DEF TrainingTypeOK
    <3> QED
      BY <1>3, <2>2, <3>1
  <2>3. CASE evaluation' # evaluation
    <3>1. PICK x : evaluation' = [evaluation EXCEPT ![e] = x]
      BY <2>1, <2>3
    <3> QED
      BY <1>3, <3>1
  <2> QED
    BY <2>2, <2>3
<1> QED
  BY <1>2, <1>4, <1>5

(* What it is about, of the types and of Scored and ReportsAgree.          *)
ScorerOK(e) ==
  /\ scorer[e] \in ScorerType
  /\ evaluation[e] \in [status : Statuses, epoch : EpochOrNone]
  /\ scorer[e].pc # "none" => scorer[e].run # 0
  /\ scorer[e].pc \in {"blob", "score"} => run[scorer[e].run].status = "completed"
  /\ scorer[e].pc = "score" => scorer[e].model = weights[scorer[e].run]
  /\ evaluation[e].status = "completed" =>
       /\ scorer[e].pc = "ended"
       /\ run[scorer[e].run].status = "completed"
       /\ evaluation[e].epoch = weights[scorer[e].run]
       /\ evaluation[e].epoch # 0

LEMMA ScorerKeeps ==
  ASSUME TInv, NEW e \in Evals, EvalAction(e)
  PROVE  ScorerOK(e)'
<1>0. TrainingTypeOK /\ Owned /\ Scored /\ UNCHANGED <<run, weights>>
  BY ScorerMoves DEF TInv
<1>1. ScorerOK(e)
  BY DEF TInv, TrainingTypeOK, Scored, ReportsAgree, ScorerOK, ScorerType
<1>2. scorer \in [Evals -> ScorerType] /\ DOMAIN evaluation = Evals
  BY <1>0 DEF TrainingTypeOK, ScorerType
<1>3. scorer[e].run # 0 => scorer[e].run \in RunIds
  <2>1. scorer[e].run \in 0 .. MaxRuns
    BY <1>2 DEF ScorerType
  <2> QED
    BY <2>1, TrainingAssumption DEF RunIds
<1>4. CASE LaunchEvaluation(e) \/ EvaluateByHand(e)
  <2>1. PICK r \in RunIds : Request(e, r)
    BY <1>4 DEF LaunchEvaluation, EvaluateByHand
  <2>2. scorer'[e] = [scorer[e] EXCEPT !.pc = "queued", !.run = r]
    BY <1>2, <2>1 DEF Request
  <2>3. r \in 0 .. MaxRuns /\ r # 0
    BY TrainingAssumption DEF RunIds
  <2>4. scorer'[e] \in ScorerType /\ scorer'[e].pc = "queued" /\ scorer'[e].run = r
    BY <1>2, <2>2, <2>3 DEF ScorerType
  <2>5. evaluation' = evaluation /\ evaluation[e].status # "completed"
    BY <1>1, <2>1 DEF Request, ScorerOK
  <2> QED
    BY <1>1, <2>3, <2>4, <2>5 DEF ScorerOK
<1>5. CASE StartEvaluation(e)
  <2>1. PICK pc \in {"ended", "row"} : scorer' = [scorer EXCEPT ![e].pc = pc]
    BY <1>5 DEF StartEvaluation, ScorerTo
  <2>2. scorer'[e] \in ScorerType /\ scorer'[e].pc = pc /\ scorer'[e].run = scorer[e].run
    BY <1>2, <2>1 DEF ScorerType, Over
  <2>3. scorer[e].run # 0 /\ evaluation[e].status # "completed"
    BY <1>1, <1>5 DEF StartEvaluation, ScorerOK
  <2>4. /\ evaluation'[e] \in [status : Statuses, epoch : EpochOrNone]
        /\ evaluation'[e].status # "completed"
    <3>1. \/ evaluation' = evaluation
          \/ evaluation' = [evaluation EXCEPT ![e].status = "running"]
      BY <1>5 DEF StartEvaluation
    <3> QED
      BY <1>1, <1>2, <2>3, <3>1 DEF ScorerOK, Statuses
  <2> QED
    BY <2>2, <2>3, <2>4 DEF ScorerOK
<1>6. CASE LoadRun(e) \/ Refuse(e) \/ ScorerRaises(e) \/ FailEvaluationFails(e) \/ KillScorer(e)
  <2>1. PICK pc \in {"blob", "failing", "unrecorded", "killed"} :
          /\ scorer' = [scorer EXCEPT ![e].pc = pc]
          /\ pc = "blob" => run[scorer[e].run].uri
    BY <1>6 DEF LoadRun, Refuse, ScorerRaises, FailEvaluationFails, KillScorer, ScorerTo
  <2>2. evaluation' = evaluation /\ scorer[e].pc \notin {"none", "ended"}
    BY <1>6 DEF LoadRun, Refuse, ScorerRaises, FailEvaluationFails, KillScorer, Over
  <2>3. scorer'[e] \in ScorerType /\ scorer'[e].pc = pc /\ scorer'[e].run = scorer[e].run
    BY <1>2, <2>1 DEF ScorerType, Over
  <2>4. scorer[e].run # 0 /\ evaluation[e].status # "completed"
    BY <1>1, <2>2 DEF ScorerOK
  <2>5. pc = "blob" => run[scorer[e].run].status = "completed"
    BY <1>0, <1>3, <2>1, <2>4 DEF Owned
  <2> QED
    BY <1>0, <1>1, <2>2, <2>3, <2>4, <2>5 DEF ScorerOK
<1>7. CASE LoadWeights(e)
  <2>1. scorer' = [scorer EXCEPT ![e].pc = "score", ![e].model = weights[scorer[e].run]]
    BY <1>7 DEF LoadWeights
  <2>2. scorer[e].pc = "blob" /\ evaluation' = evaluation
    BY <1>7 DEF LoadWeights
  <2>3. scorer[e].run \in RunIds /\ weights[scorer[e].run] \in EpochOrNone
    BY <1>0, <1>1, <1>3, <2>2 DEF ScorerOK, TrainingTypeOK
  <2>4. scorer'[e] = [scorer[e] EXCEPT !.pc = "score", !.model = weights[scorer[e].run]]
    BY <1>2, <2>1
  <2>5. /\ scorer'[e] \in ScorerType /\ scorer'[e].pc = "score"
        /\ scorer'[e].run = scorer[e].run /\ scorer'[e].model = weights[scorer[e].run]
    BY <1>2, <2>3, <2>4 DEF ScorerType
  <2> QED
    BY <1>0, <1>1, <2>2, <2>5 DEF ScorerOK
<1>8. CASE FinishEvaluation(e)
  <2>1. /\ scorer' = [scorer EXCEPT ![e].pc = "ended"] /\ scorer[e].pc = "score"
        /\ evaluation'[e] = [status |-> "completed", epoch |-> scorer[e].model]
    BY <1>2, <1>8 DEF FinishEvaluation, Finished, ScorerTo
  <2>2. /\ scorer'[e] \in ScorerType /\ scorer'[e].pc = "ended"
        /\ scorer'[e].run = scorer[e].run /\ scorer[e].model \in EpochOrNone
    BY <1>2, <2>1 DEF ScorerType, Over
  <2>3. /\ scorer[e].run # 0 /\ run[scorer[e].run].status = "completed"
        /\ scorer[e].model = weights[scorer[e].run]
    BY <1>1, <2>1 DEF ScorerOK
  <2>4. weights[scorer[e].run] # 0
    BY <1>0, <1>3, <2>3 DEF Scored
  <2> QED
    BY <1>0, <2>1, <2>2, <2>3, <2>4 DEF ScorerOK, Statuses
<1>9. CASE FailEvaluation(e)
  <2>1. /\ scorer' = [scorer EXCEPT ![e].pc = "ended"] /\ scorer[e].pc = "failing"
        /\ evaluation' = [evaluation EXCEPT ![e].status = "failed"]
    BY <1>9 DEF FailEvaluation, ScorerTo
  <2>2. scorer'[e] \in ScorerType /\ scorer'[e].pc = "ended" /\ scorer'[e].run = scorer[e].run
    BY <1>2, <2>1 DEF ScorerType, Over
  <2>3. /\ evaluation'[e] \in [status : Statuses, epoch : EpochOrNone]
        /\ evaluation'[e].status = "failed"
    BY <1>1, <1>2, <2>1 DEF ScorerOK, Statuses
  <2> QED
    BY <1>1, <2>1, <2>2, <2>3 DEF ScorerOK
<1> QED
  BY <1>4, <1>5, <1>6, <1>7, <1>8, <1>9 DEF EvalAction, ScorerStep
LEMMA TrainingInitially == TrainingInit => TInv
<1> SUFFICES ASSUME TrainingInit PROVE TInv
  OBVIOUS
<1>1. TrainingTypeOK
  <2>1. NoJob \in JobType
    BY TrainingAssumption DEF NoJob, JobType, EpochOrNone, Losses, NoLoss, NaN, Policies
  <2>2. NoRun \in [status : Statuses, uri : BOOLEAN, report : EpochOrNone]
    BY TrainingAssumption DEF NoRun, Statuses, EpochOrNone
  <2>3. NoEvaluation \in [status : Statuses, epoch : EpochOrNone] /\ NoScorer \in ScorerType
    BY TrainingAssumption DEF NoEvaluation, NoScorer, Statuses, EpochOrNone, ScorerType
  <2>4. 0 \in EpochOrNone /\ faults \in 0 .. MaxFaults
    BY TrainingAssumption DEF TrainingInit, EpochOrNone
  <2> QED
    BY <2>1, <2>2, <2>3, <2>4 DEF TrainingInit, TrainingTypeOK, JobType, ScorerType
<1>2. \A j \in Jobs : job[j] = NoJob
  BY DEF TrainingInit
<1>3. Owned
  <2>1. \A r \in RunIds : run[r] = NoRun /\ metric[r] = {} /\ weights[r] = 0
    BY DEF TrainingInit
  <2>2. NoJob = [NoJob EXCEPT !.pc = NoJob.pc, !.policy = "last"] /\ "last" \in Policies
    <3>1. NoJob.pc = "none"
      BY DEF NoJob
    <3>2. ASSUME NEW x \in JobType, x.pc = "none", x.policy = "last"
          PROVE  [x EXCEPT !.pc = "none", !.policy = "last"] = x
      BY <3>2 DEF JobType
    <3>3. NoJob \in JobType /\ NoJob.policy = "last"
      BY TrainingAssumption DEF NoJob, JobType, EpochOrNone, Losses, NoLoss, NaN, Policies
    <3> QED
      BY <3>1, <3>2, <3>3 DEF Policies
  <2>3. NoJob.pc = "none" /\ NoJob.run = 0
    BY DEF NoJob
  <2>4. NoRun.status = "none" /\ ~NoRun.uri /\ NoRun.report = 0
    BY DEF NoRun
  <2> QED
    BY <1>2, <2>1, <2>2, <2>3, <2>4 DEF Owned, Active
<1>4. OnCurve /\ \A j \in Jobs : Published(j)
  BY <1>2 DEF OnCurve, Published, NoJob, Looping
<1>5. Scored /\ ReportsAgree
  BY DEF TrainingInit, Scored, ReportsAgree, NoRun, NoScorer, NoEvaluation
<1> QED
  BY <1>1, <1>3, <1>4, <1>5 DEF TInv

LEMMA RunsUntouched ==
  ASSUME Owned, OnCurve, \A j \in Jobs : Published(j), UNCHANGED <<run, metric, weights, job>>
  PROVE  Owned' /\ OnCurve' /\ \A j \in Jobs : Published(j)'
<1>1. \A j \in Jobs : Step(j)' = Step(j) /\ Decided(j)' = Decided(j)
  BY DEF Step, Decided
<1>2. \A j \in Jobs : Logged(j)' <=> Logged(j)
  BY <1>1 DEF Logged
<1>3. \A j \in Jobs : BestKept(j)' <=> BestKept(j)
  BY <1>1 DEF BestKept
<1>4. OnCurve'
  BY <1>2, <1>3 DEF OnCurve
<1>5. Owned'
  BY DEF Owned
<1>6. \A j \in Jobs : Published(j)'
  BY DEF Published
<1> QED
  BY <1>4, <1>5, <1>6

LEMMA TrainingStep ==
  ASSUME TInv, [TrainingNext]_trainingVars
  PROVE  TInv'
<1>1. CASE \E j \in Jobs : JobAction(j)
  <2>1. PICK j \in Jobs : JobAction(j)
    BY <1>1
  <2>2. OnCurve'
    BY <2>1, JobOnCurve, OthersOnCurve DEF OnCurve
  <2> QED
    BY <2>1, <2>2, JobTypes, JobOwned, JobPublished, JobScored DEF TInv
<1>2. CASE \E e \in Evals : EvalAction(e)
  <2>1. PICK e \in Evals : EvalAction(e)
    BY <1>2
  <2>2. /\ UNCHANGED <<run, metric, weights, job>> /\ faults' \in 0 .. MaxFaults
        /\ scorer' = [scorer EXCEPT ![e] = scorer'[e]]
        /\ evaluation' = [evaluation EXCEPT ![e] = evaluation'[e]]
    BY <2>1, ScorerMoves DEF TInv
  <2>3. ScorerOK(e)'
    BY <2>1, ScorerKeeps
  <2>4. TrainingTypeOK'
    BY <2>2, <2>3 DEF TInv, TrainingTypeOK, ScorerOK, ScorerType
  <2>5. Owned' /\ OnCurve' /\ \A j \in Jobs : Published(j)'
    BY <2>2, RunsUntouched DEF TInv
  <2>6. \A i \in Evals : ScorerOK(i)'
    <3>1. ASSUME NEW i \in Evals, i # e PROVE ScorerOK(i)'
      <4>1. scorer'[i] = scorer[i] /\ evaluation'[i] = evaluation[i]
        BY <2>2, <3>1 DEF TInv, TrainingTypeOK
      <4>2. ScorerOK(i)
        BY DEF TInv, TrainingTypeOK, Scored, ReportsAgree, ScorerOK, ScorerType
      <4> QED
        BY <2>2, <4>1, <4>2 DEF ScorerOK
    <3> QED
      BY <2>3, <3>1
  <2>7. Scored' /\ ReportsAgree'
    BY <2>2, <2>6 DEF TInv, Scored, ReportsAgree, ScorerOK
  <2> QED
    BY <2>4, <2>5, <2>7 DEF TInv
<1>3. CASE UNCHANGED trainingVars
  <2>1. UNCHANGED <<run, metric, weights, job, evaluation, scorer, faults>>
    BY <1>3 DEF trainingVars
  <2>2. Owned' /\ OnCurve' /\ \A j \in Jobs : Published(j)'
    BY <2>1, RunsUntouched DEF TInv
  <2>3. TrainingTypeOK'
    BY <2>1 DEF TInv, TrainingTypeOK
  <2>4. Scored' /\ ReportsAgree'
    BY <2>1 DEF TInv, Scored, ReportsAgree
  <2> QED
    BY <2>2, <2>3, <2>4 DEF TInv
<1> QED
  BY <1>1, <1>2, <1>3 DEF TrainingNext, JobAction, EvalAction

(* The invariant holds of every behaviour: a row has one owner, the curve  *)
(* and the checkpoint are what the loop's locals say, and what is recorded *)
(* of a completed run stays so.                                            *)
THEOREM TrainingInvariant == TrainingSpec => []TInv
<1> QED
  BY TrainingInitially, TrainingStep, PTL DEF TrainingSpec

(* The types of the training tables and of the processes' locals.          *)
THEOREM TrainingTypeCorrect == TrainingSpec => []TrainingTypeOK
<1>1. TInv => TrainingTypeOK
  BY DEF TInv
<1> QED
  BY <1>1, TrainingInvariant, PTL

(* _keeps_this_epoch, over a whole run: a completed run's weights are the  *)
(* last epoch's, or those no logged epoch beats, for every curve, with NaN *)
(* anywhere in it; but for a first epoch of NaN, which stays.              *)
THEOREM BestWeightsAreServed == TrainingSpec => []WeightsAreBest
<1>1. TInv => WeightsAreBest
  BY DEF TInv, Published, WeightsAreBest, LossesOf, Ends
<1> QED
  BY <1>1, TrainingInvariant, PTL

(* The run's report and every completed evaluation describe the weights at *)
(* the run's key, however many processes train and evaluate at once.       *)
THEOREM ReportsDescribeTheWeights == TrainingSpec => []ReportsAgree
<1>1. TInv => ReportsAgree
  BY DEF TInv
<1> QED
  BY <1>1, TrainingInvariant, PTL

(* log_metric never meets the primary key of a step that is there.         *)
THEOREM EveryStepIsOneRow == TrainingSpec => []StepsAreFresh
<1>1. ASSUME TInv PROVE StepsAreFresh
  <2>1. ASSUME NEW j \in Jobs, job[j].pc \in {"train", "validate"},
               NEW m \in metric[job[j].run]
        PROVE  m.step # Step(j)
    <3>1. m.step < Step(j)
      BY <1>1, <2>1 DEF TInv, OnCurve, Logged, Looping
    <3>2. Step(j) \in Nat
      <4>1. job[j].epoch # 0
        BY <1>1, <2>1 DEF TInv, Owned, Active
      <4>2. Step(j) \in 0 .. Epochs * Batches
        BY <1>1, <4>1, StepBounds DEF TInv
      <4> QED
        BY <4>2, TrainingAssumption
    <3>3. m.step \in Nat
      <4>1. job[j].run \in RunIds
        <5>1. job[j].run \in 0 .. MaxRuns /\ job[j].run # 0
          BY <1>1, <2>1 DEF TInv, TrainingTypeOK, Owned, Active
        <5> QED
          BY <5>1, TrainingAssumption DEF RunIds
      <4> QED
        BY <1>1, <2>1, <4>1, TrainingAssumption DEF TInv, TrainingTypeOK
    <3> QED
      BY <3>1, <3>2, <3>3
  <2> QED
    BY <2>1 DEF StepsAreFresh
<1> QED
  BY <1>1, TrainingInvariant, PTL

=============================================================================
