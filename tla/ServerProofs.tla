---------------------------- MODULE ServerProofs ----------------------------
(***************************************************************************)
(* Theorems about the parts of the API process, for any number of threads: *)
(* the loaded model, the two limiters, and their composition with the      *)
(* accounts of AccountsProofs.                                             *)
(***************************************************************************)
EXTENDS Server, AccountsProofs, FiniteSetTheorems, WellFoundedInduction

(***************************************************************************)
(* The loaded model.  The invariant adds to the types: Named, that a model *)
(* is loaded under its own run; Fresh, what a thread holds of its run;     *)
(* Room, that a thread about to store leaves room for what it stores.      *)
(***************************************************************************)
Named == \A r \in DOMAIN loaded : loaded[r] = r

Fresh ==
  \A t \in Readers :
    /\ request[t].pc # "idle" => request[t].floor \in trained \cup {NoRun}
    /\ request[t].pc \in {"load", "clear", "store", "answer"} =>
         request[t].run \in Runs /\ request[t].floor <= request[t].run
    /\ request[t].pc \in {"clear", "store", "answer"} => request[t].model = request[t].run

Storing == {t \in Readers : request[t].pc = "store"}
Room == Cardinality(DOMAIN loaded) + Cardinality(Storing) <= Cardinality(Readers)

CInv == CacheTypeOK /\ Named /\ Fresh /\ Room

-----------------------------------------------------------------------------
(* The newest of some runs is one of them, and no other is newer.          *)
LEMMA NewestIsNewest ==
  ASSUME NEW runs \in SUBSET Runs, runs # {}
  PROVE  Newest(runs) \in runs /\ \A r \in runs : r <= Newest(runs)
<1>1. MaxRuns \in Nat
  BY ModelCacheAssumption
<1> DEFINE ages == {MaxRuns - r : r \in runs}
<1>2. /\ ages \subseteq Nat /\ ages # {}
      /\ \A r \in runs : r \in Nat /\ MaxRuns - r \in ages
      /\ \A a \in ages : \E r \in runs : a = MaxRuns - r
  <2>1. \A r \in runs : r \in Nat /\ MaxRuns - r \in Nat
    BY <1>1 DEF Runs
  <2> QED
    BY <2>1
<1> DEFINE less == OpToRel(<, Nat)
<1>3. \A x, y \in Nat : x < y => <<x, y>> \in less
  BY DEF OpToRel
<1>4. IsWellFoundedOn(less, Nat)
  BY NatLessThanWellFounded, Zenon
<1> HIDE DEF less, ages
<1>5. PICK a \in ages : \A b \in ages : ~ (<<b, a>> \in less)
  BY <1>2, <1>4, WFMin, Zenon
<1>6. PICK r \in runs : a = MaxRuns - r
  BY <1>2
<1>7. \A o \in runs : o <= r
  <2>1. ASSUME NEW o \in runs
        PROVE  o <= r
    <3>1. ~(MaxRuns - o < a) /\ r \in Nat /\ o \in Nat
      BY <1>2, <1>3, <1>5
    <3> QED
      BY <1>1, <1>6, <3>1
  <2> QED
    BY <2>1
<1> QED
  BY <1>7 DEF Newest

RequestType ==
  [pc : {"idle", "look", "load", "clear", "store", "answer"},
   run : Runs \cup {NoRun}, model : Runs \cup {NoRun}, floor : Runs \cup {NoRun}]

LEMMA CInvInit == CacheInit => CInv
<1> SUFFICES ASSUME CacheInit PROVE CInv
  OBVIOUS
<1>1. DOMAIN loaded = {} /\ Storing = {}
  BY DEF CacheInit, NoPrediction, Storing
<1>2. Cardinality({}) = 0 /\ Cardinality(Readers) \in Nat
  BY ModelCacheAssumption, FS_EmptySet, FS_CardinalityType
<1>3. Room
  BY <1>1, <1>2 DEF Room
<1> QED
  BY <1>1, <1>3 DEF CacheInit, CInv, CacheTypeOK, Named, Fresh, NoPrediction, NoRun

(* How a thread moves; the other threads stay as they are.                 *)
LEMMA ReaderStep ==
  ASSUME CInv, NEW t \in Readers, NEW x \in RequestType,
         request' = [request EXCEPT ![t] = x], trained' = trained,
         x.pc # "idle" => x.floor \in trained \cup {NoRun},
         x.pc \in {"load", "clear", "store", "answer"} => x.run \in Runs /\ x.floor <= x.run,
         x.pc \in {"clear", "store", "answer"} => x.model = x.run
  PROVE  /\ request' \in [Readers -> RequestType] /\ Fresh'
         /\ Storing' = IF x.pc = "store" THEN Storing \cup {t} ELSE Storing \ {t}
<1>1. request \in [Readers -> RequestType]
  BY DEF CInv, CacheTypeOK, RequestType
<1>2. /\ request' \in [Readers -> RequestType] /\ request'[t] = x
      /\ \A o \in Readers \ {t} : request'[o] = request[o]
  BY <1>1
<1>3. Fresh'
  BY <1>2 DEF CInv, Fresh
<1>4. Storing' = IF x.pc = "store" THEN Storing \cup {t} ELSE Storing \ {t}
  BY <1>2 DEF Storing
<1> QED
  BY <1>2, <1>3, <1>4

(* The threads that store are finitely many.                               *)
LEMMA Counts ==
  ASSUME CInv
  PROVE  /\ IsFiniteSet(Readers) /\ IsFiniteSet(Storing) /\ IsFiniteSet(DOMAIN loaded)
         /\ Cardinality(Readers) \in Nat /\ Cardinality(Storing) \in Nat
         /\ Cardinality(DOMAIN loaded) \in Nat
         /\ \A t : Cardinality(Storing \ {t}) <= Cardinality(Storing)
<1>1. IsFiniteSet(Readers)
  BY ModelCacheAssumption
<1>2. Storing \in SUBSET Readers
  BY DEF Storing
<1>3. IsFiniteSet(Storing)
  BY <1>1, <1>2, FS_Subset
<1>4. IsFiniteSet(DOMAIN loaded)
  <2>1. IsFiniteSet(1 .. MaxRuns)
    BY ModelCacheAssumption, FS_Interval
  <2>2. DOMAIN loaded \in SUBSET (1 .. MaxRuns)
    BY DEF CInv, CacheTypeOK, Runs
  <2> QED
    BY <2>1, <2>2, FS_Subset
<1>5. \A t : Cardinality(Storing \ {t}) <= Cardinality(Storing)
  <2>1. Cardinality(Storing) \in Nat
    BY <1>3, FS_CardinalityType
  <2>2. \A t : Cardinality(Storing \ {t}) =
               IF t \in Storing THEN Cardinality(Storing) - 1 ELSE Cardinality(Storing)
    BY <1>3, FS_RemoveElement
  <2> QED
    BY <2>1, <2>2
<1> QED
  BY <1>1, <1>3, <1>4, <1>5, FS_CardinalityType

LEMMA CInvStep == CInv /\ [CacheNext]_cacheVars => CInv'
<1> SUFFICES ASSUME CInv, [CacheNext]_cacheVars PROVE CInv'
  OBVIOUS
<1>1. /\ request \in [Readers -> RequestType]
      /\ trained \subseteq Runs /\ DOMAIN loaded \subseteq Runs
      /\ \A r \in DOMAIN loaded : loaded[r] \in Runs
      /\ Named /\ Fresh /\ Room
  BY DEF CInv, CacheTypeOK, RequestType
<1>2. Runs \subseteq Nat /\ NoRun = 0 /\ NoRun \notin Runs
  BY ModelCacheAssumption DEF Runs, NoRun
<1>3. NoPrediction \in RequestType /\ NoPrediction.pc = "idle"
  BY DEF NoPrediction, RequestType
<1>4. ASSUME request' \in [Readers -> RequestType], Fresh', trained' = trained,
             loaded' = loaded, Storing' \in SUBSET Storing
      PROVE  CInv'
  <2>1. CacheTypeOK'
    BY <1>1, <1>4 DEF CacheTypeOK, RequestType
  <2>2. Named'
    BY <1>1, <1>4 DEF Named
  <2>3. Room'
    <3>1. PICK threads : threads = Storing'
      OBVIOUS
    <3>2. Cardinality(threads) <= Cardinality(Storing) /\ Cardinality(threads) \in Nat
      BY <1>4, <3>1, Counts, FS_Subset, FS_CardinalityType
    <3> QED
      BY <1>1, <1>4, <3>1, <3>2, Counts DEF Room
  <2> QED
    BY <1>4, <2>1, <2>2, <2>3 DEF CInv
<1>5. CASE \E r \in Runs : Complete(r)
  <2>1. PICK r \in Runs : Complete(r)
    BY <1>5
  <2> QED
    BY <1>1, <2>1 DEF Complete, CInv, CacheTypeOK, RequestType, Named, Fresh, Room, Storing
<1>6. ASSUME NEW t \in Readers, NEW x \in RequestType, x.pc # "store",
             request' = [request EXCEPT ![t] = x], trained' = trained, loaded' = loaded,
             x.pc # "idle" => x.floor \in trained \cup {NoRun},
             x.pc \in {"load", "clear", "answer"} => x.run \in Runs /\ x.floor <= x.run,
             x.pc \in {"clear", "answer"} => x.model = x.run
      PROVE  CInv'
  <2>1. /\ request' \in [Readers -> RequestType] /\ Fresh' /\ Storing' = Storing \ {t}
    BY <1>6, ReaderStep
  <2> QED
    BY <1>4, <1>6, <2>1, Counts
<1>7. CASE \E t \in Readers : Ask(t)
  <2>1. PICK t \in Readers : Ask(t)
    BY <1>7
  <2>2. PICK floor : floor = Newest(trained)
    OBVIOUS
  <2>3. floor \in trained \cup {NoRun}
    BY <1>1, <2>2, NewestIsNewest DEF Newest
  <2>4. PICK x : x = [NoPrediction EXCEPT !.pc = "look", !.floor = floor]
    OBVIOUS
  <2>5. x \in RequestType /\ x.pc = "look" /\ x.floor = floor
    BY <1>1, <1>3, <2>3, <2>4 DEF RequestType
  <2>6. request' = [request EXCEPT ![t] = x] /\ trained' = trained /\ loaded' = loaded
    BY <2>1, <2>2, <2>4 DEF Ask
  <2> QED
    BY <1>6, <2>3, <2>5, <2>6
<1>8. CASE \E t \in Readers : Look(t)
  <2>1. PICK t \in Readers : Look(t)
    BY <1>8
  <2>2. PICK r : r = Latest
    OBVIOUS
  <2>3. trained' = trained /\ loaded' = loaded /\ request[t].pc = "look"
    BY <2>1 DEF Look
  <2>4. CASE r = NoRun
    <3>1. request' = [request EXCEPT ![t] = NoPrediction]
      BY <2>1, <2>2, <2>4 DEF Look
    <3> QED
      BY <1>3, <1>6, <2>3, <3>1
  <2>5. CASE r # NoRun
    <3>1. r \in trained /\ \A o \in trained : o <= r
      BY <1>1, <2>2, <2>5, NewestIsNewest DEF Latest, Newest
    <3>2. PICK x : x = [request[t] EXCEPT !.pc = "load", !.run = r]
      OBVIOUS
    <3>3. x \in RequestType /\ x.pc = "load" /\ x.run = r /\ x.floor = request[t].floor
      BY <1>1, <3>1, <3>2 DEF RequestType
    <3>4. request' = [request EXCEPT ![t] = x]
      BY <1>1, <2>1, <2>2, <2>5, <3>2 DEF Look
    <3>5. x.floor \in trained \cup {NoRun}
      BY <1>1, <2>3, <3>3 DEF Fresh
    <3>6. x.floor <= r /\ r \in Runs
      <4>1. r \in Runs /\ r \in Nat
        BY <1>1, <1>2, <3>1
      <4>2. CASE x.floor = NoRun
        BY <1>2, <4>1, <4>2
      <4>3. CASE x.floor \in trained
        BY <3>1, <4>1, <4>3
      <4> QED
        BY <3>5, <4>2, <4>3
    <3> QED
      BY <1>6, <2>3, <3>3, <3>4, <3>5, <3>6
  <2> QED
    BY <2>4, <2>5
<1>9. CASE \E t \in Readers : Load(t)
  <2>1. PICK t \in Readers : Load(t)
    BY <1>9
  <2>2. PICK r : r = request[t].run
    OBVIOUS
  <2>3. /\ trained' = trained /\ loaded' = loaded /\ request[t].pc = "load"
        /\ r \in Runs /\ request[t].floor <= r /\ request[t].floor \in trained \cup {NoRun}
    BY <1>1, <2>1, <2>2 DEF Load, Fresh
  <2>4. CASE request' = [request EXCEPT ![t] = NoPrediction]
    BY <1>3, <1>6, <2>3, <2>4
  <2>5. CASE request' # [request EXCEPT ![t] = NoPrediction]
    <3>1. PICK pc \in {"answer", "clear"} :
            request' = [request EXCEPT ![t].pc = pc, ![t].model = r]
      BY <1>1, <2>1, <2>2, <2>5 DEF Load, Named
    <3>2. PICK x : x = [request[t] EXCEPT !.pc = pc, !.model = r]
      OBVIOUS
    <3>3. /\ x \in RequestType /\ x.pc = pc /\ x.run = r /\ x.model = r
          /\ x.floor = request[t].floor
      BY <1>1, <2>2, <2>3, <3>2 DEF RequestType
    <3>4. request' = [request EXCEPT ![t] = x]
      BY <1>1, <3>1, <3>2
    <3> QED
      BY <1>6, <2>3, <3>3, <3>4
  <2> QED
    BY <2>4, <2>5
<1>10. CASE \E t \in Readers : Clear(t)
  <2>1. PICK t \in Readers : Clear(t)
    BY <1>10
  <2>2. PICK x : x = [request[t] EXCEPT !.pc = "store"]
    OBVIOUS
  <2>3. /\ x \in RequestType /\ x.pc = "store" /\ x.run = request[t].run
        /\ x.model = request[t].model /\ x.floor = request[t].floor
    BY <1>1, <2>2 DEF RequestType
  <2>4. request' = [request EXCEPT ![t] = x] /\ trained' = trained /\ DOMAIN loaded' = {}
    BY <1>1, <2>1, <2>2 DEF Clear, Cleared
  <2>5. /\ x.floor \in trained \cup {NoRun} /\ x.run \in Runs /\ x.floor <= x.run
        /\ x.model = x.run
    BY <1>1, <2>1, <2>3 DEF Clear, Fresh
  <2>6. request' \in [Readers -> RequestType] /\ Fresh' /\ Storing' = Storing \cup {t}
    BY <2>3, <2>4, <2>5, ReaderStep
  <2>7. Room'
    <3>1. PICK threads : threads = Storing'
      OBVIOUS
    <3>2. threads \in SUBSET Readers
      BY <2>6, <3>1 DEF Storing
    <3>3. Cardinality(threads) <= Cardinality(Readers) /\ Cardinality(threads) \in Nat
      BY <3>2, Counts, FS_Subset, FS_CardinalityType
    <3> QED
      BY <2>4, <3>1, <3>3, Counts, FS_EmptySet DEF Room
  <2> QED
    BY <1>1, <2>4, <2>6, <2>7 DEF CInv, CacheTypeOK, RequestType, Named
<1>11. CASE \E t \in Readers : Store(t)
  <2>1. PICK t \in Readers : Store(t)
    BY <1>11
  <2>2. PICK r : r = request[t].run
    OBVIOUS
  <2>3. PICK x : x = [request[t] EXCEPT !.pc = "answer"]
    OBVIOUS
  <2>4. /\ x \in RequestType /\ x.pc = "answer" /\ x.run = r
        /\ x.model = request[t].model /\ x.floor = request[t].floor
    BY <1>1, <2>2, <2>3 DEF RequestType
  <2>5. /\ x.floor \in trained \cup {NoRun} /\ r \in Runs /\ x.floor <= r /\ x.model = r
        /\ t \in Storing
    BY <1>1, <2>1, <2>2, <2>4 DEF Store, Fresh, Storing
  <2>6. /\ request' = [request EXCEPT ![t] = x] /\ trained' = trained
        /\ loaded' = [o \in DOMAIN loaded \cup {r} |-> IF o = r THEN r ELSE loaded[o]]
    BY <1>1, <2>1, <2>2, <2>3, <2>4, <2>5 DEF Store, Key
  <2>7. request' \in [Readers -> RequestType] /\ Fresh' /\ Storing' = Storing \ {t}
    BY <2>4, <2>5, <2>6, ReaderStep
  <2>8. Room'
    <3>1. Cardinality(Storing \ {t}) = Cardinality(Storing) - 1
      BY <2>5, Counts, FS_RemoveElement
    <3>2. Cardinality(DOMAIN loaded \cup {r}) <= Cardinality(DOMAIN loaded) + 1
      <4>1. Cardinality(DOMAIN loaded \cup {r}) =
            IF r \in DOMAIN loaded THEN Cardinality(DOMAIN loaded)
            ELSE Cardinality(DOMAIN loaded) + 1
        BY Counts, FS_AddElement
      <4> QED
        BY <4>1, Counts
    <3>3. Cardinality(DOMAIN loaded \cup {r}) \in Nat
      <4>1. IsFiniteSet(DOMAIN loaded \cup {r})
        BY Counts, FS_AddElement
      <4> QED
        BY <4>1, FS_CardinalityType
    <3>4. DOMAIN loaded' = DOMAIN loaded \cup {r}
      BY <2>6
    <3>5. PICK n : n = Cardinality(DOMAIN loaded \cup {r})
      OBVIOUS
    <3>6. PICK m : m = Cardinality(Storing \ {t})
      OBVIOUS
    <3>7. n + m <= Cardinality(Readers)
      BY <1>1, <3>1, <3>2, <3>3, <3>5, <3>6, Counts DEF Room
    <3> QED
      BY <2>7, <3>4, <3>5, <3>6, <3>7 DEF Room
  <2> QED
    BY <1>1, <2>5, <2>6, <2>7, <2>8 DEF CInv, CacheTypeOK, RequestType, Named
<1>12. CASE \E t \in Readers : Answer(t)
  <2>1. PICK t \in Readers : Answer(t)
    BY <1>12
  <2> QED
    BY <1>3, <1>6, <2>1 DEF Answer
<1>13. CASE UNCHANGED cacheVars
  BY <1>13 DEF cacheVars, CInv, CacheTypeOK, Named, Fresh, Room, Storing
<1> QED
  BY <1>5, <1>7, <1>8, <1>9, <1>10, <1>11, <1>12, <1>13 DEF CacheNext

-----------------------------------------------------------------------------
(* The invariant holds of every behaviour.                                 *)
THEOREM CacheInvariant == CacheSpec => []CInv
<1>1. CacheInit => CInv
  BY CInvInit
<1>2. CInv /\ [CacheNext]_cacheVars => CInv'
  BY CInvStep
<1> QED
  BY <1>1, <1>2, PTL DEF CacheSpec

(* An answer names the run whose weights gave it, and no run that was      *)
(* already superseded when the request came in (predict.py:65-74, 85-100). *)
THEOREM AnswersStayCurrent == CacheSpec => []AnswersAreCurrent
<1>1. CInv => AnswersAreCurrent
  <2> SUFFICES ASSUME CInv, NEW t \in Readers, request[t].pc = "answer"
               PROVE  request[t].model = request[t].run /\ request[t].run >= request[t].floor
    BY DEF AnswersAreCurrent
  <2>1. /\ request[t].model = request[t].run /\ request[t].floor <= request[t].run
        /\ request[t].run \in Nat /\ request[t].floor \in Nat
    BY ModelCacheAssumption DEF CInv, Fresh, CacheTypeOK, Runs, NoRun
  <2> QED
    BY <2>1
<1> QED
  BY <1>1, CacheInvariant, PTL

(* No more models stay loaded than there are threads, whatever the order   *)
(* in which they clear and store (predict.py:98-99).                       *)
THEOREM ResidentsStayBounded == CacheSpec => []ResidentsAreBounded
<1>1. CInv => ResidentsAreBounded
  BY Counts DEF CInv, Room, ResidentsAreBounded
<1> QED
  BY <1>1, CacheInvariant, PTL

-----------------------------------------------------------------------------
(* The loaded models implement PredictionPromise, which has none: looking  *)
(* up is the choice, whatever answers is the chosen run's weights, and     *)
(* loading and replacing models is not seen.                               *)
LEMMA PromiseInitially == CacheInit => Promise!PromiseInit
  BY DEF CacheInit, NoPrediction, Seen, NoRun, Promise!PromiseInit, Promise!None

(* How a thread moves in the abstract.                                     *)
LEMMA SeenMoves ==
  ASSUME request \in [Readers -> RequestType], NEW t \in Readers, NEW x \in RequestType,
         request' = [request EXCEPT ![t] = x]
  PROVE  [o \in Readers |-> Seen(o)]' = [[o \in Readers |-> Seen(o)] EXCEPT ![t] = Seen(t)']
<1>1. \A o \in Readers \ {t} : request'[o] = request[o]
  OBVIOUS
<1>2. \A o \in Readers \ {t} : Seen(o)' = Seen(o)
  BY <1>1 DEF Seen
<1> QED
  BY <1>2

LEMMA PromiseStep ==
  ASSUME CInv, [CacheNext]_cacheVars
  PROVE  [Promise!PromiseNext]_(Promise!promiseVars)
<1> DEFINE seen == [o \in Readers |-> Seen(o)]
<1>1. /\ request \in [Readers -> RequestType] /\ trained \subseteq Runs
      /\ Named /\ Fresh
  BY DEF CInv, CacheTypeOK, RequestType
<1>2. Runs \subseteq Nat /\ NoRun = 0 /\ NoRun \notin Runs /\ NoRun \in Runs \cup {NoRun}
  BY ModelCacheAssumption DEF Runs, NoRun
<1>3. \A o \in Readers : seen[o] = Seen(o)
  OBVIOUS
<1>4. CASE \E r \in Runs : Complete(r)
  <2>1. PICK r \in Runs : Complete(r)
    BY <1>4
  <2>2. seen' = seen
    BY <2>1 DEF Complete, Seen
  <2>3. Promise!Train(r)
    BY <2>1, <2>2 DEF Complete, Promise!Train
  <2> QED
    BY <2>3 DEF Promise!PromiseNext
<1>5. ASSUME NEW t \in Readers,
             Ask(t) \/ Look(t) \/ Load(t) \/ Clear(t) \/ Store(t) \/ Answer(t)
      PROVE  [Promise!PromiseNext]_(Promise!promiseVars)
  <2>1. trained' = trained
    BY <1>5 DEF Ask, Look, Load, Clear, Store, Answer
  <2>2. request[t] \in RequestType
    BY <1>1
  <2>3. ASSUME NEW x \in RequestType, request' = [request EXCEPT ![t] = x]
        PROVE  request'[t] = x /\ seen' = [seen EXCEPT ![t] = Seen(t)']
    BY <1>1, <2>3, SeenMoves
  <2>4. NoPrediction \in RequestType
    BY DEF NoPrediction, RequestType
  <2>5. ASSUME request' = [request EXCEPT ![t] = NoPrediction]
        PROVE  seen' = [seen EXCEPT ![t] = Promise!None]
    <3>1. request'[t] = NoPrediction /\ seen' = [seen EXCEPT ![t] = Seen(t)']
      BY <2>3, <2>4, <2>5
    <3>2. request'[t].pc = "idle"
      BY <3>1 DEF NoPrediction
    <3>3. Seen(t)' = Promise!None
      BY <3>2 DEF Seen, Promise!None, NoRun
    <3> QED
      BY <3>1, <3>3
  <2>6. CASE Ask(t)
    <3> DEFINE x == [NoPrediction EXCEPT !.pc = "look", !.floor = Newest(trained)]
    <3>1. Newest(trained) \in Runs \cup {NoRun}
      BY <1>1, NewestIsNewest DEF Newest
    <3>2. x \in RequestType /\ x.pc = "look" /\ request' = [request EXCEPT ![t] = x]
      BY <2>6, <3>1 DEF Ask, NoPrediction, RequestType
    <3>3. seen' = [seen EXCEPT ![t] = [stage |-> "asked", run |-> 0]]
      BY <2>3, <3>2, <1>2 DEF Seen
    <3>4. Promise!Begin(t)
      BY <1>2, <1>3, <2>1, <2>6, <3>3 DEF Ask, Seen, Promise!Begin, Promise!None
    <3> QED
      BY <3>4 DEF Promise!PromiseNext
  <2>7. CASE Look(t)
    <3>1. seen[t].stage = "asked"
      BY <1>3, <2>7 DEF Look, Seen
    <3>2. CASE Latest = NoRun
      <4>1. trained = {}
        BY <1>1, <1>2, <3>2, NewestIsNewest DEF Latest
      <4>2. Promise!Refuse(t)
        BY <2>1, <2>5, <2>7, <3>1, <3>2, <4>1 DEF Look, Promise!Refuse
      <4> QED
        BY <4>2 DEF Promise!PromiseNext
    <3>3. CASE Latest # NoRun
      <4> DEFINE x == [request[t] EXCEPT !.pc = "load", !.run = Latest]
      <4>1. Latest \in trained /\ Latest \in Runs /\ \A o \in trained : o <= Latest
        BY <1>1, <3>3, NewestIsNewest DEF Latest, Newest
      <4>2. x \in RequestType /\ x.pc = "load" /\ x.run = Latest
        BY <2>2, <4>1 DEF RequestType
      <4>3. request' = [request EXCEPT ![t] = x]
        BY <1>1, <2>7, <3>3 DEF Look
      <4>4. seen' = [seen EXCEPT ![t] = [stage |-> "chosen", run |-> Latest]]
        BY <2>3, <4>2, <4>3 DEF Seen
      <4>5. Promise!Choose(t, Latest)
        BY <2>1, <3>1, <4>1, <4>4 DEF Promise!Choose
      <4> QED
        BY <4>1, <4>5 DEF Promise!PromiseNext
    <3> QED
      BY <3>2, <3>3
  <2>8. ASSUME seen[t].stage = "chosen", request' = [request EXCEPT ![t] = NoPrediction]
        PROVE  Promise!PromiseNext
    <3>1. Promise!Refuse(t)
      BY <2>1, <2>5, <2>8 DEF Promise!Refuse
    <3> QED
      BY <3>1 DEF Promise!PromiseNext
  <2>9. ASSUME NEW x \in RequestType, x.pc = "answer", x.model = request[t].run,
               request[t].pc \in {"load", "clear", "store"},
               request' = [request EXCEPT ![t] = x]
        PROVE  Promise!PromiseNext
    <3>1. seen[t] = [stage |-> "chosen", run |-> request[t].run]
      BY <1>3, <2>9 DEF Seen
    <3>2. Seen(t)' = [stage |-> "answered", run |-> request[t].run]
      BY <2>3, <2>9 DEF Seen
    <3>3. seen' = [seen EXCEPT ![t].stage = "answered"]
      <4>1. [seen[t] EXCEPT !.stage = "answered"] = Seen(t)'
        BY <3>1, <3>2
      <4>2. [seen EXCEPT ![t].stage = "answered"] = [seen EXCEPT ![t] = Seen(t)']
        BY <4>1
      <4> QED
        BY <2>3, <2>9, <4>2
    <3>4. Promise!Predict(t)
      BY <2>1, <3>1, <3>3 DEF Promise!Predict
    <3> QED
      BY <3>4 DEF Promise!PromiseNext
  <2>10. ASSUME NEW x \in RequestType, x.pc \in {"clear", "store"}, x.run = request[t].run,
                request[t].pc \in {"load", "clear"}, request' = [request EXCEPT ![t] = x]
         PROVE  UNCHANGED Promise!promiseVars
    <3>1. Seen(t)' = seen[t]
      BY <1>3, <2>3, <2>10 DEF Seen
    <3>2. seen' = seen
      BY <2>3, <2>10, <3>1
    <3> QED
      BY <2>1, <3>2 DEF Promise!promiseVars
  <2>11. CASE Load(t)
    <3>1. request[t].pc = "load" /\ request[t].run \in Runs
      BY <1>1, <2>11 DEF Load, Fresh
    <3>2. CASE /\ request[t].run \in DOMAIN loaded
               /\ request' = [request EXCEPT ![t].pc = "answer", ![t].model = loaded[request[t].run]]
      <4> DEFINE x == [request[t] EXCEPT !.pc = "answer", !.model = loaded[request[t].run]]
      <4>1. loaded[request[t].run] = request[t].run
        BY <1>1, <3>2 DEF Named
      <4>2. x \in RequestType /\ x.pc = "answer" /\ x.model = request[t].run
        BY <2>2, <3>1, <4>1 DEF RequestType
      <4>3. request' = [request EXCEPT ![t] = x]
        BY <1>1, <3>2
      <4> QED
        BY <2>9, <3>1, <4>2, <4>3
    <3>3. CASE request' = [request EXCEPT ![t].pc = "clear", ![t].model = request[t].run]
      <4> DEFINE x == [request[t] EXCEPT !.pc = "clear", !.model = request[t].run]
      <4>1. x \in RequestType /\ x.pc = "clear" /\ x.run = request[t].run
        BY <2>2, <3>1 DEF RequestType
      <4>2. request' = [request EXCEPT ![t] = x]
        BY <1>1, <3>3
      <4> QED
        BY <2>10, <3>1, <4>1, <4>2
    <3>4. CASE request' = [request EXCEPT ![t] = NoPrediction]
      <4>1. seen[t].stage = "chosen"
        BY <1>3, <3>1 DEF Seen
      <4> QED
        BY <2>8, <3>4, <4>1
    <3> QED
      BY <2>11, <3>2, <3>3, <3>4 DEF Load
  <2>12. CASE Clear(t)
    <3> DEFINE x == [request[t] EXCEPT !.pc = "store"]
    <3>1. x \in RequestType /\ x.pc = "store" /\ x.run = request[t].run
      BY <2>2 DEF RequestType
    <3>2. request[t].pc = "clear" /\ request' = [request EXCEPT ![t] = x]
      BY <1>1, <2>12 DEF Clear
    <3> QED
      BY <2>10, <3>1, <3>2
  <2>13. CASE Store(t)
    <3> DEFINE x == [request[t] EXCEPT !.pc = "answer"]
    <3>1. request[t].pc = "store" /\ request' = [request EXCEPT ![t] = x]
      BY <1>1, <2>13 DEF Store
    <3>2. request[t].model = request[t].run
      BY <1>1, <3>1 DEF Fresh
    <3>3. x \in RequestType /\ x.pc = "answer" /\ x.model = request[t].run
      BY <2>2, <3>2 DEF RequestType
    <3> QED
      BY <2>9, <3>1, <3>3
  <2>14. CASE Answer(t)
    <3>1. seen[t].stage = "answered"
      BY <1>3, <2>14 DEF Answer, Seen
    <3>2. Promise!Leave(t)
      BY <2>1, <2>5, <2>14, <3>1 DEF Answer, Promise!Leave
    <3> QED
      BY <3>2 DEF Promise!PromiseNext
  <2> QED
    BY <1>5, <2>6, <2>7, <2>11, <2>12, <2>13, <2>14
<1>6. CASE UNCHANGED cacheVars
  <2>1. trained' = trained /\ seen' = seen
    BY <1>6 DEF cacheVars, Seen
  <2> QED
    BY <2>1 DEF Promise!promiseVars
<1> QED
  BY <1>4, <1>5, <1>6 DEF CacheNext

(* Keeping a model loaded is invisible: every prediction is by the run     *)
(* that was newest at one moment while it was asked for, for any number of *)
(* threads and of runs (predict.py:40-43, 92-100).                         *)
THEOREM CacheIsInvisible == CacheSpec => CacheKeepsPromise
<1>1. CacheInit => Promise!PromiseInit
  BY PromiseInitially
<1>2. CInv /\ [CacheNext]_cacheVars => [Promise!PromiseNext]_(Promise!promiseVars)
  BY PromiseStep
<1> QED
  BY <1>1, <1>2, CacheInvariant, PTL DEF CacheSpec, CacheKeepsPromise, Promise!PromiseSpec

-----------------------------------------------------------------------------
(***************************************************************************)
(* The limiters.                                                           *)
(***************************************************************************)
(* Induction over the naturals, stated with a set: the naturals are        *)
(* well-founded, so a set of them that is not empty has a least one.       *)
LEMMA NatSetInduction ==
  ASSUME NEW S, 0 \in S, \A n \in Nat : n \in S => n + 1 \in S
  PROVE  Nat \subseteq S
<1> DEFINE T == Nat \ S
           R == OpToRel(<, Nat)
<1>1. SUFFICES ASSUME T # {}
               PROVE  FALSE
  OBVIOUS
<1>2. IsWellFoundedOn(R, Nat)
  BY NatLessThanWellFounded
<1>3. T \subseteq Nat
  OBVIOUS
<1> HIDE DEF T, R
<1>4. PICK x \in T : \A y \in T : <<y, x>> \notin R
  BY <1>1, <1>2, <1>3, WFMin
<1>5. \A y \in Nat : y < x => <<y, x>> \in R
  BY <1>3 DEF R, OpToRel
<1>6. x \in Nat /\ x # 0
  BY DEF T
<1>7. x - 1 \in Nat /\ x - 1 < x /\ x - 1 + 1 = x
  BY <1>6
<1>8. x - 1 \notin T
  BY <1>4, <1>5, <1>7
<1> QED
  BY <1>7, <1>8 DEF T


(* What PowerOfTwo computes up to n; such a function exists for every n,   *)
(* and two of them agree, so that PowerOfTwo is what it says it is.        *)
PowersTo(h, n) == h \in [0 .. n -> Nat] /\ h[0] = 1 /\ \A i \in 1 .. n : h[i] = 2 * h[i - 1]

LEMMA PowersAgree ==
  ASSUME NEW m \in Nat, NEW n \in Nat, NEW g, NEW h, PowersTo(g, m), PowersTo(h, n)
  PROVE  \A i \in Nat : i <= m /\ i <= n => g[i] = h[i]
<1> DEFINE S == {i \in Nat : i <= m /\ i <= n => g[i] = h[i]}
<1>1. 0 \in S
  BY DEF PowersTo
<1>2. ASSUME NEW i \in Nat, i \in S
      PROVE  i + 1 \in S
  BY <1>2 DEF PowersTo
<1> HIDE DEF S
<1>3. Nat \subseteq S
  BY <1>1, <1>2, NatSetInduction
<1> QED
  BY <1>3 DEF S

LEMMA PowersExist == \A n \in Nat : \E h : PowersTo(h, n)
<1> DEFINE S == {n \in Nat : \E h : PowersTo(h, n)}
<1>1. 0 \in S
  <2>1. PowersTo([i \in 0 .. 0 |-> 1], 0)
    BY DEF PowersTo
  <2> QED
    BY <2>1
<1>2. ASSUME NEW n \in Nat, n \in S
      PROVE  n + 1 \in S
  <2>1. PICK h : PowersTo(h, n)
    BY <1>2
  <2>2. PowersTo([i \in 0 .. n + 1 |-> IF i = n + 1 THEN 2 * h[n] ELSE h[i]], n + 1)
    BY <2>1 DEF PowersTo
  <2> QED
    BY <2>2
<1> HIDE DEF S
<1>3. Nat \subseteq S
  BY <1>1, <1>2, NatSetInduction
<1> QED
  BY <1>3 DEF S

LEMMA PowerOfTwoDef ==
  /\ PowerOfTwo \in [Nat -> Nat]
  /\ PowerOfTwo[0] = 1
  /\ \A n \in Nat : PowerOfTwo[n + 1] = 2 * PowerOfTwo[n]
<1> DEFINE H(n) == CHOOSE h : PowersTo(h, n)
           D == [n \in Nat |-> H(n)[n]]
<1>1. \A n \in Nat : PowersTo(H(n), n)
  BY PowersExist, Zenon
<1> HIDE DEF H
<1>2. D \in [Nat -> Nat] /\ D[0] = 1
  BY <1>1 DEF PowersTo
<1>3. ASSUME NEW n \in Nat
      PROVE  D[n + 1] = 2 * D[n]
  <2>1. PowersTo(H(n), n) /\ PowersTo(H(n + 1), n + 1)
    BY <1>1
  <2>2. H(n + 1)[n] = H(n)[n]
    BY <2>1, PowersAgree
  <2>3. H(n + 1)[n + 1] = 2 * H(n + 1)[n]
    BY <2>1 DEF PowersTo
  <2> QED
    BY <2>2, <2>3
<1>4. D = [n \in Nat |-> IF n = 0 THEN 1 ELSE 2 * D[n - 1]]
  <2> HIDE DEF D
  <2>1. \A n \in Nat : D[n] = IF n = 0 THEN 1 ELSE 2 * D[n - 1]
    <3> SUFFICES ASSUME NEW n \in Nat, n # 0
                 PROVE  D[n] = 2 * D[n - 1]
      BY <1>2
    <3>1. n - 1 \in Nat /\ n - 1 + 1 = n
      OBVIOUS
    <3> QED
      BY <1>3, <3>1
  <2> QED
    BY <1>2, <2>1
<1> HIDE DEF D
<1>5. PowerOfTwo = [n \in Nat |-> IF n = 0 THEN 1 ELSE 2 * PowerOfTwo[n - 1]]
  BY <1>4, Zenon DEF PowerOfTwo
<1>6. PowerOfTwo \in [Nat -> Nat]
  <2> DEFINE S == {n \in Nat : PowerOfTwo[n] \in Nat}
  <2>1. 0 \in S
    BY <1>5
  <2>2. ASSUME NEW n \in Nat, n \in S
        PROVE  n + 1 \in S
    BY <1>5, <2>2
  <2> HIDE DEF S
  <2>3. Nat \subseteq S
    BY <2>1, <2>2, NatSetInduction
  <2>4. \A n \in Nat : PowerOfTwo[n] \in Nat
    BY <2>3 DEF S
  <2> QED
    BY <1>5, <2>4
<1>7. \A n \in Nat : PowerOfTwo[n + 1] = 2 * PowerOfTwo[n] 
  BY <1>5
<1> QED
  BY <1>5, <1>6, <1>7

(* More failures, no shorter lock.                                         *)
LEMMA DelayGrows ==
  /\ \A f \in Int : Delay(f) \in 0 .. MaxDelay
  /\ \A f \in Int : f <= FreeRetries => Delay(f) = 0
  /\ \A f, g \in Int : f <= g => Delay(f) <= Delay(g)
<1> USE RateLimitsAssumption
<1>1. \A k \in Nat : \A i \in Nat : PowerOfTwo[i] <= PowerOfTwo[i + k]
  <2> DEFINE S == {k \in Nat : \A i \in Nat : PowerOfTwo[i] <= PowerOfTwo[i + k]}
  <2>1. 0 \in S
    BY PowerOfTwoDef
  <2>2. ASSUME NEW k \in Nat, k \in S
        PROVE  k + 1 \in S
    <3> SUFFICES ASSUME NEW i \in Nat
                 PROVE  PowerOfTwo[i] <= PowerOfTwo[i + (k + 1)]
      OBVIOUS
    <3>1. i + k \in Nat /\ i + (k + 1) = (i + k) + 1
      OBVIOUS
    <3>2. PowerOfTwo[(i + k) + 1] = 2 * PowerOfTwo[i + k]
      BY <3>1, PowerOfTwoDef
    <3>3. PowerOfTwo[i] \in Nat /\ PowerOfTwo[i + k] \in Nat /\ PowerOfTwo[i] <= PowerOfTwo[i + k]
      BY <2>2, <3>1, PowerOfTwoDef
    <3> QED
      BY <3>1, <3>2, <3>3
  <2> HIDE DEF S
  <2>3. Nat \subseteq S
    BY <2>1, <2>2, NatSetInduction
  <2> QED
    BY <2>3 DEF S
<1>2. ASSUME NEW f \in Int, f > FreeRetries
      PROVE  f - FreeRetries - 1 \in Nat /\ PowerOfTwo[f - FreeRetries - 1] \in Nat
  BY <1>2, PowerOfTwoDef
<1>3. \A f \in Int : Delay(f) \in 0 .. MaxDelay
  <2> SUFFICES ASSUME NEW f \in Int PROVE Delay(f) \in 0 .. MaxDelay
    OBVIOUS
  <2>1. CASE f <= FreeRetries
    BY <2>1 DEF Delay
  <2>2. CASE f > FreeRetries
    <3>1. PICK p \in Nat : p = PowerOfTwo[f - FreeRetries - 1]
      BY <1>2, <2>2
    <3>2. Delay(f) = Smaller(p, MaxDelay)
      BY <2>2, <3>1 DEF Delay
    <3> QED
      BY <3>1, <3>2 DEF Smaller
  <2> QED
    BY <2>1, <2>2
<1>4. \A f \in Int : f <= FreeRetries => Delay(f) = 0
  BY DEF Delay
<1>5. ASSUME NEW f \in Int, NEW g \in Int, f <= g
      PROVE  Delay(f) <= Delay(g)
  <2>1. CASE f <= FreeRetries
    BY <1>3, <1>4, <2>1
  <2>2. CASE f > FreeRetries
    <3> DEFINE i == f - FreeRetries - 1
               j == g - FreeRetries - 1
    <3>1. i \in Nat /\ j - i \in Nat /\ i + (j - i) = j /\ j \in Nat /\ g > FreeRetries
      BY <1>5, <2>2
    <3>2. PowerOfTwo[i] <= PowerOfTwo[i + (j - i)]
      BY <1>1, <3>1
    <3>3. PowerOfTwo[i] \in Nat /\ PowerOfTwo[j] \in Nat
      BY <3>1, PowerOfTwoDef
    <3>4. Delay(f) = Smaller(PowerOfTwo[i], MaxDelay) /\ Delay(g) = Smaller(PowerOfTwo[j], MaxDelay)
      BY <2>2, <3>1 DEF Delay
    <3> QED
      BY <3>1, <3>2, <3>3, <3>4 DEF Smaller
  <2> QED
    BY <2>1, <2>2
<1> QED
  BY <1>3, <1>4, <1>5

-----------------------------------------------------------------------------
(* The limiters' invariant adds to the types: Holding, that a thread holds *)
(* the object it works on; Caps, that a hit which is counted and not yet   *)
(* compared has its room; Rungs, that locks, and those about to be         *)
(* written, are of rungs that were climbed; Counted, that a fresh failure  *)
(* goes to the streak there is; Kept, that a failure which is not late has *)
(* a lock to write that is no shorter than the one there is.               *)
LoginType ==
  [pc : {"idle", "get", "renew", "hit", "compare", "find", "clock", "gate", "hash"}
          \cup Recording,
   moment : 0 .. MaxTime, win : Objects \cup {NoObject}, streak : Objects \cup {NoObject},
   delay : 0 .. MaxDelay, fresh : BOOLEAN, late : BOOLEAN]

Holding ==
  \A t \in Attempts :
    /\ attempt[t].pc \in {"hit", "compare"} => attempt[t].win \in Objects
    /\ attempt[t].pc \in {"clock", "gate", "fail", "penalize", "lock"} =>
         attempt[t].streak \in Objects

Comparing(o) == {t \in Attempts : attempt[t].pc = "compare" /\ attempt[t].win = o}

Caps ==
  \A o \in Objects :
    /\ window[o].through <= MaxHits
    /\ window[o].hits <= MaxHits =>
         window[o].through + Cardinality(Comparing(o)) <= window[o].hits

Rungs ==
  /\ LocksAreEarned
  /\ \A t \in Attempts :
       /\ attempt[t].moment <= now
       /\ attempt[t].pc = "lock" =>
            attempt[t].delay <= Delay(streak[attempt[t].streak].failures)

Counted ==
  /\ FailuresAreCounted
  /\ \A t \in Attempts :
       attempt[t].fresh /\ attempt[t].pc = "fail" => attempt[t].streak = streakOf

(* What the lock of an object is no longer than, for a thread's clock.     *)
Extends(t, o) == streak[o].locked <= attempt[t].moment + Delay(streak[o].failures)
Kept ==
  \A t \in Attempts : ~attempt[t].late =>
    /\ attempt[t].pc = "setdefault" => \A o \in Objects : Extends(t, o)
    /\ attempt[t].pc \in {"fail", "penalize"} => Extends(t, attempt[t].streak)
    /\ attempt[t].pc = "lock" =>
         streak[attempt[t].streak].locked <= attempt[t].moment + attempt[t].delay

LInv == LimitsTypeOK /\ Holding /\ Caps /\ Rungs /\ Counted /\ Kept

(* The steps of a thread other than those that write locks or drop streaks.*)
Steps(t) ==
  \/ Check(t) \/ CheckOther(t) \/ Get(t) \/ Renew(t) \/ Hit(t) \/ Compare(t)
  \/ Find(t) \/ ReadClock(t) \/ Gate(t)
  \/ Wrong(t) \/ SetDefault(t) \/ Fail(t) \/ Penalize(t) \/ TurnAway(t)

LEMMA LimitsSteps ==
  [LimitsNext]_limitVars =>
    \/ Tick \/ UNCHANGED limitVars
    \/ \E t \in Attempts : Steps(t) \/ Lock(t) \/ Right(t)
BY DEF LimitsNext, Steps

(* What the locals of a thread can be.                                     *)
LEMMA LoginTypes ==
  ASSUME LimitsTypeOK
  PROVE  /\ attempt \in [Attempts -> LoginType] /\ NoLogin \in LoginType
         /\ NoLogin.pc = "idle" /\ NoLogin.moment = 0 /\ NoLogin.win = NoObject
         /\ NoLogin.streak = NoObject /\ ~NoLogin.fresh /\ ~NoLogin.late
         /\ window \in [Objects -> [hits : 0 .. MaxHits + 1, resets : 0 .. MaxTime + Window,
                                    through : Nat]]
         /\ streak \in [Objects -> [failures : 0 .. MaxFailures,
                                    locked : 0 .. MaxTime + MaxDelay]]
         /\ now \in 0 .. MaxTime /\ wrongs \in Nat
         /\ MaxHits \in Nat \ {0} /\ Window \in Nat \ {0} /\ FreeRetries \in Nat
         /\ MaxDelay \in Nat \ {0} /\ MaxExponent \in Nat /\ MaxFailures \in Nat
         /\ MaxTime \in Nat /\ NoObject \notin Objects
BY RateLimitsAssumption DEF LimitsTypeOK, LoginType, NoLogin

LEMMA LoginMoves ==
  ASSUME LimitsTypeOK, NEW t \in Attempts, NEW x \in LoginType, Goes(t, x)
  PROVE  /\ attempt' \in [Attempts -> LoginType] /\ attempt'[t] = x
         /\ \A o \in Attempts \ {t} : attempt'[o] = attempt[o]
BY LoginTypes DEF Goes

(* How a thread goes through login: where it was, and where it is.         *)
LEMMA LoginSteps ==
  ASSUME LInv, NEW t \in Attempts, Steps(t)
  PROVE  \E x \in LoginType :
           /\ Goes(t, x) /\ now' = now
           /\ x.moment <= now
           /\ x.pc \in {"hit", "compare"} => x.win \in Objects
           /\ x.pc \in {"clock", "gate", "fail", "penalize", "lock"} => x.streak \in Objects
           /\ x.pc \in Recording =>
                \/ Wrong(t) /\ x.pc = "setdefault" /\ x.moment = now
                \/ /\ x.moment = attempt[t].moment /\ x.late = attempt[t].late
                   /\ x.fresh = attempt[t].fresh
           /\ x.pc = "compare" => Hit(t) /\ x.win = attempt[t].win
           /\ attempt[t].pc = "compare" => Compare(t)
           /\ x.pc = "setdefault" => Wrong(t)
           /\ x.pc = "fail" => SetDefault(t)
           /\ x.pc = "penalize" => Fail(t) /\ x.streak = attempt[t].streak
           /\ x.pc = "lock" => /\ Penalize(t) /\ x.streak = attempt[t].streak
                               /\ x.delay = Delay(streak[attempt[t].streak].failures)
<1> DEFINE P(x) ==
           /\ Goes(t, x) /\ now' = now
           /\ x.moment <= now
           /\ x.pc \in {"hit", "compare"} => x.win \in Objects
           /\ x.pc \in {"clock", "gate", "fail", "penalize", "lock"} => x.streak \in Objects
           /\ x.pc \in Recording =>
                \/ Wrong(t) /\ x.pc = "setdefault" /\ x.moment = now
                \/ /\ x.moment = attempt[t].moment /\ x.late = attempt[t].late
                   /\ x.fresh = attempt[t].fresh
           /\ x.pc = "compare" => Hit(t) /\ x.win = attempt[t].win
           /\ attempt[t].pc = "compare" => Compare(t)
           /\ x.pc = "setdefault" => Wrong(t)
           /\ x.pc = "fail" => SetDefault(t)
           /\ x.pc = "penalize" => Fail(t) /\ x.streak = attempt[t].streak
           /\ x.pc = "lock" => /\ Penalize(t) /\ x.streak = attempt[t].streak
                               /\ x.delay = Delay(streak[attempt[t].streak].failures)
<1>1. /\ attempt[t] \in LoginType /\ NoLogin \in LoginType /\ NoLogin.pc = "idle"
      /\ NoLogin.moment = 0 /\ now \in 0 .. MaxTime /\ MaxTime \in Nat
      /\ windowOf \in Objects \cup {NoObject} /\ streakOf \in Objects \cup {NoObject}
      /\ attempt[t].moment <= now
  BY LoginTypes DEF LInv, Rungs, LimitsTypeOK
<1>2. /\ attempt[t].pc \in {"hit", "compare"} => attempt[t].win \in Objects
      /\ attempt[t].pc \in {"clock", "gate", "fail", "penalize", "lock"} =>
           attempt[t].streak \in Objects
  BY DEF LInv, Holding
<1>3. ASSUME Goes(t, NoLogin), now' = now, attempt[t].pc = "compare" => Compare(t)
      PROVE  P(NoLogin)
  BY <1>1, <1>3 DEF Recording
<1>4. ASSUME NEW x \in LoginType, Goes(t, x), now' = now,
             x.pc \in {"idle", "get", "renew", "find", "hash"}, x.moment <= now,
             attempt[t].pc = "compare" => Compare(t)
      PROVE  P(x)
  BY <1>4 DEF Recording
<1> HIDE DEF P
<1>19. ASSUME NEW pc \in {"idle", "get", "find", "hash"}, now' = now,
              \/ Goes(t, [NoLogin EXCEPT !.pc = pc])
              \/ Goes(t, [NoLogin EXCEPT !.pc = pc, !.moment = now]),
              attempt[t].pc = "compare" => Compare(t)
       PROVE  \E x \in LoginType : P(x)
  <2>1. PICK x : /\ Goes(t, x)
                 /\ \/ x = [NoLogin EXCEPT !.pc = pc]
                    \/ x = [NoLogin EXCEPT !.pc = pc, !.moment = now]
    BY <1>19
  <2>2. CASE x = [NoLogin EXCEPT !.pc = pc]
    <3>1. x \in LoginType /\ x.pc = pc /\ x.moment = NoLogin.moment
      BY <1>1, <2>2 DEF LoginType
    <3> QED
      BY <1>1, <1>4, <1>19, <2>1, <3>1
  <2>3. CASE x = [NoLogin EXCEPT !.pc = pc, !.moment = now]
    <3>1. x \in LoginType /\ x.pc = pc /\ x.moment = now
      BY <1>1, <2>3 DEF LoginType
    <3> QED
      BY <1>1, <1>4, <1>19, <2>1, <3>1
  <2> QED
    BY <2>1, <2>2, <2>3
<1>5. CASE Check(t)
  <2>1. /\ now' = now /\ attempt[t].pc = "idle"
        /\ Goes(t, [NoLogin EXCEPT !.pc = "get", !.moment = now])
    BY <1>5 DEF Check
  <2> QED
    BY <1>19, <2>1 DEF P
<1>6. CASE CheckOther(t)
  <2>1. now' = now /\ attempt[t].pc = "idle" /\ Goes(t, [NoLogin EXCEPT !.pc = "find"])
    BY <1>6 DEF CheckOther
  <2> QED
    BY <1>19, <2>1 DEF P
<1>7. CASE Get(t)
  <2>1. CASE GoesTo(t, "renew")
    BY <1>1, <1>4, <1>7, <2>1 DEF Get, GoesTo, LoginType, P
  <2>2. CASE ~GoesTo(t, "renew")
    <3>1. PICK x : x = [NoLogin EXCEPT !.pc = "hit", !.win = windowOf]
      OBVIOUS
    <3>2. Goes(t, x) /\ windowOf \in Objects /\ now' = now /\ attempt[t].pc = "get"
      BY <1>1, <1>7, <2>2, <3>1 DEF Get
    <3>3. x \in LoginType /\ x.pc = "hit" /\ x.win = windowOf /\ x.moment = 0
      BY <1>1, <3>1, <3>2 DEF LoginType, NoLogin
    <3> QED
      BY <1>1, <3>2, <3>3 DEF Recording, P
  <2> QED
    BY <2>1, <2>2
<1>8. CASE Renew(t)
  <2>1. now' = now /\ attempt[t].pc = "renew" /\ Goes(t, [NoLogin EXCEPT !.pc = "find"])
    BY <1>8 DEF Renew
  <2> QED
    BY <1>19, <2>1 DEF P
<1>9. CASE Hit(t)
  <2>1. PICK x : x = [attempt[t] EXCEPT !.pc = "compare"]
    OBVIOUS
  <2>2. /\ x \in LoginType /\ x.pc = "compare" /\ x.win = attempt[t].win
        /\ x.moment = attempt[t].moment
    BY <1>1, <2>1 DEF LoginType
  <2>3. Goes(t, x) /\ now' = now /\ attempt[t].pc = "hit"
    BY <1>9, <2>1 DEF Hit, GoesTo
  <2> QED
    BY <1>1, <1>2, <1>9, <2>2, <2>3 DEF Recording, P
<1>10. CASE Compare(t)
  <2>1. /\ now' = now
        /\ Goes(t, [NoLogin EXCEPT !.pc = "find"]) \/ Goes(t, NoLogin)
    BY <1>10 DEF Compare, Answered
  <2> QED
    BY <1>1, <1>3, <1>10, <1>19, <2>1 DEF P
<1>11. CASE Find(t)
  <2>1. PICK x : x = [attempt[t] EXCEPT !.pc = IF streakOf = NoObject THEN "hash" ELSE "clock",
                                        !.streak = streakOf]
    OBVIOUS
  <2>2. /\ x \in LoginType /\ x.pc = (IF streakOf = NoObject THEN "hash" ELSE "clock")
        /\ x.streak = streakOf /\ x.moment = attempt[t].moment
    BY <1>1, <2>1 DEF LoginType
  <2>3. Goes(t, x) /\ now' = now /\ attempt[t].pc = "find"
    BY <1>11, <2>1 DEF Find
  <2> QED
    BY <1>1, <2>2, <2>3 DEF Recording, P
<1>12. CASE ReadClock(t)
  <2>1. PICK x : x = [attempt[t] EXCEPT !.pc = "gate", !.moment = now]
    OBVIOUS
  <2>2. x \in LoginType /\ x.pc = "gate" /\ x.streak = attempt[t].streak /\ x.moment = now
    BY <1>1, <2>1 DEF LoginType
  <2>3. Goes(t, x) /\ now' = now /\ attempt[t].pc = "clock"
    BY <1>12, <2>1 DEF ReadClock
  <2> QED
    BY <1>1, <1>2, <2>2, <2>3 DEF Recording, P
<1>13. CASE Gate(t)
  <2>1. PICK pc \in {"idle", "hash"} : Goes(t, [NoLogin EXCEPT !.pc = pc])
    BY <1>13 DEF Gate
  <2>2. now' = now /\ attempt[t].pc = "gate"
    BY <1>13 DEF Gate
  <2> QED
    BY <1>19, <2>1, <2>2 DEF P
<1>14. CASE Wrong(t)
  <2>1. PICK x : x = [NoLogin EXCEPT !.pc = "setdefault", !.moment = now, !.fresh = TRUE]
    OBVIOUS
  <2>2. x \in LoginType /\ x.pc = "setdefault" /\ x.moment = now
    BY <1>1, <2>1 DEF LoginType, NoLogin, Recording
  <2>3. Goes(t, x) /\ now' = now /\ attempt[t].pc = "hash"
    BY <1>14, <2>1 DEF Wrong
  <2> QED
    BY <1>1, <1>14, <2>2, <2>3 DEF P
<1>15. CASE SetDefault(t)
  <2>1. PICK o \in Objects : Goes(t, [attempt[t] EXCEPT !.pc = "fail", !.streak = o])
    BY <1>1, <1>15 DEF SetDefault, OneOf, FreeStreaks, Entry
  <2>2. PICK x : x = [attempt[t] EXCEPT !.pc = "fail", !.streak = o]
    OBVIOUS
  <2>3. /\ x \in LoginType /\ x.pc = "fail" /\ x.streak = o /\ x.moment = attempt[t].moment
        /\ x.late = attempt[t].late /\ x.fresh = attempt[t].fresh
    BY <1>1, <2>2 DEF LoginType, Recording
  <2>4. Goes(t, x) /\ now' = now /\ attempt[t].pc = "setdefault"
    BY <1>15, <2>1, <2>2 DEF SetDefault
  <2> QED
    BY <1>1, <1>15, <2>3, <2>4 DEF P
<1>16. CASE Fail(t)
  <2>1. PICK x : x = [attempt[t] EXCEPT !.pc = "penalize"]
    OBVIOUS
  <2>2. /\ x \in LoginType /\ x.pc = "penalize" /\ x.streak = attempt[t].streak
        /\ x.moment = attempt[t].moment /\ x.late = attempt[t].late /\ x.fresh = attempt[t].fresh
    BY <1>1, <2>1 DEF LoginType, Recording
  <2>3. Goes(t, x) /\ now' = now /\ attempt[t].pc = "fail"
    BY <1>16, <2>1 DEF Fail, GoesTo
  <2> QED
    BY <1>1, <1>2, <1>16, <2>2, <2>3 DEF P
<1>17. CASE Penalize(t)
  <2>1. now' = now /\ attempt[t].pc = "penalize"
    BY <1>17 DEF Penalize
  <2>2. CASE Answered(t)
    BY <1>1, <1>3, <2>1, <2>2 DEF Answered, P
  <2>3. CASE ~Answered(t)
    <3>1. PICK d : d = Delay(streak[attempt[t].streak].failures)
      OBVIOUS
    <3>2. d \in 0 .. MaxDelay
      <4>1. streak[attempt[t].streak].failures \in Int
        BY <1>2, <2>1, LoginTypes DEF LInv
      <4> QED
        BY <3>1, <4>1, DelayGrows
    <3>3. PICK x : x = [attempt[t] EXCEPT !.pc = "lock", !.delay = d]
      OBVIOUS
    <3>4. /\ x \in LoginType /\ x.pc = "lock" /\ x.streak = attempt[t].streak /\ x.delay = d
          /\ x.moment = attempt[t].moment /\ x.late = attempt[t].late
          /\ x.fresh = attempt[t].fresh
      BY <1>1, <3>2, <3>3 DEF LoginType, Recording
    <3>5. Goes(t, x)
      BY <1>17, <2>3, <3>1, <3>3 DEF Penalize
    <3> QED
      BY <1>1, <1>2, <1>17, <2>1, <3>1, <3>4, <3>5 DEF P
  <2> QED
    BY <2>2, <2>3
<1>18. CASE TurnAway(t)
  BY <1>3, <1>18, <1>1 DEF TurnAway, Answered, P
<1> QED
  BY <1>5, <1>6, <1>7, <1>8, <1>9, <1>10, <1>11, <1>12, <1>13, <1>14, <1>15, <1>16, <1>17, <1>18 DEF P, Steps

(* A lock is written, a right password, and time.                          *)
LEMMA LockMoves ==
  ASSUME LInv, NEW t \in Attempts, Lock(t)
  PROVE  LET s == attempt[t].streak IN
         /\ now' = now /\ streakOf' = streakOf /\ window' = window /\ windowOf' = windowOf
         /\ wrongs' = wrongs
         /\ s \in Objects /\ attempt[t].pc = "lock"
         /\ streak' \in [Objects -> [failures : 0 .. MaxFailures,
                                     locked : 0 .. MaxTime + MaxDelay]]
         /\ \A o \in Objects :
              /\ streak'[o].failures = streak[o].failures
              /\ streak'[o].locked = IF o = s THEN attempt[t].moment + attempt[t].delay
                                     ELSE streak[o].locked
         /\ attempt' \in [Attempts -> LoginType] /\ attempt'[t] = NoLogin
         /\ \A u \in Attempts \ {t} :
              /\ attempt'[u].pc = attempt[u].pc /\ attempt'[u].moment = attempt[u].moment
              /\ attempt'[u].win = attempt[u].win /\ attempt'[u].streak = attempt[u].streak
              /\ attempt'[u].delay = attempt[u].delay /\ attempt'[u].fresh = attempt[u].fresh
              /\ attempt'[u].pc \in Recording => attempt'[u].late
<1> DEFINE s == attempt[t].streak
<1>1. /\ attempt \in [Attempts -> LoginType] /\ NoLogin \in LoginType
      /\ streak \in [Objects -> [failures : 0 .. MaxFailures, locked : 0 .. MaxTime + MaxDelay]]
      /\ now \in 0 .. MaxTime /\ MaxTime \in Nat /\ MaxDelay \in Nat
  BY LoginTypes DEF LInv
<1>2. /\ now' = now /\ streakOf' = streakOf /\ window' = window /\ windowOf' = windowOf
      /\ wrongs' = wrongs /\ attempt[t].pc = "lock"
      /\ streak' = [streak EXCEPT ![s].locked = attempt[t].moment + attempt[t].delay]
      /\ attempt' = [o \in Attempts |->
           IF o = t THEN NoLogin
           ELSE [attempt[o] EXCEPT !.late = attempt[o].late \/ attempt[o].pc \in Recording]]
  BY DEF Lock
<1>3. s \in Objects /\ attempt[t].moment + attempt[t].delay \in 0 .. MaxTime + MaxDelay
  BY <1>1, <1>2 DEF LInv, Holding, LoginType
<1>4. /\ streak' \in [Objects -> [failures : 0 .. MaxFailures, locked : 0 .. MaxTime + MaxDelay]]
      /\ \A o \in Objects :
           /\ streak'[o].failures = streak[o].failures
           /\ streak'[o].locked = IF o = s THEN attempt[t].moment + attempt[t].delay
                                  ELSE streak[o].locked
  BY <1>1, <1>2, <1>3
<1>5. \A u \in Attempts : attempt[u] \in LoginType
  BY <1>1
<1>6. ASSUME NEW u \in Attempts \ {t}
      PROVE  /\ attempt'[u] \in LoginType
             /\ attempt'[u].pc = attempt[u].pc /\ attempt'[u].moment = attempt[u].moment
             /\ attempt'[u].win = attempt[u].win /\ attempt'[u].streak = attempt[u].streak
             /\ attempt'[u].delay = attempt[u].delay /\ attempt'[u].fresh = attempt[u].fresh
             /\ attempt'[u].pc \in Recording => attempt'[u].late
  <2>1. PICK late \in BOOLEAN : late = (attempt[u].late \/ attempt[u].pc \in Recording)
    OBVIOUS
  <2>2. attempt'[u] = [attempt[u] EXCEPT !.late = late]
    BY <1>2, <2>1
  <2>3. attempt[u] \in LoginType
    BY <1>5
  <2> QED
    BY <2>1, <2>2, <2>3 DEF LoginType
<1>7. attempt'[t] = NoLogin
  BY <1>2
<1>8. attempt' \in [Attempts -> LoginType]
  <2>1. \A u \in Attempts : attempt'[u] \in LoginType
    BY <1>1, <1>6, <1>7
  <2>2. DOMAIN attempt' = Attempts /\ attempt' = [u \in Attempts |-> attempt'[u]]
    BY <1>2
  <2> QED
    BY <2>1, <2>2
<1> QED
  BY <1>2, <1>3, <1>4, <1>6, <1>7, <1>8

LEMMA RightMoves ==
  ASSUME LInv, NEW t \in Attempts, Right(t)
  PROVE  /\ now' = now /\ streakOf' = NoObject /\ window' = window /\ windowOf' = windowOf
         /\ streak' = streak /\ wrongs' = 0 /\ attempt[t].pc = "hash"
         /\ attempt' \in [Attempts -> LoginType] /\ attempt'[t] = NoLogin
         /\ \A u \in Attempts \ {t} :
              /\ attempt'[u].pc = attempt[u].pc /\ attempt'[u].moment = attempt[u].moment
              /\ attempt'[u].win = attempt[u].win /\ attempt'[u].streak = attempt[u].streak
              /\ attempt'[u].delay = attempt[u].delay /\ attempt'[u].late = attempt[u].late
         /\ \A u \in Attempts : ~attempt'[u].fresh
<1>1. attempt \in [Attempts -> LoginType] /\ NoLogin \in LoginType /\ ~NoLogin.fresh
  BY LoginTypes DEF LInv
<1>2. /\ now' = now /\ streakOf' = NoObject /\ window' = window /\ windowOf' = windowOf
      /\ streak' = streak /\ wrongs' = 0 /\ attempt[t].pc = "hash"
      /\ attempt' = [o \in Attempts |->
           IF o = t THEN NoLogin ELSE [attempt[o] EXCEPT !.fresh = FALSE]]
  BY DEF Right
<1>3. \A u \in Attempts : attempt[u] \in LoginType
  BY <1>1
<1>4. ASSUME NEW u \in Attempts \ {t}
      PROVE  /\ attempt'[u] \in LoginType
             /\ attempt'[u].pc = attempt[u].pc /\ attempt'[u].moment = attempt[u].moment
             /\ attempt'[u].win = attempt[u].win /\ attempt'[u].streak = attempt[u].streak
             /\ attempt'[u].delay = attempt[u].delay /\ attempt'[u].late = attempt[u].late
             /\ ~attempt'[u].fresh
  <2>1. attempt'[u] = [attempt[u] EXCEPT !.fresh = FALSE]
    BY <1>2
  <2>2. attempt[u] \in LoginType
    BY <1>3
  <2> QED
    BY <2>1, <2>2 DEF LoginType
<1>5. attempt'[t] = NoLogin
  BY <1>2
<1>6. attempt' \in [Attempts -> LoginType]
  <2>1. \A u \in Attempts : attempt'[u] \in LoginType
    BY <1>1, <1>4, <1>5
  <2>2. DOMAIN attempt' = Attempts /\ attempt' = [u \in Attempts |-> attempt'[u]]
    BY <1>2
  <2> QED
    BY <2>1, <2>2
<1> QED
  BY <1>1, <1>2, <1>4, <1>5, <1>6

(* What the other steps of a thread do to the streaks.                     *)
LEMMA StreakMoves ==
  ASSUME LInv, NEW t \in Attempts, Steps(t)
  PROVE  /\ streak' \in [Objects -> [failures : 0 .. MaxFailures,
                                     locked : 0 .. MaxTime + MaxDelay]]
         /\ \/ streak' = streak /\ streakOf' = streakOf /\ ~Fail(t)
            \/ /\ SetDefault(t) /\ ~Fail(t) /\ streakOf = NoObject /\ streakOf' \in Objects
               /\ streak' = [streak EXCEPT ![streakOf'] = NoStreak]
               /\ \A u \in Attempts : attempt[u].streak # streakOf'
            \/ /\ Fail(t) /\ ~SetDefault(t) /\ streakOf' = streakOf
               /\ attempt[t].streak \in Objects
               /\ streak' = [streak EXCEPT ![attempt[t].streak].failures = @ + 1]
         /\ SetDefault(t) => \A x : Goes(t, x) => x.streak = streakOf' /\ streakOf' # NoObject
         /\ wrongs' = IF Fail(t) /\ attempt[t].fresh THEN wrongs + 1 ELSE wrongs
<1>1. /\ streak \in [Objects -> [failures : 0 .. MaxFailures, locked : 0 .. MaxTime + MaxDelay]]
      /\ attempt \in [Attempts -> LoginType]
      /\ streakOf \in Objects \cup {NoObject} /\ NoObject \notin Objects
      /\ MaxTime \in Nat /\ MaxDelay \in Nat /\ MaxFailures \in Nat
  BY LoginTypes DEF LInv, LimitsTypeOK
<1>2. ASSUME ~SetDefault(t), ~Fail(t)
      PROVE  streak' = streak /\ streakOf' = streakOf /\ wrongs' = wrongs
  BY <1>2 DEF Check, CheckOther, Get, Renew, Hit, Compare, Find, ReadClock, Gate, Wrong,
              Penalize, TurnAway, Steps
<1>3. CASE ~SetDefault(t) /\ ~Fail(t)
  BY <1>1, <1>2, <1>3
<1>4. CASE Fail(t)
  <2>1. /\ attempt[t].pc = "fail" /\ streakOf' = streakOf
        /\ streak' = [streak EXCEPT ![attempt[t].streak].failures = @ + 1]
        /\ streak[attempt[t].streak].failures < MaxFailures
        /\ wrongs' = IF attempt[t].fresh THEN wrongs + 1 ELSE wrongs
    BY <1>4 DEF Fail
  <2>2. attempt[t].streak \in Objects
    BY <2>1 DEF LInv, Holding
  <2>3. ~SetDefault(t)
    BY <2>1 DEF SetDefault
  <2>4. streak' \in [Objects -> [failures : 0 .. MaxFailures, locked : 0 .. MaxTime + MaxDelay]]
    BY <1>1, <2>1, <2>2
  <2> QED
    BY <1>4, <2>1, <2>2, <2>3, <2>4
<1>5. CASE SetDefault(t)
  <2>1. PICK o \in IF streakOf = NoObject THEN OneOf(FreeStreaks) ELSE {streakOf} :
          /\ streak' = IF streakOf = NoObject THEN [streak EXCEPT ![o] = NoStreak] ELSE streak
          /\ streakOf' = o
          /\ Goes(t, [attempt[t] EXCEPT !.pc = "fail", !.streak = o])
    BY <1>5 DEF SetDefault, Entry
  <2>2. attempt[t].pc = "setdefault" /\ wrongs' = wrongs
    BY <1>5 DEF SetDefault
  <2>3. ~Fail(t)
    BY <2>2 DEF Fail
  <2>4. /\ o \in Objects
        /\ streakOf = NoObject => \A u \in Attempts : attempt[u].streak # o
    BY <1>1, <2>1 DEF OneOf, FreeStreaks
  <2>5. streak' \in [Objects -> [failures : 0 .. MaxFailures, locked : 0 .. MaxTime + MaxDelay]]
    BY <1>1, <2>1, <2>4 DEF NoStreak
  <2>6. ASSUME NEW x, Goes(t, x)
        PROVE  x.streak = o
    <3>1. PICK y : y = [attempt[t] EXCEPT !.pc = "fail", !.streak = o]
      OBVIOUS
    <3>2. attempt'[t] = x /\ attempt'[t] = y
      BY <1>1, <2>1, <2>6, <3>1 DEF Goes
    <3>3. attempt[t] \in LoginType
      BY <1>1
    <3>4. y.streak = o
      BY <3>1, <3>3 DEF LoginType
    <3> QED
      BY <3>2, <3>4
  <2> QED
    BY <1>1, <1>5, <2>1, <2>2, <2>3, <2>4, <2>5, <2>6
<1> QED
  BY <1>3, <1>4, <1>5

LEMMA LimitsInitially == LimitsInit => LInv
<1> SUFFICES ASSUME LimitsInit PROVE LInv
  OBVIOUS
<1> USE RateLimitsAssumption DEF LimitsInit, NoLogin, NoStreak, NoWindow
<1>1. LimitsTypeOK
  BY DEF LimitsTypeOK
<1>2. Holding
  BY DEF Holding
<1>3. Caps
  <2>1. \A o : Comparing(o) = {}
    BY DEF Comparing
  <2> QED
    BY <2>1, FS_EmptySet DEF Caps
<1>4. Rungs
  BY DelayGrows DEF Rungs, LocksAreEarned
<1>5. Counted
  BY DEF Counted, FailuresAreCounted
<1>6. Kept
  BY DEF Kept, Recording
<1> QED
  BY <1>1, <1>2, <1>3, <1>4, <1>5, <1>6 DEF LInv

LEMMA WindowTypeStep ==
  ASSUME LInv, NEW t \in Attempts, Steps(t)
  PROVE  /\ windowOf' \in Objects \cup {NoObject}
         /\ window' \in [Objects -> [hits : 0 .. MaxHits + 1, resets : 0 .. MaxTime + Window,
                                     through : Nat]]
<1>1. /\ window \in [Objects -> [hits : 0 .. MaxHits + 1, resets : 0 .. MaxTime + Window,
                                 through : Nat]]
      /\ windowOf \in Objects \cup {NoObject} /\ attempt \in [Attempts -> LoginType]
      /\ MaxHits \in Nat \ {0} /\ Window \in Nat \ {0} /\ MaxTime \in Nat
  BY LoginTypes DEF LInv, LimitsTypeOK
<1>2. CASE Renew(t)
  <2>1. PICK o \in OneOf(FreeWindows) :
          /\ windowOf' = o
          /\ window' = [window EXCEPT ![o] =
               [hits |-> 1, resets |-> attempt[t].moment + Window, through |-> 1]]
    BY <1>2 DEF Renew
  <2>2. o \in Objects
    BY <2>1 DEF OneOf, FreeWindows
  <2>3. attempt[t].moment \in 0 .. MaxTime
    BY <1>1 DEF LoginType
  <2>4. [hits |-> 1, resets |-> attempt[t].moment + Window, through |-> 1] \in
          [hits : 0 .. MaxHits + 1, resets : 0 .. MaxTime + Window, through : Nat]
    BY <1>1, <2>3
  <2> QED
    BY <1>1, <2>1, <2>2, <2>4
<1>3. CASE Hit(t)
  <2>1. /\ window' = [window EXCEPT ![attempt[t].win].hits = Smaller(@ + 1, MaxHits + 1)]
        /\ windowOf' = windowOf /\ attempt[t].pc = "hit"
    BY <1>3 DEF Hit
  <2>2. attempt[t].win \in Objects
    BY <2>1 DEF LInv, Holding
  <2>3. Smaller(window[attempt[t].win].hits + 1, MaxHits + 1) \in 0 .. MaxHits + 1
    BY <1>1, <2>2 DEF Smaller
  <2> QED
    BY <1>1, <2>1, <2>2, <2>3
<1>4. CASE Compare(t)
  <2>1. /\ \/ window' = [window EXCEPT ![attempt[t].win].through = @ + 1]
           \/ window' = window
        /\ windowOf' = windowOf
    BY <1>4 DEF Compare
  <2> QED
    BY <1>1, <2>1
<1>5. CASE ~Renew(t) /\ ~Hit(t) /\ ~Compare(t)
  BY <1>1, <1>5 DEF Steps, Check, CheckOther, Get, Find, ReadClock, Gate, Wrong, SetDefault, Fail,
                    Penalize, TurnAway
<1> QED
  BY <1>2, <1>3, <1>4, <1>5

LEMMA LimitsTypeStep == LInv /\ [LimitsNext]_limitVars => LimitsTypeOK' /\ Holding'
<1> SUFFICES ASSUME LInv, [LimitsNext]_limitVars PROVE LimitsTypeOK' /\ Holding'
  OBVIOUS
<1>1. /\ attempt \in [Attempts -> LoginType] /\ LimitsTypeOK /\ Holding
      /\ NoLogin \in LoginType /\ NoLogin.pc = "idle" /\ now \in 0 .. MaxTime /\ wrongs \in Nat
      /\ MaxTime \in Nat
  BY LoginTypes DEF LInv
<1>2. ASSUME attempt' \in [Attempts -> LoginType], now' \in 0 .. MaxTime, wrongs' \in Nat,
             windowOf' \in Objects \cup {NoObject}, streakOf' \in Objects \cup {NoObject},
             window' \in [Objects -> [hits : 0 .. MaxHits + 1, resets : 0 .. MaxTime + Window,
                                      through : Nat]],
             streak' \in [Objects -> [failures : 0 .. MaxFailures,
                                      locked : 0 .. MaxTime + MaxDelay]]
      PROVE  LimitsTypeOK'
  BY <1>2 DEF LimitsTypeOK, LoginType
<1>3. ASSUME NEW t \in Attempts, Steps(t)
      PROVE  LimitsTypeOK' /\ Holding'
  <2>1. PICK x \in LoginType :
          /\ Goes(t, x) /\ now' = now
          /\ x.pc \in {"hit", "compare"} => x.win \in Objects
          /\ x.pc \in {"clock", "gate", "fail", "penalize", "lock"} => x.streak \in Objects
    BY <1>3, LoginSteps
  <2>2. /\ attempt' \in [Attempts -> LoginType] /\ attempt'[t] = x
        /\ \A o \in Attempts \ {t} : attempt'[o] = attempt[o]
    BY <1>1, <2>1, LoginMoves
  <2>3. Holding'
    BY <1>1, <2>1, <2>2 DEF Holding
  <2>4. wrongs' \in Nat
    <3>1. wrongs' = wrongs \/ wrongs' = wrongs + 1
      BY <1>3, StreakMoves
    <3> QED
      BY <1>1, <3>1
  <2>5. streakOf' \in Objects \cup {NoObject}
    <3>1. streakOf' = streakOf \/ streakOf' \in Objects
      BY <1>3, StreakMoves
    <3> QED
      BY <1>1, <3>1 DEF LimitsTypeOK
  <2> QED
    BY <1>1, <1>2, <1>3, <2>1, <2>2, <2>3, <2>4, <2>5, WindowTypeStep, StreakMoves
<1>4. ASSUME NEW t \in Attempts, Lock(t)
      PROVE  LimitsTypeOK' /\ Holding'
  <2>1. Holding'
    BY <1>1, <1>4, LockMoves DEF Holding
  <2> QED
    BY <1>1, <1>2, <1>4, <2>1, LockMoves, LoginTypes DEF LimitsTypeOK
<1>5. ASSUME NEW t \in Attempts, Right(t)
      PROVE  LimitsTypeOK' /\ Holding'
  <2>1. Holding'
    BY <1>1, <1>5, RightMoves DEF Holding
  <2> QED
    BY <1>1, <1>2, <1>5, <2>1, RightMoves, LoginTypes DEF LimitsTypeOK
<1>6. CASE Tick
  BY <1>1, <1>6 DEF Tick, LimitsTypeOK, Holding
<1>7. CASE UNCHANGED limitVars
  BY <1>1, <1>7 DEF limitVars, LimitsTypeOK, Holding
<1> QED
  BY <1>3, <1>4, <1>5, <1>6, <1>7, LimitsSteps

(* The threads about to compare are finitely many.                         *)
LEMMA ComparingCounts ==
  /\ \A o : IsFiniteSet(Comparing(o)) /\ Cardinality(Comparing(o)) \in Nat
  /\ \A o, t : t \notin Comparing(o) =>
       Cardinality(Comparing(o) \cup {t}) = Cardinality(Comparing(o)) + 1
  /\ \A o, t : t \in Comparing(o) =>
       Cardinality(Comparing(o) \ {t}) = Cardinality(Comparing(o)) - 1
<1>1. \A o : IsFiniteSet(Comparing(o))
  <2>1. \A o : Comparing(o) \in SUBSET Attempts
    BY DEF Comparing
  <2> QED
    BY <2>1, RateLimitsAssumption, FS_Subset
<1>2. \A o : Cardinality(Comparing(o)) \in Nat
  BY <1>1, FS_CardinalityType
<1>3. \A o, t : t \notin Comparing(o) =>
        Cardinality(Comparing(o) \cup {t}) = Cardinality(Comparing(o)) + 1
  BY <1>1, FS_AddElement
<1>4. \A o, t : t \in Comparing(o) =>
        Cardinality(Comparing(o) \ {t}) = Cardinality(Comparing(o)) - 1
  BY <1>1, FS_RemoveElement
<1> QED
  BY <1>1, <1>2, <1>3, <1>4

LEMMA CapsStep == LInv /\ [LimitsNext]_limitVars => Caps'
<1> SUFFICES ASSUME LInv, [LimitsNext]_limitVars PROVE Caps'
  OBVIOUS
<1>1. /\ attempt \in [Attempts -> LoginType] /\ Caps
      /\ NoLogin.pc = "idle" /\ MaxHits \in Nat \ {0}
      /\ window \in [Objects -> [hits : 0 .. MaxHits + 1, resets : 0 .. MaxTime + Window,
                                 through : Nat]]
  BY LoginTypes DEF LInv
<1>2. \A o : Cardinality(Comparing(o)) \in Nat
  BY ComparingCounts
<1>3. ASSUME window' = window, \A o : Comparing(o)' = Comparing(o)
      PROVE  Caps'
  BY <1>1, <1>3 DEF Caps
<1>4. CASE Tick \/ UNCHANGED limitVars
  <2>1. window' = window /\ attempt' = attempt
    BY <1>4 DEF Tick, limitVars
  <2> QED
    BY <1>3, <2>1 DEF Comparing
<1>5. ASSUME NEW t \in Attempts, Lock(t) \/ Right(t)
      PROVE  Caps'
  <2>1. /\ window' = window /\ attempt'[t].pc = "idle" /\ attempt[t].pc # "compare"
        /\ \A u \in Attempts \ {t} :
             attempt'[u].pc = attempt[u].pc /\ attempt'[u].win = attempt[u].win
    BY <1>1, <1>5, LockMoves, RightMoves
  <2>2. \A o : Comparing(o)' = Comparing(o)
    BY <2>1 DEF Comparing
  <2> QED
    BY <1>3, <2>1, <2>2
<1>6. ASSUME NEW t \in Attempts, Steps(t)
      PROVE  Caps'
  <2>1. PICK x \in LoginType :
          /\ Goes(t, x)
          /\ x.pc = "compare" => Hit(t) /\ x.win = attempt[t].win
          /\ attempt[t].pc = "compare" => Compare(t)
    BY <1>6, LoginSteps
  <2>2. /\ attempt'[t] = x /\ \A o \in Attempts \ {t} : attempt'[o] = attempt[o]
    BY <2>1, LoginMoves DEF LInv
  <2>8. PICK w : w = attempt[t].win
    OBVIOUS
  <2> USE <2>8
  <2>7. ASSUME \A o \in Objects \ {w} :
                 window'[o] = window[o] /\ Comparing(o)' = Comparing(o),
               window'[w].through <= MaxHits,
               window'[w].hits <= MaxHits =>
                 window'[w].through + Cardinality(Comparing(w)') <= window'[w].hits
        PROVE  Caps'
    <3> SUFFICES ASSUME NEW o \in Objects
                 PROVE  /\ window'[o].through <= MaxHits
                        /\ window'[o].hits <= MaxHits =>
                             window'[o].through + Cardinality(Comparing(o)') <= window'[o].hits
      BY DEF Caps
    <3>1. CASE o = w
      BY <2>7, <3>1
    <3>2. CASE o # w
      BY <1>1, <2>7, <3>2 DEF Caps
    <3> QED
      BY <3>1, <3>2
  <2>3. CASE Hit(t)
    <3>1. /\ attempt[t].pc = "hit"
          /\ window' = [window EXCEPT ![w].hits = Smaller(window[w].hits + 1, MaxHits + 1)]
          /\ attempt' = [attempt EXCEPT ![t] = [attempt[t] EXCEPT !.pc = "compare"]]
      BY <2>3 DEF Hit, GoesTo, Goes
    <3>2. w \in Objects
      BY <3>1 DEF LInv, Holding
    <3>3. attempt'[t].pc = "compare" /\ attempt'[t].win = w
      BY <1>1, <3>1 DEF LoginType
    <3>4. /\ Comparing(w)' = Comparing(w) \cup {t} /\ t \notin Comparing(w)
          /\ \A o \in Objects \ {w} : Comparing(o)' = Comparing(o)
      BY <2>2, <3>1, <3>3 DEF Comparing
    <3>5. Cardinality(Comparing(w)') = Cardinality(Comparing(w)) + 1
      BY <3>4, ComparingCounts
    <3>6. /\ window'[w].through = window[w].through
          /\ window'[w].hits = Smaller(window[w].hits + 1, MaxHits + 1)
          /\ \A o \in Objects \ {w} : window'[o] = window[o]
      BY <1>1, <3>1, <3>2
    <3>7. /\ window'[w].through <= MaxHits
          /\ window'[w].hits <= MaxHits =>
               window'[w].through + Cardinality(Comparing(w)') <= window'[w].hits
      BY <1>1, <1>2, <3>2, <3>5, <3>6 DEF Caps, Smaller
    <3> QED
      BY <2>7, <3>4, <3>6, <3>7
  <2>4. CASE Compare(t)
    <3>1. attempt[t].pc = "compare"
      BY <2>4 DEF Compare
    <3>2. w \in Objects
      BY <3>1 DEF LInv, Holding
    <3>3. x.pc # "compare"
      BY <2>1, <3>1 DEF Hit
    <3>4. /\ Comparing(w)' = Comparing(w) \ {t} /\ t \in Comparing(w)
          /\ \A o \in Objects \ {w} : Comparing(o)' = Comparing(o)
      <4>1. \A u \in Attempts \ {t} : attempt'[u] = attempt[u]
        BY <2>2
      <4>2. attempt'[t].pc # "compare"
        BY <2>2, <3>3
      <4>3. Comparing(w)' = Comparing(w) \ {t}
        BY <4>1, <4>2 DEF Comparing
      <4>4. t \in Comparing(w)
        BY <3>1 DEF Comparing
      <4>5. \A o \in Objects \ {w} : Comparing(o)' = Comparing(o)
        BY <4>1, <4>2 DEF Comparing
      <4> QED
        BY <4>3, <4>4, <4>5
    <3>5. Cardinality(Comparing(w)') = Cardinality(Comparing(w)) - 1
      BY <3>4, ComparingCounts
    <3>6. CASE Within(window[w].hits)
      <4>1. window' = [window EXCEPT ![w].through = window[w].through + 1]
        BY <2>4, <3>6 DEF Compare
      <4>2. /\ window'[w].through = window[w].through + 1 /\ window'[w].hits = window[w].hits
            /\ \A o \in Objects \ {w} : window'[o] = window[o]
        BY <1>1, <3>2, <4>1
      <4>3. /\ window'[w].through <= MaxHits
            /\ window'[w].through + Cardinality(Comparing(w)') <= window'[w].hits
        <5>1. window[w].through + Cardinality(Comparing(w)) <= window[w].hits
          BY <1>1, <3>2, <3>6 DEF Caps, Within
        <5>2. Cardinality(Comparing(w)') \in Nat
          BY <3>4, <3>5, <1>2, FS_EmptySet, FS_CardinalityType, FS_RemoveElement, ComparingCounts
        <5> QED
          BY <1>1, <1>2, <3>2, <3>5, <3>6, <4>2, <5>1, <5>2 DEF Within
      <4> QED
        BY <2>7, <3>4, <4>2, <4>3
    <3>7. CASE ~Within(window[w].hits)
      <4>1. window' = window
        BY <2>4, <3>7 DEF Compare
      <4>2. /\ window[w].through <= MaxHits
            /\ ~(window[w].hits <= MaxHits)
        BY <1>1, <3>2, <3>7 DEF Caps, Within
      <4> QED
        BY <2>7, <3>4, <4>1, <4>2
    <3> QED
      BY <3>6, <3>7
  <2>5. CASE Renew(t)
    <3>1. PICK n \in OneOf(FreeWindows) :
            window' = [window EXCEPT ![n] =
              [hits |-> 1, resets |-> attempt[t].moment + Window, through |-> 1]]
      BY <2>5 DEF Renew
    <3>2. n \in Objects /\ \A u \in Attempts : attempt[u].win # n
      BY <3>1 DEF OneOf, FreeWindows
    <3>3. attempt[t].pc = "renew"
      BY <2>5 DEF Renew
    <3>4. x.pc # "compare"
      BY <2>1, <3>3 DEF Hit
    <3>5. \A o : Comparing(o)' = Comparing(o)
      BY <2>2, <3>3, <3>4 DEF Comparing
    <3>6. Comparing(n) = {}
      BY <3>2 DEF Comparing
    <3>7. /\ window'[n].hits = 1 /\ window'[n].through = 1
          /\ \A o \in Objects \ {n} : window'[o] = window[o]
      BY <1>1, <3>1, <3>2
    <3>8. Cardinality(Comparing(n)') = 0
      BY <3>5, <3>6, FS_EmptySet
    <3> QED
      BY <1>1, <3>5, <3>7, <3>8 DEF Caps
  <2>6. CASE ~Hit(t) /\ ~Compare(t) /\ ~Renew(t)
    <3>1. window' = window
      BY <1>6, <2>6 DEF Steps, Check, CheckOther, Get, Find, ReadClock, Gate, Wrong, SetDefault,
                        Fail, Penalize, TurnAway
    <3>2. \A o : Comparing(o)' = Comparing(o)
      BY <2>1, <2>2, <2>6 DEF Comparing
    <3> QED
      BY <1>3, <3>1, <3>2
  <2> QED
    BY <2>3, <2>4, <2>5, <2>6
<1> QED
  BY <1>4, <1>5, <1>6, LimitsSteps

(* Later failures count for more, and clocks go forward.                   *)
LEMMA Rises ==
  /\ \A f \in Int : Delay(f) \in Nat
  /\ \A f, g \in Int : f <= g => Delay(f) <= Delay(g)
BY DelayGrows, RateLimitsAssumption

LEMMA RungsStep == LInv /\ [LimitsNext]_limitVars => Rungs'
<1> SUFFICES ASSUME LInv, [LimitsNext]_limitVars PROVE Rungs'
  OBVIOUS
<1>1. /\ attempt \in [Attempts -> LoginType] /\ now \in 0 .. MaxTime /\ MaxTime \in Nat
      /\ NoLogin.pc = "idle" /\ NoLogin.moment = 0 /\ MaxDelay \in Nat /\ MaxFailures \in Nat
      /\ streak \in [Objects -> [failures : 0 .. MaxFailures, locked : 0 .. MaxTime + MaxDelay]]
  BY LoginTypes DEF LInv
<1>2. /\ \A o \in Objects : /\ streak[o].locked \in Int /\ streak[o].failures \in Int
                            /\ streak[o].locked <= now + Delay(streak[o].failures)
      /\ \A t \in Attempts :
           /\ attempt[t].moment \in Int /\ attempt[t].delay \in Int
           /\ attempt[t].moment <= now
           /\ attempt[t].pc = "lock" =>
                /\ attempt[t].streak \in Objects
                /\ attempt[t].delay <= Delay(streak[attempt[t].streak].failures)
  BY <1>1 DEF LInv, Rungs, LocksAreEarned, Holding, LoginType
<1>3. CASE Tick
  <2>1. now' = now + 1 /\ streak' = streak /\ attempt' = attempt
    BY <1>3 DEF Tick
  <2>2. LocksAreEarned'
    BY <1>1, <1>2, <2>1, Rises DEF LocksAreEarned
  <2> QED
    BY <1>1, <1>2, <2>1, <2>2 DEF Rungs
<1>4. CASE UNCHANGED limitVars
  BY <1>4 DEF LInv, limitVars, Rungs, LocksAreEarned
<1>5. ASSUME NEW t \in Attempts, Right(t)
      PROVE  Rungs'
  BY <1>1, <1>2, <1>5, RightMoves DEF Rungs, LocksAreEarned
<1>6. ASSUME NEW t \in Attempts, Lock(t)
      PROVE  Rungs'
  <2>1. LocksAreEarned'
    <3> SUFFICES ASSUME NEW o \in Objects
                 PROVE  streak'[o].locked <= now' + Delay(streak'[o].failures)
      BY DEF LocksAreEarned
    <3>1. /\ now' = now /\ streak'[o].failures = streak[o].failures /\ attempt[t].pc = "lock"
          /\ streak'[o].locked = IF o = attempt[t].streak THEN attempt[t].moment + attempt[t].delay
                                 ELSE streak[o].locked
      BY <1>6, LockMoves
    <3>2. Delay(streak[o].failures) \in Nat
      BY <1>2, Rises
    <3> QED
      BY <1>1, <1>2, <3>1, <3>2
  <2> QED
    BY <1>1, <1>2, <1>6, <2>1, LockMoves DEF Rungs
<1>7. ASSUME NEW t \in Attempts, Steps(t)
      PROVE  Rungs'
  <2>1. PICK x \in LoginType :
          /\ Goes(t, x) /\ now' = now /\ x.moment <= now
          /\ x.pc \in {"clock", "gate", "fail", "penalize", "lock"} => x.streak \in Objects
          /\ x.pc = "lock" => /\ Penalize(t) /\ x.streak = attempt[t].streak
                              /\ x.delay = Delay(streak[attempt[t].streak].failures)
    BY <1>7, LoginSteps
  <2>2. /\ attempt'[t] = x /\ \A o \in Attempts \ {t} : attempt'[o] = attempt[o]
    BY <2>1, LoginMoves DEF LInv
  <2>3. \A o \in Objects : streak[o].failures \in Nat /\ Delay(streak[o].failures) \in Nat
    BY <1>1, Rises
  <2>4. ASSUME NEW o \in Objects
        PROVE  /\ streak'[o].failures \in Int /\ streak'[o].locked \in Int
               /\ streak'[o] = streak[o] \/ streak'[o] = NoStreak
                    \/ (streak'[o].locked = streak[o].locked
                        /\ streak'[o].failures = streak[o].failures + 1)
               /\ streak'[o].locked <= now' + Delay(streak'[o].failures)
               /\ (\E u \in Attempts : attempt[u].streak = o) =>
                    Delay(streak[o].failures) <= Delay(streak'[o].failures)
    <3>1. CASE streak' = streak
      BY <1>1, <1>2, <2>1, <2>3, <3>1
    <3>2. CASE streak' = [streak EXCEPT ![streakOf'] = NoStreak]
               /\ \A u \in Attempts : attempt[u].streak # streakOf'
      <4>1. streak'[o] = IF o = streakOf' THEN NoStreak ELSE streak[o]
        BY <1>1, <3>2
      <4>2. NoStreak.failures = 0 /\ NoStreak.locked = 0 /\ Delay(0) \in Nat
        BY Rises DEF NoStreak
      <4> QED
        BY <1>1, <1>2, <2>1, <2>3, <3>2, <4>1, <4>2
    <3>3. CASE /\ attempt[t].streak \in Objects
               /\ streak' = [streak EXCEPT ![attempt[t].streak].failures = @ + 1]
      <4>1. /\ streak'[o].locked = streak[o].locked
            /\ streak'[o].failures =
                 IF o = attempt[t].streak THEN streak[o].failures + 1 ELSE streak[o].failures
            /\ o # attempt[t].streak => streak'[o] = streak[o]
        BY <1>1, <3>3
      <4>2. Delay(streak[o].failures) <= Delay(streak[o].failures + 1)
            /\ Delay(streak[o].failures + 1) \in Nat
        BY <2>3, Rises
      <4> QED
        BY <1>1, <1>2, <2>1, <2>3, <4>1, <4>2
    <3> QED
      BY <1>7, <3>1, <3>2, <3>3, StreakMoves
  <2>5. LocksAreEarned'
    BY <2>4 DEF LocksAreEarned
  <2>6. ASSUME NEW u \in Attempts
        PROVE  /\ attempt'[u].moment <= now'
               /\ attempt'[u].pc = "lock" =>
                    attempt'[u].delay <= Delay(streak'[attempt'[u].streak].failures)
    <3>1. CASE u = t
      <4>1. attempt'[u] = x
        BY <2>2, <3>1
      <4>2. ASSUME x.pc = "lock"
            PROVE  x.delay <= Delay(streak'[x.streak].failures)
        <5>1. streak' = streak /\ x.streak \in Objects
              /\ x.delay = Delay(streak[x.streak].failures)
          BY <2>1, <4>2 DEF Penalize
        <5> QED
          BY <2>3, <5>1
      <4> QED
        BY <2>1, <4>1, <4>2
    <3>2. CASE u # t
      <4>1. attempt'[u] = attempt[u]
        BY <2>2, <3>2
      <4>2. ASSUME attempt[u].pc = "lock"
            PROVE  attempt[u].delay <= Delay(streak'[attempt[u].streak].failures)
        <5>1. PICK o \in Objects : o = attempt[u].streak
          BY <1>2, <4>2
        <5>2. Delay(streak[o].failures) <= Delay(streak'[o].failures)
              /\ Delay(streak'[o].failures) \in Nat
          BY <2>4, <5>1, Rises
        <5>3. attempt[u].delay <= Delay(streak[o].failures)
          BY <1>2, <4>2, <5>1
        <5> QED
          BY <1>2, <2>3, <5>1, <5>2, <5>3
      <4> QED
        BY <1>2, <2>1, <4>1, <4>2
    <3> QED
      BY <3>1, <3>2
  <2> QED
    BY <2>5, <2>6 DEF Rungs
<1> QED
  BY <1>3, <1>4, <1>5, <1>6, <1>7, LimitsSteps

LEMMA CountedStep == LInv /\ [LimitsNext]_limitVars => Counted'
<1> SUFFICES ASSUME LInv, [LimitsNext]_limitVars PROVE Counted'
  OBVIOUS
<1>1. /\ attempt \in [Attempts -> LoginType] /\ Counted /\ Holding
      /\ NoLogin.pc = "idle" /\ wrongs \in Nat /\ NoObject \notin Objects
      /\ streakOf \in Objects \cup {NoObject}
      /\ streak \in [Objects -> [failures : 0 .. MaxFailures, locked : 0 .. MaxTime + MaxDelay]]
      /\ MaxFailures \in Nat
  BY LoginTypes DEF LInv, LimitsTypeOK
<1>2. CASE Tick \/ UNCHANGED limitVars
  <2>1. streak' = streak /\ streakOf' = streakOf /\ wrongs' = wrongs /\ attempt' = attempt
    BY <1>2 DEF Tick, limitVars
  <2> QED
    BY <1>1, <2>1 DEF Counted, FailuresAreCounted
<1>3. ASSUME NEW t \in Attempts, Right(t)
      PROVE  Counted'
  BY <1>3, RightMoves DEF Counted, FailuresAreCounted
<1>4. ASSUME NEW t \in Attempts, Lock(t)
      PROVE  Counted'
  <2>1. FailuresAreCounted'
    BY <1>1, <1>4, LockMoves DEF Counted, FailuresAreCounted
  <2> QED
    BY <1>1, <1>4, <2>1, LockMoves DEF Counted
<1>5. ASSUME NEW t \in Attempts, Steps(t)
      PROVE  Counted'
  <2>1. PICK x \in LoginType :
          /\ Goes(t, x)
          /\ x.pc = "fail" => SetDefault(t)
    BY <1>5, LoginSteps
  <2>2. /\ attempt'[t] = x /\ \A o \in Attempts \ {t} : attempt'[o] = attempt[o]
    BY <2>1, LoginMoves DEF LInv
  <2>3. x.pc = "fail" => x.streak = streakOf'
    BY <1>5, <2>1, StreakMoves
  <2>4. \A u \in Attempts : attempt[u].fresh /\ attempt[u].pc = "fail" =>
          attempt[u].streak = streakOf /\ streakOf # NoObject
    BY <1>1 DEF Counted, Holding
  <2>5. streakOf # NoObject => streakOf' = streakOf
    BY <1>5, StreakMoves
  <2>6. \A u \in Attempts : attempt'[u].fresh /\ attempt'[u].pc = "fail" =>
          attempt'[u].streak = streakOf'
    BY <2>2, <2>3, <2>4, <2>5
  <2>7. FailuresAreCounted'
    <3>1. CASE streak' = streak /\ streakOf' = streakOf /\ ~Fail(t)
      <4>1. wrongs' = wrongs
        BY <1>5, <3>1, StreakMoves
      <4> QED
        BY <1>1, <3>1, <4>1 DEF Counted, FailuresAreCounted
    <3>2. CASE SetDefault(t) /\ ~Fail(t) /\ streakOf = NoObject /\ streakOf' \in Objects
               /\ streak' = [streak EXCEPT ![streakOf'] = NoStreak]
      <4>1. wrongs' = wrongs /\ wrongs <= 0
        BY <1>1, <1>5, <3>2, StreakMoves DEF Counted, FailuresAreCounted
      <4>2. streak'[streakOf'].failures = 0
        BY <1>1, <3>2 DEF NoStreak
      <4> QED
        BY <1>1, <3>2, <4>1, <4>2 DEF FailuresAreCounted
    <3>3. CASE /\ Fail(t) /\ streakOf' = streakOf /\ attempt[t].streak \in Objects
               /\ streak' = [streak EXCEPT ![attempt[t].streak].failures = @ + 1]
      <4>1. attempt[t].pc = "fail"
            /\ wrongs' = IF attempt[t].fresh THEN wrongs + 1 ELSE wrongs
        BY <3>3 DEF Fail
      <4>2. \A o \in Objects :
              streak'[o].failures = IF o = attempt[t].streak THEN streak[o].failures + 1
                                    ELSE streak[o].failures
        BY <1>1, <3>3
      <4>3. CASE attempt[t].fresh
        <5>1. attempt[t].streak = streakOf /\ streakOf \in Objects
          BY <2>4, <3>3, <4>1, <4>3
        <5>2. wrongs <= streak[streakOf].failures
          BY <1>1, <5>1 DEF Counted, FailuresAreCounted
        <5> QED
          BY <1>1, <3>3, <4>1, <4>2, <4>3, <5>1, <5>2 DEF FailuresAreCounted
      <4>4. CASE ~attempt[t].fresh
        <5>1. CASE streakOf = NoObject
          BY <1>1, <3>3, <4>1, <4>4, <5>1 DEF Counted, FailuresAreCounted
        <5>2. CASE streakOf \in Objects
          <6>1. wrongs <= streak[streakOf].failures /\ streak[streakOf].failures \in Nat
            BY <1>1, <5>2 DEF Counted, FailuresAreCounted
          <6>2. streak'[streakOf].failures >= streak[streakOf].failures
                /\ streak'[streakOf].failures \in Nat
            BY <4>2, <5>2, <6>1
          <6> QED
            BY <1>1, <3>3, <4>1, <4>4, <5>2, <6>1, <6>2 DEF FailuresAreCounted
        <5> QED
          BY <1>1, <5>1, <5>2
      <4> QED
        BY <4>3, <4>4
    <3> QED
      BY <1>5, <3>1, <3>2, <3>3, StreakMoves
  <2> QED
    BY <2>6, <2>7 DEF Counted
<1> QED
  BY <1>2, <1>3, <1>4, <1>5, LimitsSteps

LEMMA KeptStep ==
  LInv /\ [LimitsNext]_limitVars =>
    /\ Kept'
    /\ streakOf' = streakOf /\ streakOf # NoObject
         /\ streak'[streakOf].locked < streak[streakOf].locked =>
       \E t \in Attempts : Lock(t) /\ attempt[t].late
<1> DEFINE Shortens == streakOf' = streakOf /\ streakOf # NoObject
                         /\ streak'[streakOf].locked < streak[streakOf].locked
<1> SUFFICES ASSUME LInv, [LimitsNext]_limitVars
             PROVE  Kept' /\ (Shortens => \E t \in Attempts : Lock(t) /\ attempt[t].late)
  OBVIOUS
<1>1. /\ attempt \in [Attempts -> LoginType] /\ now \in 0 .. MaxTime /\ MaxTime \in Nat
      /\ NoLogin.pc = "idle" /\ MaxDelay \in Nat /\ MaxFailures \in Nat
      /\ streakOf \in Objects \cup {NoObject} /\ NoObject \notin Objects
      /\ streak \in [Objects -> [failures : 0 .. MaxFailures, locked : 0 .. MaxTime + MaxDelay]]
      /\ Kept
  BY LoginTypes DEF LInv, LimitsTypeOK
<1>2. /\ \A o \in Objects : /\ streak[o].locked \in Nat /\ streak[o].failures \in Nat
                            /\ streak[o].locked <= now + Delay(streak[o].failures)
                            /\ Delay(streak[o].failures) \in Nat
      /\ \A t \in Attempts : attempt[t].moment \in Nat /\ attempt[t].delay \in Nat
      /\ \A t \in Attempts : attempt[t].pc \in {"fail", "penalize", "lock"} =>
           attempt[t].streak \in Objects
  <2>1. \A o \in Objects : streak[o].locked \in Nat /\ streak[o].failures \in Nat
    BY <1>1
  <2> QED
    BY <1>1, <2>1, Rises DEF LInv, Rungs, LocksAreEarned, Holding, LoginType
<1>3. ASSUME streak' = streak
      PROVE  ~Shortens
  <2>1. streakOf \in Objects => streak[streakOf].locked \in Nat
    BY <1>2
  <2> QED
    BY <1>1, <1>3, <2>1
<1>4. CASE Tick \/ UNCHANGED limitVars
  <2>1. streak' = streak /\ attempt' = attempt
    BY <1>4 DEF Tick, limitVars
  <2> QED
    BY <1>1, <1>3, <2>1 DEF Kept, Extends
<1>5. ASSUME NEW t \in Attempts, Right(t)
      PROVE  Kept' /\ ~Shortens
  <2>1. Kept'
    BY <1>1, <1>5, RightMoves DEF Kept, Extends
  <2> QED
    BY <1>3, <1>5, <2>1, RightMoves
<1>6. ASSUME NEW t \in Attempts, Lock(t)
      PROVE  Kept' /\ (Shortens => attempt[t].late)
  <2>1. Kept'
    <3>1. \A u \in Attempts : ~attempt'[u].late => attempt'[u].pc \notin Recording
      BY <1>1, <1>6, LockMoves DEF Recording
    <3> QED
      BY <3>1 DEF Kept, Recording
  <2>2. ASSUME ~attempt[t].late
        PROVE  ~Shortens
    <3>1. /\ attempt[t].streak \in Objects /\ attempt[t].pc = "lock"
          /\ \A o \in Objects :
               streak'[o].locked = IF o = attempt[t].streak
                                   THEN attempt[t].moment + attempt[t].delay
                                   ELSE streak[o].locked
      BY <1>6, LockMoves
    <3>2. streak[attempt[t].streak].locked <= attempt[t].moment + attempt[t].delay
      BY <1>1, <2>2, <3>1 DEF Kept
    <3> QED
      BY <1>1, <1>2, <3>1, <3>2
  <2> QED
    BY <2>1, <2>2
<1>7. ASSUME NEW t \in Attempts, Steps(t)
      PROVE  Kept' /\ ~Shortens
  <2>1. PICK x \in LoginType :
          /\ Goes(t, x) /\ now' = now
          /\ x.pc \in {"fail", "penalize", "lock"} => x.streak \in Objects
          /\ x.pc \in Recording =>
               \/ Wrong(t) /\ x.pc = "setdefault" /\ x.moment = now
               \/ x.moment = attempt[t].moment /\ x.late = attempt[t].late
          /\ x.pc = "setdefault" => Wrong(t)
          /\ x.pc = "fail" => SetDefault(t)
          /\ x.pc = "penalize" => Fail(t) /\ x.streak = attempt[t].streak
          /\ x.pc = "lock" => /\ Penalize(t) /\ x.streak = attempt[t].streak
                              /\ x.delay = Delay(streak[attempt[t].streak].failures)
    BY <1>7, LoginSteps DEF Recording
  <2>2. /\ attempt'[t] = x /\ \A o \in Attempts \ {t} : attempt'[o] = attempt[o]
    BY <2>1, LoginMoves DEF LInv
  <2>3. ASSUME NEW o \in Objects, NEW moment \in Nat
        PROVE  /\ streak'[o].locked \in Nat /\ streak'[o].failures \in Nat
               /\ streakOf = o => streak'[o].locked = streak[o].locked
               /\ (\E u \in Attempts : attempt[u].streak = o) =>
                    streak'[o].locked = streak[o].locked
               /\ streak[o].locked <= moment + Delay(streak[o].failures) =>
                    streak'[o].locked <= moment + Delay(streak'[o].failures)
    <3>1. CASE streak' = streak
      BY <1>2, <3>1
    <3>2. CASE streakOf = NoObject /\ streak' = [streak EXCEPT ![streakOf'] = NoStreak]
               /\ \A u \in Attempts : attempt[u].streak # streakOf'
      <4>1. streak'[o] = IF o = streakOf' THEN NoStreak ELSE streak[o]
        BY <1>1, <3>2
      <4>2. NoStreak.failures = 0 /\ NoStreak.locked = 0 /\ Delay(0) \in Nat
        BY Rises DEF NoStreak
      <4> QED
        BY <1>1, <1>2, <2>3, <3>2, <4>1, <4>2
    <3>3. CASE /\ attempt[t].streak \in Objects
               /\ streak' = [streak EXCEPT ![attempt[t].streak].failures = @ + 1]
      <4>1. /\ streak'[o].locked = streak[o].locked
            /\ streak'[o].failures =
                 IF o = attempt[t].streak THEN streak[o].failures + 1 ELSE streak[o].failures
        BY <1>1, <3>3
      <4>2. Delay(streak[o].failures) <= Delay(streak[o].failures + 1)
            /\ Delay(streak[o].failures + 1) \in Nat
        BY <1>2, Rises
      <4> QED
        BY <1>2, <2>3, <4>1, <4>2
    <3> QED
      BY <1>7, <3>1, <3>2, <3>3, StreakMoves
  <2>4. ~Shortens
    BY <1>1, <1>2, <2>3
  <2>5. ASSUME NEW u \in Attempts \ {t}, ~attempt'[u].late
        PROVE  /\ attempt'[u].pc = "setdefault" => \A o \in Objects : Extends(u, o)'
               /\ attempt'[u].pc \in {"fail", "penalize"} => Extends(u, attempt[u].streak)'
               /\ attempt'[u].pc = "lock" =>
                    streak'[attempt'[u].streak].locked <= attempt'[u].moment + attempt'[u].delay
    <3>1. attempt'[u] = attempt[u]
      BY <2>2
    <3>2. attempt[u].pc = "setdefault" => \A o \in Objects : Extends(u, o)'
      BY <1>1, <1>2, <2>3, <2>5, <3>1 DEF Kept, Extends
    <3>3. ASSUME attempt[u].pc \in {"fail", "penalize"}
          PROVE  Extends(u, attempt[u].streak)'
      <4>1. PICK o \in Objects : o = attempt[u].streak
        BY <1>2, <3>3
      <4>2. streak[o].locked <= attempt[u].moment + Delay(streak[o].failures)
        BY <1>1, <2>5, <3>1, <3>3, <4>1 DEF Kept, Extends
      <4>3. streak'[o].locked <= attempt[u].moment + Delay(streak'[o].failures)
        BY <1>2, <2>3, <4>2
      <4> QED
        BY <3>1, <4>1, <4>3 DEF Extends
    <3>4. ASSUME attempt[u].pc = "lock"
          PROVE  streak'[attempt[u].streak].locked <= attempt[u].moment + attempt[u].delay
      <4>1. attempt[u].streak \in Objects
        BY <1>2, <3>4
      <4>2. streak'[attempt[u].streak].locked = streak[attempt[u].streak].locked
        BY <2>3, <4>1
      <4> QED
        BY <1>1, <2>5, <3>1, <3>4, <4>2 DEF Kept
    <3> QED
      BY <3>1, <3>2, <3>3, <3>4
  <2>6. ASSUME ~x.late
        PROVE  /\ x.pc = "setdefault" =>
                    \A o \in Objects : streak'[o].locked <= x.moment + Delay(streak'[o].failures)
               /\ x.pc \in {"fail", "penalize"} =>
                    streak'[x.streak].locked <= x.moment + Delay(streak'[x.streak].failures)
               /\ x.pc = "lock" => streak'[x.streak].locked <= x.moment + x.delay
    <3>1. ASSUME x.pc = "setdefault"
          PROVE  \A o \in Objects : streak'[o].locked <= x.moment + Delay(streak'[o].failures)
      <4>1. streak' = streak /\ attempt[t].pc = "hash"
        BY <2>1, <3>1 DEF Wrong
      <4>2. x.moment = now
        <5>1. Goes(t, [NoLogin EXCEPT !.pc = "setdefault", !.moment = now, !.fresh = TRUE])
          BY <2>1, <3>1 DEF Wrong
        <5>2. x = [NoLogin EXCEPT !.pc = "setdefault", !.moment = now, !.fresh = TRUE]
          BY <1>1, <2>2, <5>1 DEF Goes
        <5> QED
          BY <5>2 DEF NoLogin
      <4> QED
        BY <1>2, <4>1, <4>2
    <3>2. ASSUME x.pc = "fail"
          PROVE  streak'[x.streak].locked <= x.moment + Delay(streak'[x.streak].failures)
      <4>1. attempt[t].pc = "setdefault" /\ ~attempt[t].late /\ x.moment = attempt[t].moment
        BY <2>1, <2>6, <3>2 DEF SetDefault, Recording
      <4>2. \A o \in Objects :
              streak[o].locked <= attempt[t].moment + Delay(streak[o].failures)
        BY <1>1, <4>1 DEF Kept, Extends
      <4> QED
        BY <1>2, <2>1, <2>3, <3>2, <4>1, <4>2
    <3>3. ASSUME x.pc = "penalize"
          PROVE  streak'[x.streak].locked <= x.moment + Delay(streak'[x.streak].failures)
      <4>1. /\ attempt[t].pc = "fail" /\ ~attempt[t].late /\ x.moment = attempt[t].moment
            /\ x.streak = attempt[t].streak /\ x.streak \in Objects
        BY <2>1, <2>6, <3>3 DEF Fail, Recording
      <4>2. streak[x.streak].locked <= attempt[t].moment + Delay(streak[x.streak].failures)
        BY <1>1, <4>1 DEF Kept, Extends
      <4> QED
        BY <1>2, <2>3, <4>1, <4>2
    <3>4. ASSUME x.pc = "lock"
          PROVE  streak'[x.streak].locked <= x.moment + x.delay
      <4>1. /\ attempt[t].pc = "penalize" /\ ~attempt[t].late /\ x.moment = attempt[t].moment
            /\ x.streak = attempt[t].streak /\ streak' = streak
            /\ x.delay = Delay(streak[x.streak].failures)
        BY <2>1, <2>6, <3>4 DEF Penalize, Recording
      <4>2. streak[x.streak].locked <= attempt[t].moment + Delay(streak[x.streak].failures)
        BY <1>1, <4>1 DEF Kept, Extends
      <4> QED
        BY <4>1, <4>2
    <3> QED
      BY <3>1, <3>2, <3>3, <3>4
  <2>7. Kept'
    <3> SUFFICES ASSUME NEW u \in Attempts, ~attempt'[u].late
                 PROVE  /\ attempt'[u].pc = "setdefault" => \A o \in Objects : Extends(u, o)'
                        /\ attempt'[u].pc \in {"fail", "penalize"} =>
                             Extends(u, attempt[u].streak)'
                        /\ attempt'[u].pc = "lock" =>
                             streak'[attempt'[u].streak].locked
                               <= attempt'[u].moment + attempt'[u].delay
      BY DEF Kept
    <3>1. CASE u = t
      BY <2>2, <2>6, <3>1 DEF Extends
    <3>2. CASE u # t
      BY <2>5, <3>2
    <3> QED
      BY <3>1, <3>2
  <2> QED
    BY <2>4, <2>7
<1> QED
  BY <1>3, <1>4, <1>5, <1>6, <1>7, LimitsSteps

LEMMA LimitsStep == LInv /\ [LimitsNext]_limitVars => LInv'
BY LimitsTypeStep, CapsStep, RungsStep, CountedStep, KeptStep DEF LInv

(* The invariant holds of every behavior of the limiters, with any number  *)
(* of threads between their statements (ratelimit.py:54-125).              *)
THEOREM LimitsInvariant == LimitsSpec => []LInv
<1>1. LimitsInit => LInv
  BY LimitsInitially
<1>2. LInv /\ [LimitsNext]_limitVars => LInv'
  BY LimitsStep
<1> QED
  BY <1>1, <1>2, PTL DEF LimitsSpec

(* A window lets no more than its cap through, the threads included that   *)
(* count in it after it was replaced (check, ratelimit.py:57-62).          *)
THEOREM WindowsBound == LimitsSpec => []WindowBounds
<1>1. LInv => WindowBounds
  BY DEF LInv, Caps, WindowBounds
<1> QED
  BY <1>1, LimitsInvariant, PTL

(* Every wrong password since the last right one that was recorded is in   *)
(* the count, however the records overlap with each other and with the     *)
(* right ones (record_failure and record_success, ratelimit.py:112-125).   *)
THEOREM FailuresStayCounted == LimitsSpec => []FailuresAreCounted
<1>1. LInv => FailuresAreCounted
  BY DEF LInv, Counted
<1> QED
  BY <1>1, LimitsInvariant, PTL

(* Only a failure that overlaps with the one that wrote a lock makes it    *)
(* shorter (record_failure, ratelimit.py:113-122).                         *)
THEOREM LocksStay == LimitsSpec => LocksAreKept
<1>1. LInv /\ [LimitsNext]_limitVars =>
        [streakOf' = streakOf /\ streakOf # NoObject
           /\ streak'[streakOf].locked < streak[streakOf].locked =>
         \E t \in Attempts : Lock(t) /\ attempt[t].late]_limitVars
  BY KeptStep
<1> QED
  BY <1>1, LimitsInvariant, PTL DEF LimitsSpec, LocksAreKept

(* And no failure, late or not, locks anybody out for longer than the      *)
(* failures counted by then deserve (record_failure, ratelimit.py:116-122).*)
THEOREM LocksStayEarned == LimitsSpec => []LocksAreEarned
<1>1. LInv => LocksAreEarned
  BY DEF LInv, Rungs
<1> QED
  BY <1>1, LimitsInvariant, PTL

-----------------------------------------------------------------------------
(***************************************************************************)
(* The process.                                                            *)
(***************************************************************************)
(* No step of one part disturbs another, so what is proved of a part by    *)
(* itself holds in the process.                                            *)
LEMMA ServerIsItsParts == ServerSpec => AccountsSpec /\ LimitsSpec /\ CacheSpec
<1>1. ServerInit => AccountsInit /\ LimitsInit /\ CacheInit
  BY DEF ServerInit
<1>2. [ServerNext]_serverVars =>
        /\ [AccountsNext]_accountVars
        /\ [LimitsNext]_limitVars
        /\ [CacheNext]_cacheVars
  BY DEF ServerNext, InAccounts, InLimits, InCache, serverVars, accountVars, limitVars, cacheVars,
         tables
<1> QED
  BY <1>1, <1>2, PTL DEF ServerSpec, AccountsSpec, LimitsSpec, CacheSpec

(* The types of every part of the process (api.py, ratelimit.py and        *)
(* predict.py): in particular no lock is written further ahead than the    *)
(* longest delay, and no token id is given twice.                          *)
THEOREM ServerTypeCorrect == ServerSpec => []ServerTypeOK
<1>1. AInv /\ LInv /\ CInv => ServerTypeOK
  BY DEF AInv, LInv, CInv, ServerTypeOK
<1> QED
  BY <1>1, ServerIsItsParts, AccountsInvariant, LimitsInvariant, CacheInvariant, PTL

(* The process is safe: whatever its parts do between each other's steps,  *)
(* what was shown of each alone holds of all of them together (api.py,     *)
(* ratelimit.py and predict.py).                                           *)
THEOREM ServerIsSafe ==
  ServerSpec => /\ [](SpentInviteHasAccount /\ PresentedIsSpent /\ SessionsAreGood)
                /\ RoleIsInvited /\ ResendReplaces
                /\ [](WindowBounds /\ FailuresAreCounted) /\ LocksAreKept
                /\ [](AnswersAreCurrent /\ ResidentsAreBounded) /\ CacheKeepsPromise
<1>1. AccountsSpec => /\ [](SpentInviteHasAccount /\ PresentedIsSpent /\ SessionsAreGood)
                      /\ RoleIsInvited /\ ResendReplaces
  BY SpentInvitesHaveAccounts, PresentedTokensAreSpent, SessionsStayGood, RolesAreInvited,
     ResendsReplace, PTL
<1>2. LimitsSpec => [](WindowBounds /\ FailuresAreCounted) /\ LocksAreKept
  BY WindowsBound, FailuresStayCounted, LocksStay, PTL
<1>3. CacheSpec => [](AnswersAreCurrent /\ ResidentsAreBounded) /\ CacheKeepsPromise
  BY AnswersStayCurrent, ResidentsStayBounded, CacheIsInvisible, PTL
<1> QED
  BY <1>1, <1>2, <1>3, ServerIsItsParts
=============================================================================
