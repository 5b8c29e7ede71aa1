------------------------- MODULE ExperimentsProofs -------------------------
(***************************************************************************)
(* Theorems about Experiments for any catalog, split, ranking and number   *)
(* of runs, and about Comparison, where the lists are those that           *)
(* TextureLists makes.  The invariant adds to the types: Sampled, that a   *)
(* run's split is of its population, and that of today's scheme where it   *)
(* is the subsample of its basis; Tagged, that a gold model that was ever  *)
(* trainable has a class for good; Seen, what an evaluation has seen live. *)
(***************************************************************************)
EXTENDS Comparison, TextureListsProofs, FiniteSetTheorems, WellFoundedInduction

(* A row of training_run.                                                  *)
RowType ==
  [exists : BOOLEAN, config : Configs \cup {NoConfig},
   basis : SUBSET Uids, population : SUBSET Uids, split : [Partitions -> SUBSET Uids],
   scheme : {"hashed", "shuffled"}, recorded : BOOLEAN]

Typed ==
  /\ CatalogTypeOK
  /\ job \in [pc : {"idle", "samples"}, samples : SUBSET Uids]
  /\ run \in [Runs -> RowType]
  /\ scorer \in [pc : {"idle", "clean"}, rendered : SUBSET Gold, runs : 0 .. MaxRuns,
                 gone : SUBSET Uids]

Sampled ==
  \A r \in Runs :
    IF run[r].exists
    THEN /\ run[r].basis # {} /\ run[r].config \in Configs
         /\ run[r].population \subseteq run[r].basis
         /\ \A p \in Partitions : run[r].split[p] \subseteq run[r].population
         /\ \A p, q \in Partitions : p # q => run[r].split[p] \cap run[r].split[q] = {}
         /\ run[r].scheme = "hashed" =>
              /\ run[r].population =
                   Subsample(run[r].basis, run[r].config.limit, run[r].config.seed)
              /\ run[r].split = Split(run[r].population, run[r].config.seed)
    ELSE run[r] = NoRun

Tagged ==
  \A u \in Gold :
    u \in job.samples \/ (\E r \in Runs : u \in run[r].population) => label[u] \in Roster

Seen == scorer.pc = "clean" => \A u \in scorer.rendered : live[u] \/ u \in scorer.gone

EInv == Typed /\ Sampled /\ Tagged /\ Seen

-----------------------------------------------------------------------------
(* Sets of naturals.                                                       *)

(* The relation < on the naturals, as a set.                               *)
LEMMA LeastNatural ==
  ASSUME NEW S \in SUBSET Nat, S # {}
  PROVE  \E x \in S : \A y \in S : x <= y
<1> DEFINE less == OpToRel(<, Nat)
<1>1. \A x, y \in Nat : x < y => <<x, y>> \in less
  BY DEF OpToRel
<1>2. IsWellFoundedOn(less, Nat)
  BY NatLessThanWellFounded, Zenon
<1> HIDE DEF less
<1>3. PICK x \in S : \A y \in S : ~ (<<y, x>> \in less)
  BY <1>2, WFMin, Zenon
<1>4. ASSUME NEW y \in S
      PROVE  x <= y
  <2>1. x \in Nat /\ y \in Nat
    OBVIOUS
  <2>2. ~(y < x)
    BY <1>1, <1>3, <2>1
  <2> QED
    BY <2>1, <2>2
<1> QED
  BY <1>4

(* An element of a set that a ranking puts before the others.              *)
LEMMA LowestRank ==
  ASSUME NEW S, S # {}, NEW rank, \A x \in S : rank[x] \in Nat
  PROVE  \E x \in S : \A y \in S : rank[x] <= rank[y]
<1> DEFINE ranks == {rank[x] : x \in S}
<1>1. ranks \in SUBSET Nat /\ ranks # {}
  OBVIOUS
<1> HIDE DEF ranks
<1>2. PICK n \in ranks : \A m \in ranks : n <= m
  BY <1>1, LeastNatural
<1> QED
  BY <1>2 DEF ranks

(* One that a bounded ranking puts after the others.                       *)
LEMMA HighestRank ==
  ASSUME NEW S, S # {}, NEW rank, NEW n \in Nat, \A x \in S : rank[x] \in Nat /\ rank[x] <= n
  PROVE  \E x \in S : \A y \in S : rank[y] <= rank[x]
<1> DEFINE below == [x \in S |-> n - rank[x]]
<1>1. \A x \in S : below[x] \in Nat /\ rank[x] = n - below[x]
  OBVIOUS
<1> HIDE DEF below
<1>2. PICK x \in S : \A y \in S : below[x] <= below[y]
  BY <1>1, LowestRank
<1> QED
  BY <1>1, <1>2

-----------------------------------------------------------------------------
(* The n of a set that rank lowest.                                        *)

Below(S, x, rank) == {o \in S : rank[o] < rank[x]}

(* How many rank below an element grows with its rank.                     *)
LEMMA BelowGrows ==
  ASSUME NEW S, IsFiniteSet(S), NEW rank, \A x \in S : rank[x] \in Nat,
         NEW x \in S, NEW y \in S, rank[x] < rank[y]
  PROVE  Cardinality(Below(S, x, rank)) < Cardinality(Below(S, y, rank))
<1> DEFINE bx == Below(S, x, rank)
           by == Below(S, y, rank)
<1>1. /\ bx \cup {x} \in SUBSET by /\ x \notin bx
      /\ bx \in SUBSET S /\ by \in SUBSET S
  BY DEF Below
<1> HIDE DEF bx, by
<1>2. IsFiniteSet(bx) /\ IsFiniteSet(by)
  BY <1>1, FS_Subset
<1>3. Cardinality(bx) \in Nat /\ Cardinality(by) \in Nat
  BY <1>2, FS_CardinalityType
<1>4. Cardinality(bx \cup {x}) = Cardinality(bx) + 1
  BY <1>1, <1>2, FS_AddElement
<1>5. Cardinality(bx \cup {x}) <= Cardinality(by)
  BY <1>1, <1>2, FS_Subset
<1>6. Cardinality(bx) < Cardinality(by)
  BY <1>3, <1>4, <1>5
<1> QED
  BY <1>6 DEF bx, by

(* No more than n are taken, where no two have one rank.                   *)
LEMMA LowestIsBounded ==
  ASSUME NEW S, IsFiniteSet(S), NEW rank, \A x \in S : rank[x] \in Nat,
         \A x, y \in S : rank[x] = rank[y] => x = y, NEW n \in Nat
  PROVE  IsFiniteSet(Lowest(n, S, rank)) /\ Cardinality(Lowest(n, S, rank)) <= n
<1> DEFINE L == Lowest(n, S, rank)
           size == [x \in S |-> Cardinality(Below(S, x, rank))]
<1>1. /\ L \in SUBSET S
      /\ \A x \in S : x \in L <=> size[x] < n
  BY DEF Lowest, Below
<1>2. \A x \in S : size[x] \in Nat
  <2> TAKE x \in S
  <2>1. Below(S, x, rank) \in SUBSET S
    BY DEF Below
  <2>2. IsFiniteSet(Below(S, x, rank))
    BY <2>1, FS_Subset
  <2> QED
    BY <2>2, FS_CardinalityType
<1>3. \A x, y \in S : rank[x] < rank[y] => size[x] < size[y]
  BY BelowGrows
<1>4. \A x \in S : size[x] = Cardinality(Below(S, x, rank))
  OBVIOUS
<1> HIDE DEF L, size
<1>5. IsFiniteSet(L)
  BY <1>1, FS_Subset
<1>6. CASE L = {}
  BY <1>5, <1>6, FS_EmptySet DEF L
<1>7. CASE L # {}
  <2>1. \A x \in L : size[x] \in Nat /\ size[x] <= n
    BY <1>1, <1>2
  <2>2. PICK x \in L : \A y \in L : size[y] <= size[x]
    BY <1>7, <2>1, HighestRank
  <2>3. L \ {x} \in SUBSET Below(S, x, rank)
    <3> SUFFICES ASSUME NEW y \in L, y # x PROVE y \in S /\ rank[y] < rank[x]
      BY DEF Below
    <3>1. x \in S /\ y \in S /\ rank[x] \in Nat /\ rank[y] \in Nat /\ rank[x] # rank[y]
      BY <1>1
    <3>2. ~(rank[x] < rank[y])
      BY <1>2, <1>3, <2>2, <3>1
    <3> QED
      BY <3>1, <3>2
  <2>4. Below(S, x, rank) \in SUBSET S
    BY DEF Below
  <2>5. IsFiniteSet(Below(S, x, rank))
    BY <2>4, FS_Subset
  <2>6. Cardinality(L \ {x}) <= Cardinality(Below(S, x, rank))
    BY <2>3, <2>5, FS_Subset
  <2>7. Cardinality(L \ {x}) = Cardinality(L) - 1
    BY <1>5, FS_RemoveElement
  <2>8. Cardinality(L) \in Nat /\ Cardinality(Below(S, x, rank)) < n
        /\ Cardinality(Below(S, x, rank)) \in Nat
    BY <1>1, <1>2, <1>4, <1>5, FS_CardinalityType
  <2>9. Cardinality(L) <= n
    BY <2>6, <2>7, <2>8
  <2> QED
    BY <1>5, <2>9 DEF L
<1> QED
  BY <1>6, <1>7

(* A union is no larger than its parts together.                           *)
LEMMA UnionSize ==
  ASSUME NEW S, IsFiniteSet(S), NEW T, IsFiniteSet(T), NEW U \in SUBSET (S \cup T)
  PROVE  Cardinality(U) <= Cardinality(S) + Cardinality(T)
<1>1. /\ IsFiniteSet(S \cup T)
      /\ Cardinality(S \cup T) = Cardinality(S) + Cardinality(T) - Cardinality(S \cap T)
  BY FS_Union
<1>2. IsFiniteSet(S \cap T) /\ IsFiniteSet(U) /\ Cardinality(U) <= Cardinality(S \cup T)
  BY <1>1, FS_Subset, FS_Intersection
<1>3. /\ Cardinality(S) \in Nat /\ Cardinality(T) \in Nat /\ Cardinality(U) \in Nat
      /\ Cardinality(S \cap T) \in Nat
  BY <1>2, FS_CardinalityType
<1> QED
  BY <1>1, <1>2, <1>3

(* Two disjoint parts together are no larger than the whole.               *)
LEMMA PartsSize ==
  ASSUME NEW U, IsFiniteSet(U), NEW S \in SUBSET U, NEW T \in SUBSET U, S \cap T = {}
  PROVE  Cardinality(S) + Cardinality(T) <= Cardinality(U)
<1>1. IsFiniteSet(S) /\ IsFiniteSet(T)
  BY FS_Subset
<1>2. Cardinality(S \cup T) = Cardinality(S) + Cardinality(T) - Cardinality(S \cap T)
  BY <1>1, FS_Union
<1>3. Cardinality(S \cap T) = 0
  BY FS_EmptySet
<1>4. S \cup T \in SUBSET U
  OBVIOUS
<1>5. Cardinality(S \cup T) <= Cardinality(U)
  BY <1>4, FS_Subset
<1>6. Cardinality(S) \in Nat /\ Cardinality(T) \in Nat
  BY <1>1, FS_CardinalityType
<1> QED
  BY <1>2, <1>3, <1>5, <1>6

(* Of two sets that differ in some elements, the n that rank lowest differ *)
(* in no more.  Where one of A is crowded out of B's, x is the lowest such *)
(* one: B has as many below x that are not in A as there are places in A's *)
(* that x and those above it take.                                         *)
LEMMA LowestIsStable ==
  ASSUME NEW A, IsFiniteSet(A), NEW B, IsFiniteSet(B), NEW n \in Nat,
         NEW rank, \A x \in A \cup B : rank[x] \in Nat,
         \A x, y \in A \cup B : rank[x] = rank[y] => x = y
  PROVE  Cardinality(Lowest(n, A, rank) \ Lowest(n, B, rank))
           <= Cardinality(A \ B) + Cardinality(B \ A)
<1> DEFINE LA == Lowest(n, A, rank)
           LB == Lowest(n, B, rank)
           crowded == (LA \cap B) \ LB
<1>1. /\ LA \in SUBSET A
      /\ \A x \in A : x \in LA <=> Cardinality(Below(A, x, rank)) < n
      /\ \A x \in B : x \in LB <=> Cardinality(Below(B, x, rank)) < n
  BY DEF Lowest, Below
<1>2. IsFiniteSet(LA) /\ Cardinality(LA) <= n
  BY LowestIsBounded
<1> HIDE DEF LA, LB
<1>3. IsFiniteSet(A \ B) /\ IsFiniteSet(B \ A) /\ IsFiniteSet(crowded)
  <2>1. crowded \in SUBSET LA
    OBVIOUS
  <2> QED
    BY <1>2, <2>1, FS_Difference, FS_Subset
<1>4. Cardinality(crowded) <= Cardinality(B \ A)
  <2>1. CASE crowded = {}
    <3>1. Cardinality(crowded) = 0
      BY <2>1, FS_EmptySet
    <3> QED
      BY <1>3, <3>1, FS_CardinalityType
  <2>2. CASE crowded # {}
    <3>1. \A y \in crowded : rank[y] \in Nat
      BY <1>1
    <3>2. PICK x \in crowded : \A y \in crowded : rank[x] <= rank[y]
      BY <2>2, <3>1, LowestRank
    <3> DEFINE belowA == Below(A, x, rank)
               belowB == Below(B, x, rank)
    <3>3. x \in A /\ x \in B /\ x \in LA /\ x \notin LB
      BY <1>1
    <3>4. belowA \in SUBSET A /\ belowB \in SUBSET B /\ belowB \in SUBSET (belowA \cup (B \ A))
      BY DEF Below
    <3>5. IsFiniteSet(belowA) /\ IsFiniteSet(belowB)
      BY <3>4, FS_Subset
    <3>6. /\ Cardinality(belowA) \in Nat /\ Cardinality(belowB) \in Nat
          /\ Cardinality(crowded) \in Nat /\ Cardinality(B \ A) \in Nat
          /\ Cardinality(LA) \in Nat
      BY <1>2, <1>3, <3>5, FS_CardinalityType
    <3>7. Cardinality(belowA) < n /\ Cardinality(belowB) >= n
      BY <1>1, <3>3, <3>6
    <3>8. belowA \in SUBSET LA
      <4> SUFFICES ASSUME NEW y \in belowA PROVE y \in LA
        OBVIOUS
      <4>1. y \in A /\ rank[y] < rank[x]
        BY DEF Below
      <4>2. Cardinality(Below(A, y, rank)) < Cardinality(belowA)
        BY <3>3, <4>1, BelowGrows
      <4>3. Below(A, y, rank) \in SUBSET A
        BY DEF Below
      <4>4. Cardinality(Below(A, y, rank)) \in Nat
        BY <4>3, FS_Subset, FS_CardinalityType
      <4> QED
        BY <1>1, <3>6, <3>7, <4>1, <4>2, <4>4
    <3>9. crowded \cap belowA = {}
      <4> SUFFICES ASSUME NEW y \in crowded, rank[y] < rank[x] PROVE FALSE
        BY DEF Below
      <4> QED
        BY <3>1, <3>2
    <3>10. crowded \in SUBSET LA
      OBVIOUS
    <3> HIDE DEF crowded, belowA, belowB
    <3>11. Cardinality(crowded) + Cardinality(belowA) <= Cardinality(LA)
      BY <1>2, <3>8, <3>9, <3>10, PartsSize
    <3>12. Cardinality(belowB) <= Cardinality(belowA) + Cardinality(B \ A)
      BY <1>3, <3>4, <3>5, UnionSize
    <3> QED
      BY <1>2, <3>6, <3>7, <3>11, <3>12
  <2> QED
    BY <2>1, <2>2
<1>5. LA \ LB \in SUBSET ((A \ B) \cup crowded)
  BY <1>1
<1> HIDE DEF crowded
<1>6. Cardinality(LA \ LB) <= Cardinality(A \ B) + Cardinality(crowded)
  BY <1>3, <1>5, UnionSize
<1>7. /\ Cardinality(A \ B) \in Nat /\ Cardinality(crowded) \in Nat
      /\ Cardinality(B \ A) \in Nat /\ Cardinality(LA \ LB) \in Nat
  <2>1. IsFiniteSet(LA \ LB)
    BY <1>2, FS_Difference
  <2> QED
    BY <1>3, <2>1, FS_CardinalityType
<1>8. Cardinality(LA \ LB) <= Cardinality(A \ B) + Cardinality(B \ A)
  BY <1>4, <1>6, <1>7
<1> QED
  BY <1>8 DEF LA, LB

(* The same of all but the k that rank highest.  x is the lowest of those  *)
(* that are crowded out of B's, and z the highest of A's: B has no more    *)
(* than k from x on, among them the crowded and all that A and B have      *)
(* above z, where A has k or more.                                         *)
LEMMA DropIsStable ==
  ASSUME NEW A, IsFiniteSet(A), NEW B, IsFiniteSet(B), NEW k \in Nat,
         NEW rank, \A x \in A \cup B : rank[x] \in Nat,
         \A x, y \in A \cup B : rank[x] = rank[y] => x = y
  PROVE  Cardinality(Lowest(Cardinality(A) - k, A, rank) \ Lowest(Cardinality(B) - k, B, rank))
           <= Cardinality(A \ B) + Cardinality(B \ A)
<1> DEFINE LA == Lowest(Cardinality(A) - k, A, rank)
           LB == Lowest(Cardinality(B) - k, B, rank)
           crowded == (LA \cap B) \ LB
<1>1. /\ LA \in SUBSET A
      /\ \A x \in A : x \in LA <=> Cardinality(Below(A, x, rank)) < Cardinality(A) - k
      /\ \A x \in B : x \in LB <=> Cardinality(Below(B, x, rank)) < Cardinality(B) - k
  BY DEF Lowest, Below
<1> HIDE DEF LA, LB
<1>2. /\ IsFiniteSet(LA) /\ IsFiniteSet(crowded) /\ crowded \in SUBSET LA
      /\ IsFiniteSet(A \ B) /\ IsFiniteSet(B \ A) /\ IsFiniteSet(LA \ B) /\ IsFiniteSet(LA \ LB)
  <2>1. IsFiniteSet(LA) /\ crowded \in SUBSET LA
    BY <1>1, FS_Subset
  <2>2. IsFiniteSet(crowded)
    BY <2>1, FS_Subset
  <2> QED
    BY <2>1, <2>2, FS_Difference
<1>3. /\ Cardinality(A) \in Nat /\ Cardinality(B) \in Nat /\ Cardinality(crowded) \in Nat
      /\ Cardinality(A \ B) \in Nat /\ Cardinality(B \ A) \in Nat
      /\ Cardinality(LA \ B) \in Nat /\ Cardinality(LA \ LB) \in Nat
  BY <1>2, FS_CardinalityType
<1>4. LA \ LB \in SUBSET ((LA \ B) \cup crowded)
  BY <1>1
<1>5. Cardinality(LA \ LB) <= Cardinality(LA \ B) + Cardinality(crowded)
  <2> HIDE DEF crowded
  <2> QED
    BY <1>2, <1>4, UnionSize
<1>6. CASE crowded = {}
  <2>1. Cardinality(crowded) = 0
    BY <1>6, FS_EmptySet
  <2>2. LA \ B \in SUBSET (A \ B)
    BY <1>1
  <2>3. Cardinality(LA \ B) <= Cardinality(A \ B)
    BY <1>2, <2>2, FS_Subset
  <2>4. Cardinality(LA \ LB) <= Cardinality(A \ B) + Cardinality(B \ A)
    BY <1>3, <1>5, <2>1, <2>3
  <2> QED
    BY <2>4 DEF LA, LB
<1>7. CASE crowded # {}
  <2> DEFINE size == [y \in A |-> Cardinality(Below(A, y, rank))]
  <2>1. \A y \in A : size[y] \in Nat /\ size[y] <= Cardinality(A)
    <3> TAKE y \in A
    <3>1. Below(A, y, rank) \in SUBSET A
      BY DEF Below
    <3>2. IsFiniteSet(Below(A, y, rank)) /\ Cardinality(Below(A, y, rank)) <= Cardinality(A)
      BY <3>1, FS_Subset
    <3> QED
      BY <3>2, FS_CardinalityType
  <2>2. \A y, w \in A : rank[y] < rank[w] => size[y] < size[w]
    BY BelowGrows
  <2>3. \A y \in A : size[y] = Cardinality(Below(A, y, rank))
    OBVIOUS
  <2> HIDE DEF size
  <2>4. PICK x \in crowded : \A y \in crowded : rank[x] <= rank[y]
    <3>1. \A y \in crowded : rank[y] \in Nat
      BY <1>1
    <3> QED
      BY <1>7, <3>1, LowestRank
  <2>5. PICK z \in LA : \A y \in LA : size[y] <= size[z]
    <3>1. LA # {} /\ \A y \in LA : size[y] \in Nat /\ size[y] <= Cardinality(A)
      BY <1>1, <1>7, <2>1
    <3> QED
      BY <1>3, <3>1, HighestRank
  <2>6. \A y \in LA : rank[y] \in Nat /\ rank[z] \in Nat /\ rank[y] <= rank[z]
    <3> TAKE y \in LA
    <3>1. y \in A /\ z \in A /\ rank[y] \in Nat /\ rank[z] \in Nat
      BY <1>1
    <3>2. ~(rank[z] < rank[y])
      BY <2>1, <2>2, <2>5, <3>1
    <3> QED
      BY <3>1, <3>2
  <2> DEFINE above == {u \in A : rank[u] > rank[z]}
             from == {u \in B : rank[u] >= rank[x]}
  <2>7. /\ above \in SUBSET A /\ from \in SUBSET B
        /\ IsFiniteSet(above) /\ IsFiniteSet(from)
        /\ Cardinality(above) \in Nat /\ Cardinality(from) \in Nat
    <3>1. above \in SUBSET A /\ from \in SUBSET B
      OBVIOUS
    <3>2. IsFiniteSet(above) /\ IsFiniteSet(from)
      BY <3>1, FS_Subset
    <3> QED
      BY <3>1, <3>2, FS_CardinalityType
  <2>8. Cardinality(above) >= k
    <3> DEFINE low == Below(A, z, rank) \cup {z}
    <3>1. Below(A, z, rank) \in SUBSET A /\ z \notin Below(A, z, rank)
      BY <2>6 DEF Below
    <3>2. IsFiniteSet(Below(A, z, rank))
      BY <3>1, FS_Subset
    <3>3. IsFiniteSet(low) /\ Cardinality(low) = Cardinality(Below(A, z, rank)) + 1
      BY <3>1, <3>2, FS_AddElement
    <3>4. A \in SUBSET (low \cup above)
      <4> SUFFICES ASSUME NEW u \in A PROVE u \in low \/ u \in above
        OBVIOUS
      <4>1. z \in A /\ rank[u] \in Nat /\ rank[z] \in Nat
        BY <1>1
      <4>2. rank[u] < rank[z] \/ rank[u] = rank[z] \/ rank[u] > rank[z]
        BY <4>1
      <4> QED
        BY <4>1, <4>2 DEF Below
    <3> HIDE DEF low, above
    <3>5. Cardinality(A) <= Cardinality(low) + Cardinality(above)
      BY <2>7, <3>3, <3>4, UnionSize
    <3>6. Cardinality(Below(A, z, rank)) < Cardinality(A) - k
          /\ Cardinality(Below(A, z, rank)) \in Nat
      BY <1>1, <3>2, FS_CardinalityType
    <3> QED
      BY <1>3, <2>7, <3>3, <3>5, <3>6
  <2>9. Cardinality(from) <= k
    <3>1. Below(B, x, rank) \in SUBSET B
      BY DEF Below
    <3>2. IsFiniteSet(Below(B, x, rank))
      BY <3>1, FS_Subset
    <3>3. Below(B, x, rank) \cap from = {}
      <4> SUFFICES ASSUME NEW u \in B, rank[u] < rank[x], rank[u] >= rank[x] PROVE FALSE
        BY DEF Below
      <4>1. rank[u] \in Nat /\ rank[x] \in Nat
        BY <1>1
      <4> QED
        BY <4>1
    <3> HIDE DEF from
    <3>4. Cardinality(Below(B, x, rank)) + Cardinality(from) <= Cardinality(B)
      BY <2>7, <3>1, <3>3, PartsSize
    <3>5. ~(Cardinality(Below(B, x, rank)) < Cardinality(B) - k)
          /\ Cardinality(Below(B, x, rank)) \in Nat
      BY <1>1, <3>2, FS_CardinalityType
    <3> QED
      BY <1>3, <2>7, <3>4, <3>5
  <2>10. Cardinality(crowded) + Cardinality(above \cap B) <= Cardinality(from)
    <3>1. \A u \in crowded : u \in from /\ u \notin above
      <4> TAKE u \in crowded
      <4>1. u \in B /\ u \in LA /\ rank[u] \in Nat /\ rank[x] \in Nat
        BY <1>1
      <4>2. rank[x] <= rank[u] /\ rank[u] <= rank[z] /\ rank[z] \in Nat
        BY <2>4, <2>6, <4>1
      <4> QED
        BY <4>1, <4>2
    <3>2. \A u \in above \cap B : u \in from
      <4> TAKE u \in above \cap B
      <4>1. u \in B /\ rank[u] \in Nat /\ rank[u] > rank[z]
        BY <1>1
      <4>2. rank[x] <= rank[z] /\ rank[x] \in Nat /\ rank[z] \in Nat
        BY <2>6
      <4> QED
        BY <4>1, <4>2
    <3> HIDE DEF crowded, above, from
    <3>3. crowded \in SUBSET from /\ above \cap B \in SUBSET from
          /\ crowded \cap (above \cap B) = {}
      BY <3>1, <3>2
    <3> QED
      BY <2>7, <3>3, PartsSize
  <2>11. Cardinality(above) <= Cardinality(above \cap B) + Cardinality(above \ B)
    <3> HIDE DEF above
    <3>1. IsFiniteSet(above \cap B) /\ IsFiniteSet(above \ B)
      BY <2>7, FS_Intersection, FS_Difference
    <3>2. above \in SUBSET ((above \cap B) \cup (above \ B))
      OBVIOUS
    <3> QED
      BY <3>1, <3>2, UnionSize
  <2>12. Cardinality(LA \ B) + Cardinality(above \ B) <= Cardinality(A \ B)
    <3>1. LA \cap above = {}
      <4> SUFFICES ASSUME NEW u \in LA, rank[u] > rank[z] PROVE FALSE
        OBVIOUS
      <4> QED
        BY <2>6
    <3> HIDE DEF above
    <3>2. LA \ B \in SUBSET (A \ B) /\ above \ B \in SUBSET (A \ B)
          /\ (LA \ B) \cap (above \ B) = {}
      BY <1>1, <2>7, <3>1
    <3> QED
      BY <1>2, <3>2, PartsSize
  <2>13. Cardinality(above \cap B) \in Nat /\ Cardinality(above \ B) \in Nat
    <3> HIDE DEF above
    <3>1. IsFiniteSet(above \cap B) /\ IsFiniteSet(above \ B)
      BY <2>7, FS_Intersection, FS_Difference
    <3> QED
      BY <3>1, FS_CardinalityType
  <2>14. Cardinality(LA \ LB) <= Cardinality(A \ B) + Cardinality(B \ A)
    <3> HIDE DEF above, from, crowded
    <3> QED
      BY <1>3, <1>5, <2>7, <2>8, <2>9, <2>10, <2>11, <2>12, <2>13
  <2> QED
    BY <2>14 DEF LA, LB
<1> QED
  BY <1>6, <1>7

-----------------------------------------------------------------------------
(* The subsample of ml/train.py.                                           *)

(* One ranking for every set of uids.                                      *)
Ranking(seed) == [u \in Uids |-> SampleRank[<<u, seed>>]]

LEMMA RankingIsOrder ==
  ASSUME NEW seed \in Seeds
  PROVE  /\ \A u \in Uids : Ranking(seed)[u] \in Nat
         /\ \A u, o \in Uids : Ranking(seed)[u] = Ranking(seed)[o] => u = o
  BY ExperimentsAssumption DEF Ranking

(* The end of the slice that a limit takes.                                *)
End(limit, uids) == IF limit < 0 THEN Cardinality(uids) + limit ELSE limit

LEMMA SubsampleIsLowest ==
  ASSUME NEW uids \in SUBSET Uids, NEW seed \in Seeds, NEW limit \in Int
  PROVE  Subsample(uids, limit, seed) = Lowest(End(limit, uids), uids, Ranking(seed))
<1> DEFINE rank == [u \in uids |-> SampleRank[<<u, seed>>]]
<1>1. \A u \in uids : rank[u] = Ranking(seed)[u]
  BY DEF Ranking
<1>2. Subsample(uids, limit, seed) = Lowest(End(limit, uids), uids, rank)
  <2>1. limit # Unlimited
    BY CatalogAssumption
  <2> QED
    BY <2>1 DEF Subsample, Limited, End
<1> HIDE DEF rank
<1>3. \A u \in uids : {o \in uids : rank[o] < rank[u]} =
                      {o \in uids : Ranking(seed)[o] < Ranking(seed)[u]}
  BY <1>1
<1>4. Lowest(End(limit, uids), uids, rank) = Lowest(End(limit, uids), uids, Ranking(seed))
  BY <1>3 DEF Lowest
<1> QED
  BY <1>2, <1>4

(* A subsample is part of what it is taken from.                           *)
LEMMA SubsampleFacts ==
  ASSUME NEW uids \in SUBSET Uids, NEW seed \in Seeds, NEW limit \in Int \cup {Unlimited}
  PROVE  Subsample(uids, limit, seed) \in SUBSET uids
<1>1. CASE limit = Unlimited
  BY <1>1 DEF Subsample, Limited
<1>2. CASE limit # Unlimited
  <2>1. Lowest(End(limit, uids), uids, Ranking(seed)) \in SUBSET uids
    BY DEF Lowest
  <2> QED
    BY <1>2, <2>1, SubsampleIsLowest
<1> QED
  BY <1>1, <1>2

(* Of two sets that differ in some elements, the subsamples within one     *)
(* limit, whichever it is, differ in no more.                              *)
LEMMA SubsampleMovesLittle ==
  ASSUME NEW A \in SUBSET Uids, NEW B \in SUBSET Uids, NEW seed \in Seeds,
         NEW limit \in Int \cup {Unlimited}
  PROVE  Cardinality(Subsample(A, limit, seed) \ Subsample(B, limit, seed))
           <= Cardinality(A \ B) + Cardinality(B \ A)
<1>1. IsFiniteSet(A) /\ IsFiniteSet(B)
  BY CatalogAssumption, FS_Subset
<1>2. /\ Cardinality(A \ B) \in Nat /\ Cardinality(B \ A) \in Nat
      /\ Cardinality(A) \in Nat /\ Cardinality(B) \in Nat
  BY <1>1, FS_Difference, FS_CardinalityType
<1>3. /\ \A u \in A \cup B : Ranking(seed)[u] \in Nat
      /\ \A u, o \in A \cup B : Ranking(seed)[u] = Ranking(seed)[o] => u = o
  BY RankingIsOrder
<1>4. CASE limit = Unlimited
  <2>1. Subsample(A, limit, seed) = A /\ Subsample(B, limit, seed) = B
    BY <1>4 DEF Subsample, Limited
  <2>2. Cardinality(A \ B) <= Cardinality(A \ B) + Cardinality(B \ A)
    BY <1>2
  <2> QED
    BY <2>1, <2>2
<1>5. CASE limit \in Nat
  <2>1. End(limit, A) = limit /\ End(limit, B) = limit
    BY <1>5 DEF End
  <2>2. Cardinality(Lowest(limit, A, Ranking(seed)) \ Lowest(limit, B, Ranking(seed)))
          <= Cardinality(A \ B) + Cardinality(B \ A)
    BY <1>1, <1>3, <1>5, LowestIsStable
  <2>3. limit \in Int
    BY <1>5
  <2> QED
    BY <2>1, <2>2, <2>3, SubsampleIsLowest
<1>6. CASE limit \in Int /\ limit < 0
  <2>1. PICK k \in Nat : limit = -k
    <3>1. -limit \in Nat /\ limit = -(-limit)
      BY <1>6
    <3> QED
      BY <3>1
  <2>2. End(limit, A) = Cardinality(A) - k /\ End(limit, B) = Cardinality(B) - k
    BY <1>2, <1>6, <2>1 DEF End
  <2>3. Cardinality(Lowest(Cardinality(A) - k, A, Ranking(seed)) \
                    Lowest(Cardinality(B) - k, B, Ranking(seed)))
          <= Cardinality(A \ B) + Cardinality(B \ A)
    BY <1>1, <1>3, DropIsStable
  <2> QED
    BY <1>6, <2>2, <2>3, SubsampleIsLowest
<1> QED
  BY <1>4, <1>5, <1>6

-----------------------------------------------------------------------------
(* The invariant.                                                          *)

LEMMA EInvInit == CatalogInit /\ RunsInit => EInv
<1> SUFFICES ASSUME CatalogInit, RunsInit PROVE EInv
  OBVIOUS
<1>1. CatalogTypeOK
  <2>1. PICK c \in Roster, labeled \in {Corpus, Corpus \cup WeakGold} :
          label = [u \in Uids |-> IF u \in labeled THEN c ELSE Unlabeled]
    BY DEF CatalogInit
  <2>2. label \in [Uids -> Roster \cup {OffRoster, Unlabeled}]
    BY <2>1
  <2> QED
    BY <2>2, CatalogAssumption DEF CatalogInit, CatalogTypeOK
<1>2. NoRun \in RowType /\ ~NoRun.exists
  BY DEF NoRun, RowType
<1>3. NoScorer \in [pc : {"idle", "clean"}, rendered : SUBSET Gold, runs : 0 .. MaxRuns,
                    gone : SUBSET Uids]
      /\ NoScorer.pc = "idle"
  BY ExperimentsAssumption DEF NoScorer
<1>4. NoJob \in [pc : {"idle", "samples"}, samples : SUBSET Uids] /\ NoJob.samples = {}
  BY DEF NoJob
<1>5. run \in [Runs -> OldRuns \cup {NoRun}]
  BY ExperimentsAssumption DEF RunsInit
<1>6. \A old \in OldRuns : old \in RowType /\ old.exists /\ old.scheme = "shuffled"
  BY DEF OldRuns, RowType
<1>7. run \in [Runs -> RowType]
  BY <1>2, <1>5, <1>6
<1>8. Sampled
  <2> SUFFICES ASSUME NEW r \in Runs, run[r].exists
               PROVE  /\ run[r].basis # {} /\ run[r].config \in Configs
                      /\ run[r].population \subseteq run[r].basis
                      /\ \A p \in Partitions : run[r].split[p] \subseteq run[r].population
                      /\ \A p, q \in Partitions :
                           p # q => run[r].split[p] \cap run[r].split[q] = {}
                      /\ run[r].scheme # "hashed"
    BY <1>2, <1>5, <1>6 DEF Sampled
  <2>1. run[r] \in OldRuns
    BY <1>2, <1>5
  <2> QED
    BY <2>1 DEF OldRuns
<1>9. Tagged
  <2> SUFFICES ASSUME NEW u \in Gold, NEW r \in Runs, u \in run[r].population
               PROVE  label[u] \in Roster
    BY <1>4 DEF RunsInit, Tagged
  <2>1. label[u] # Unlabeled
    BY DEF RunsInit, Uids
  <2>2. label[u] \in Roster \cup {Unlabeled}
    BY DEF CatalogInit, Uids
  <2> QED
    BY <2>1, <2>2
<1> QED
  BY <1>1, <1>3, <1>4, <1>7, <1>8, <1>9 DEF RunsInit, EInv, Typed, RowType, Seen

(* A gold model's class, once it has one, is not changed.                  *)
LEMMA ChangeStep ==
  ASSUME EInv, NEW v \in Uids, Change(v)
  PROVE  /\ CatalogTypeOK' /\ job' = job /\ run' = run
         /\ \A u \in Gold : label[u] \in Roster => label'[u] = label[u]
         /\ \/ scorer' = scorer /\ \A u \in Uids : live[u] => live'[u]
            \/ /\ scorer.pc = "idle" /\ scorer' = scorer
            \/ /\ scorer.pc # "idle" /\ scorer' = [scorer EXCEPT !.gone = @ \cup {v}]
               /\ live' = [live EXCEPT ![v] = FALSE]
<1>1. /\ label \in [Uids -> Roster \cup {OffRoster, Unlabeled}] /\ live \in [Uids -> BOOLEAN]
      /\ events \in 0 .. MaxEvents /\ MaxEvents \in Nat
  BY CatalogAssumption DEF EInv, Typed, CatalogTypeOK
<1>2. /\ events' \in 0 .. MaxEvents /\ job' = job /\ run' = run
  BY <1>1 DEF Change, Restore, Relabel, Delete, Event
<1>3. CASE Restore(v) /\ UNCHANGED scorer
  <2>1. live' = [live EXCEPT ![v] = TRUE] /\ label' = label /\ scorer' = scorer
    BY <1>3 DEF Restore
  <2> QED
    BY <1>1, <1>2, <2>1 DEF CatalogTypeOK
<1>4. CASE \E c \in Roster \cup {OffRoster} : Relabel(v, c) /\ UNCHANGED scorer
  <2>1. PICK c \in Roster \cup {OffRoster} : Relabel(v, c) /\ UNCHANGED scorer
    BY <1>4
  <2>2. /\ label' = [label EXCEPT ![v] = c] /\ live' = live /\ scorer' = scorer
        /\ v \in Corpus \/ label[v] = Unlabeled
    BY <2>1 DEF Relabel
  <2>3. \A u \in Gold : label[u] \in Roster => u # v
    BY <2>2, CatalogAssumption
  <2>4. \A u \in Gold : label[u] \in Roster => label'[u] = label[u]
    BY <1>1, <2>2, <2>3 DEF Uids
  <2> QED
    BY <1>1, <1>2, <2>2, <2>4 DEF CatalogTypeOK
<1>5. CASE Delete(v) /\ scorer' = IF scorer.pc = "idle" THEN scorer
                                  ELSE [scorer EXCEPT !.gone = @ \cup {v}]
  <2>1. live' = [live EXCEPT ![v] = FALSE] /\ label' = label
    BY <1>5 DEF Delete
  <2> QED
    BY <1>1, <1>2, <1>5, <2>1 DEF CatalogTypeOK
<1> QED
  BY <1>3, <1>4, <1>5 DEF Change

(* The steps of Experiments, whatever list is read.                        *)
AnyList ==
  \/ \E u \in Uids : Change(u)
  \/ LoadSamples \/ StopJob
  \/ \E r \in Runs, config \in Configs, list \in SUBSET Uids : CreateRun(r, config, list)
  \/ \E list \in SUBSET Gold : LoadRendered(list)
  \/ EndEvaluation

LEMMA EInvStep == EInv /\ [AnyList]_experimentVars => EInv'
<1> SUFFICES ASSUME EInv, [AnyList]_experimentVars PROVE EInv'
  OBVIOUS
<1>1. Typed /\ Sampled /\ Tagged /\ Seen /\ CatalogTypeOK
  BY DEF EInv, Typed
<1>2. MaxEvents \in Nat /\ MaxRuns \in Nat
  BY CatalogAssumption, ExperimentsAssumption
<1>3. NoJob \in [pc : {"idle", "samples"}, samples : SUBSET Uids] /\ NoJob.samples = {}
  BY DEF NoJob
<1>4. CASE \E u \in Uids : Change(u)
  <2>1. PICK v \in Uids : Change(v)
    BY <1>4
  <2>2. /\ CatalogTypeOK' /\ job' = job /\ run' = run
        /\ \A u \in Gold : label[u] \in Roster => label'[u] = label[u]
    BY <2>1, ChangeStep
  <2>3. Sampled'
    BY <1>1, <2>2 DEF Sampled
  <2>4. Tagged'
    BY <1>1, <2>2 DEF Tagged
  <2>5. CASE scorer' = scorer /\ \A u \in Uids : live[u] => live'[u]
    <3>1. Seen'
      BY <1>1, <2>5 DEF Seen, Typed, Uids
    <3> QED
      BY <1>1, <2>2, <2>3, <2>4, <2>5, <3>1 DEF EInv, Typed
  <2>6. CASE scorer.pc = "idle" /\ scorer' = scorer
    BY <1>1, <2>2, <2>3, <2>4, <2>6 DEF EInv, Typed, Seen
  <2>7. CASE /\ scorer.pc # "idle" /\ scorer' = [scorer EXCEPT !.gone = @ \cup {v}]
             /\ live' = [live EXCEPT ![v] = FALSE]
    <3>1. /\ scorer' \in [pc : {"idle", "clean"}, rendered : SUBSET Gold, runs : 0 .. MaxRuns,
                          gone : SUBSET Uids]
          /\ scorer'.pc = "clean" /\ scorer.pc = "clean"
          /\ scorer'.rendered = scorer.rendered /\ scorer'.gone = scorer.gone \cup {v}
      BY <1>1, <2>7 DEF Typed
    <3>2. \A u \in Uids : live'[u] \/ u = v \/ ~live[u]
      BY <1>1, <2>7 DEF CatalogTypeOK
    <3>3. Seen'
      BY <1>1, <3>1, <3>2 DEF Seen, Typed, Uids
    <3> QED
      BY <1>1, <2>2, <2>3, <2>4, <3>1, <3>3 DEF EInv, Typed
  <2> QED
    BY <2>1, <2>5, <2>6, <2>7, ChangeStep
<1>5. CASE LoadSamples
  <2>1. /\ job' = [pc |-> "samples", samples |-> Trainable]
        /\ label' = label /\ live' = live /\ run' = run /\ scorer' = scorer
        /\ events' \in 0 .. MaxEvents
    BY <1>1, <1>2, <1>5 DEF LoadSamples, Event, CatalogTypeOK
  <2>2. Trainable \in SUBSET Uids /\ \A u \in Trainable : label[u] \in Roster
    BY DEF Trainable, Rendered
  <2>3. Typed'
    BY <1>1, <2>1, <2>2 DEF Typed, CatalogTypeOK
  <2>4. Tagged'
    BY <1>1, <2>1, <2>2 DEF Tagged
  <2> QED
    BY <1>1, <2>1, <2>3, <2>4 DEF EInv, Sampled, Seen
<1>6. CASE StopJob
  BY <1>1, <1>3, <1>6 DEF StopJob, EInv, Typed, Sampled, Tagged, Seen, CatalogTypeOK, catalogVars
<1>7. CASE \E r \in Runs, config \in Configs, list \in SUBSET Uids : CreateRun(r, config, list)
  <2>1. PICK r \in Runs, config \in Configs, list \in SUBSET Uids : CreateRun(r, config, list)
    BY <1>7
  <2>2. PICK basis : basis = Restricted(job.samples, config, list)
    OBVIOUS
  <2>3. PICK population : population = Subsample(basis, config.limit, config.seed)
    OBVIOUS
  <2>4. PICK x : x = [exists |-> TRUE, config |-> config, basis |-> basis,
                      population |-> population, split |-> Split(population, config.seed),
                      scheme |-> "hashed", recorded |-> TRUE]
    OBVIOUS
  <2>5. /\ run' = [run EXCEPT ![r] = x] /\ job' = NoJob /\ basis # {}
        /\ label' = label /\ live' = live /\ events' = events /\ scorer' = scorer
    BY <2>1, <2>2, <2>3, <2>4 DEF CreateRun, catalogVars
  <2>6. basis \in SUBSET job.samples /\ job.samples \in SUBSET Uids
    BY <1>1, <2>2 DEF Restricted, Typed
  <2>7. config.seed \in Seeds /\ config.limit \in Int \cup {Unlimited}
    BY ExperimentsAssumption
  <2>8. population \in SUBSET basis
    BY <2>3, <2>6, <2>7, SubsampleFacts
  <2>9. /\ run'[r] = x /\ \A o \in Runs \ {r} : run'[o] = run[o]
        /\ DOMAIN run' = Runs /\ run' = [o \in Runs |-> run'[o]]
    BY <1>1, <2>5 DEF Typed
  <2>10. /\ x \in RowType /\ x.exists /\ x.config = config /\ x.basis = basis
         /\ x.population = population /\ x.split = Split(population, config.seed)
    <3>1. Split(population, config.seed) \in [Partitions -> SUBSET Uids]
      BY <2>6, <2>8 DEF Split
    <3> QED
      BY <2>4, <2>6, <2>8, <3>1 DEF RowType
  <2>14. /\ \A p \in Partitions : x.split[p] \subseteq population
         /\ \A p, q \in Partitions : p # q => x.split[p] \cap x.split[q] = {}
    BY <2>10 DEF Split
  <2>11. Typed'
    BY <1>1, <1>3, <2>5, <2>9, <2>10 DEF Typed, CatalogTypeOK, RowType
  <2>12. Sampled'
    BY <1>1, <2>3, <2>5, <2>8, <2>9, <2>10, <2>14 DEF Sampled
  <2>13. Tagged'
    BY <1>1, <1>3, <2>5, <2>6, <2>8, <2>9, <2>10 DEF Tagged
  <2> QED
    BY <1>1, <2>5, <2>11, <2>12, <2>13 DEF EInv, Seen
<1>8. CASE \E list \in SUBSET Gold : LoadRendered(list)
  <2>1. PICK list \in SUBSET Gold : LoadRendered(list)
    BY <1>8
  <2>2. PICK runs : runs = Cardinality({r \in Runs : run[r].exists})
    OBVIOUS
  <2>3. scorer' = [NoScorer EXCEPT !.pc = "clean", !.rendered = list \cap Rendered,
                                   !.runs = runs]
        /\ label' = label /\ live' = live /\ events' = events /\ job' = job /\ run' = run
    BY <2>1, <2>2 DEF LoadRendered, catalogVars
  <2>4. runs \in 0 .. MaxRuns
    <3>1. IsFiniteSet(Runs) /\ Cardinality(Runs) = MaxRuns
      <4>1. IsFiniteSet(1 .. MaxRuns)
            /\ Cardinality(1 .. MaxRuns) = IF 1 > MaxRuns THEN 0 ELSE MaxRuns - 1 + 1
        BY <1>2, FS_Interval
      <4> QED
        BY <1>2, <4>1 DEF Runs
    <3>2. {r \in Runs : run[r].exists} \in SUBSET Runs
      OBVIOUS
    <3>3. runs \in Nat /\ runs <= MaxRuns
      BY <2>2, <3>1, <3>2, FS_Subset, FS_CardinalityType
    <3> QED
      BY <1>2, <3>3
  <2>5. list \in SUBSET Gold /\ list \cap Rendered \in SUBSET Gold
        /\ \A u \in list \cap Rendered : live[u]
    BY DEF Rendered
  <2>6. scorer' \in [pc : {"idle", "clean"}, rendered : SUBSET Gold, runs : 0 .. MaxRuns,
                     gone : SUBSET Uids]
        /\ scorer'.rendered = list \cap Rendered
    BY <2>3, <2>4, <2>5 DEF NoScorer
  <2>7. Seen'
    BY <2>3, <2>5, <2>6 DEF Seen
  <2> QED
    BY <1>1, <2>3, <2>6, <2>7 DEF EInv, Typed, Sampled, Tagged, CatalogTypeOK
<1>9. CASE EndEvaluation
  <2>1. NoScorer \in [pc : {"idle", "clean"}, rendered : SUBSET Gold, runs : 0 .. MaxRuns,
                      gone : SUBSET Uids]
        /\ NoScorer.pc = "idle"
    BY <1>2 DEF NoScorer
  <2> QED
    BY <1>1, <1>9, <2>1
       DEF EndEvaluation, EInv, Typed, Sampled, Tagged, Seen, CatalogTypeOK, catalogVars
<1>10. CASE UNCHANGED experimentVars
  BY <1>1, <1>10 DEF experimentVars, catalogVars, runVars, EInv, Typed, Sampled, Tagged, Seen,
                     CatalogTypeOK
<1> QED
  BY <1>4, <1>5, <1>6, <1>7, <1>8, <1>9, <1>10 DEF AnyList

-----------------------------------------------------------------------------
(* The invariant holds of every behaviour.                                 *)
THEOREM ExperimentsInvariant == ExperimentsSpec => []EInv
<1>1. CatalogInit /\ RunsInit => EInv
  BY EInvInit
<1>2. [ExperimentsNext]_experimentVars => [AnyList]_experimentVars
  BY ExperimentsAssumption DEF ExperimentsNext, AnyList
<1>3. EInv /\ [ExperimentsNext]_experimentVars => EInv'
  BY <1>2, EInvStep
<1> QED
  BY <1>1, <1>3, PTL DEF ExperimentsSpec

LEMMA RunsTypes == EInv => RunsTypeOK
<1> SUFFICES ASSUME EInv PROVE RunsTypeOK
  OBVIOUS
<1>1. Typed /\ Sampled
  BY DEF EInv
<1>2. ASSUME NEW r \in Runs
      PROVE  /\ run[r].population \subseteq run[r].basis /\ run[r].basis \subseteq Uids
             /\ run[r].exists <=> run[r].basis # {}
  <2>1. CASE run[r].exists
    BY <1>1, <2>1 DEF Typed, RowType, Sampled
  <2>2. CASE ~run[r].exists
    BY <1>1, <2>2 DEF Sampled, NoRun
  <2> QED
    BY <2>1, <2>2
<1> QED
  BY <1>1, <1>2 DEF RunsTypeOK, Typed

(* Types: what a run keeps is part of what it chose from, which is not     *)
(* empty, though a limit may leave nothing of it (main of ml/train.py).    *)
THEOREM RunsTypeCorrect == ExperimentsSpec => []RunsTypeOK
<1>1. EInv => RunsTypeOK
  BY RunsTypes
<1> QED
  BY <1>1, ExperimentsInvariant, PTL

LEMMA ScoresFollow == EInv => ScoresFollowTheRun
<1> SUFFICES ASSUME EInv, NEW r \in Runs, NEW list \in SubsetLists, run[r].exists
             PROVE  LET basis == Restricted(Trainable, run[r].config, list)
                        trained == run[r].split["train"] IN
                    /\ run[r].recorded =>
                         \A p \in {"val", "test"} : Resolved(r, p, list) \cap trained = {}
                    /\ run[r].scheme = "hashed" =>
                         Cardinality(Resolved(r, "train", list) \ trained)
                           <= Cardinality(basis \ run[r].basis)
                                + Cardinality(run[r].basis \ basis)
  BY DEF ScoresFollowTheRun
<1>1. Typed /\ Sampled
  BY DEF EInv
<1> DEFINE now == Restricted(Trainable, run[r].config, list)
           trained == run[r].split["train"]
<1>2. ASSUME run[r].recorded, NEW p \in {"val", "test"}
      PROVE  Resolved(r, p, list) \cap trained = {}
  <2>1. p \in Partitions /\ "train" \in Partitions /\ p # "train"
    BY DEF Partitions
  <2>2. run[r].split[p] \cap trained = {}
    BY <1>1, <2>1 DEF Sampled
  <2>3. Resolved(r, p, list) \in SUBSET run[r].split[p]
    BY <1>2 DEF Resolved
  <2> QED
    BY <2>2, <2>3
<1>3. ASSUME run[r].scheme = "hashed"
      PROVE  Cardinality(Resolved(r, "train", list) \ trained)
               <= Cardinality(now \ run[r].basis) + Cardinality(run[r].basis \ now)
  <2>1. PICK A \in SUBSET Uids, B \in SUBSET Uids : A = now /\ B = run[r].basis
    BY <1>1 DEF Typed, RowType, Restricted, Trainable, Rendered
  <2>2. PICK seed \in Seeds, limit \in Int \cup {Unlimited} :
          seed = run[r].config.seed /\ limit = run[r].config.limit
    BY <1>1, ExperimentsAssumption DEF Sampled
  <2> DEFINE SA == Subsample(A, limit, seed)
             SB == Subsample(B, limit, seed)
  <2>3. trained = {u \in SB : Bucket[<<u, seed>>] = "train"}
    <3>1. run[r].split = Split(run[r].population, seed) /\ run[r].population = SB
      BY <1>1, <1>3, <2>1, <2>2 DEF Sampled
    <3> HIDE DEF SB
    <3> QED
      BY <3>1 DEF Split, Partitions
  <2>4. Resolved(r, "train", list) = {u \in SA : Bucket[<<u, seed>>] = "train"}
    BY <2>1, <2>2 DEF Resolved, Again, Split, Partitions
  <2>5. Cardinality(SA \ SB) <= Cardinality(A \ B) + Cardinality(B \ A)
    BY SubsampleMovesLittle
  <2>6. SA \in SUBSET Uids
    BY SubsampleFacts
  <2> HIDE DEF SA, SB
  <2>7. IsFiniteSet(SA \ SB)
    BY <2>6, CatalogAssumption, FS_Subset, FS_Difference
  <2>8. Resolved(r, "train", list) \ trained \in SUBSET (SA \ SB)
    BY <2>3, <2>4
  <2>9. /\ IsFiniteSet(Resolved(r, "train", list) \ trained)
        /\ Cardinality(Resolved(r, "train", list) \ trained) <= Cardinality(SA \ SB)
    BY <2>7, <2>8, FS_Subset
  <2>10. /\ Cardinality(A \ B) \in Nat /\ Cardinality(B \ A) \in Nat
         /\ Cardinality(SA \ SB) \in Nat
         /\ Cardinality(Resolved(r, "train", list) \ trained) \in Nat
    <3>1. IsFiniteSet(A \ B) /\ IsFiniteSet(B \ A)
      BY CatalogAssumption, FS_Subset, FS_Difference
    <3> QED
      BY <2>7, <2>9, <3>1, FS_CardinalityType
  <2> HIDE DEF now, trained
  <2>11. Cardinality(Resolved(r, "train", list) \ trained)
           <= Cardinality(A \ B) + Cardinality(B \ A)
    BY <2>5, <2>9, <2>10
  <2> QED
    BY <2>1, <2>11
<1> QED
  BY <1>2, <1>3

(* What an evaluation's number is about: on val and test, nothing the run  *)
(* was trained on, wherever the run recorded them (resolve_scored_samples);*)
(* on train, no more new models than have come or gone (subsample).  For   *)
(* every catalog, list, limit and earlier table.                           *)
THEOREM EvaluationsFollowTheRun == ExperimentsSpec => []ScoresFollowTheRun
<1>1. EInv => ScoresFollowTheRun
  BY ScoresFollow
<1> QED
  BY <1>1, ExperimentsInvariant, PTL

LEMMA SubsamplesStable == EInv => SubsampleIsStable
<1> SUFFICES ASSUME EInv, NEW r \in Runs, NEW q \in Runs,
                    run[r].scheme = "hashed", run[q].scheme = "hashed",
                    run[r].config.seed = run[q].config.seed,
                    run[r].config.limit = run[q].config.limit
             PROVE  Cardinality(run[r].population \ run[q].population)
                      <= Cardinality(run[r].basis \ run[q].basis)
                           + Cardinality(run[q].basis \ run[r].basis)
  BY DEF SubsampleIsStable
<1>1. Typed /\ Sampled
  BY DEF EInv
<1>2. PICK A \in SUBSET Uids, B \in SUBSET Uids : A = run[r].basis /\ B = run[q].basis
  BY <1>1 DEF Typed, RowType
<1>3. IsFiniteSet(A) /\ IsFiniteSet(B)
  BY CatalogAssumption, FS_Subset
<1>4. CASE run[r].exists /\ run[q].exists
  <2>1. PICK seed \in Seeds, limit \in Int \cup {Unlimited} :
          seed = run[r].config.seed /\ limit = run[r].config.limit
    BY <1>1, <1>4, ExperimentsAssumption DEF Sampled
  <2>2. /\ run[r].population = Subsample(A, limit, seed)
        /\ run[q].population = Subsample(B, limit, seed)
    BY <1>1, <1>2, <1>4, <2>1 DEF Sampled
  <2> QED
    BY <1>2, <2>2, SubsampleMovesLittle
<1>5. CASE ~(run[r].exists /\ run[q].exists)
  <2>1. \A s \in Runs : ~run[s].exists => run[s].population = {} /\ run[s].basis = {}
    BY <1>1 DEF Sampled, NoRun
  <2>2. run[r].population \ run[q].population \in SUBSET (A \ B)
    BY <1>1, <1>2, <1>5, <2>1 DEF Sampled
  <2>3. /\ IsFiniteSet(A \ B) /\ IsFiniteSet(B \ A)
        /\ Cardinality(A \ B) \in Nat /\ Cardinality(B \ A) \in Nat
    BY <1>3, FS_Difference, FS_CardinalityType
  <2>4. /\ Cardinality(run[r].population \ run[q].population) <= Cardinality(A \ B)
        /\ Cardinality(run[r].population \ run[q].population) \in Nat
    BY <2>2, <2>3, FS_Subset, FS_CardinalityType
  <2> QED
    BY <1>2, <2>3, <2>4
<1> QED
  BY <1>4, <1>5

(* Of two runs under one seed and limit, the populations differ in no more *)
(* than what they were chosen from (the docstring of subsample).           *)
THEOREM SubsamplesStayStable == ExperimentsSpec => []SubsampleIsStable
<1>1. EInv => SubsampleIsStable
  BY SubsamplesStable
<1> QED
  BY <1>1, ExperimentsInvariant, PTL

LEMMA GoldClean == EInv => GoldIsClean
<1> SUFFICES ASSUME EInv, scorer.pc = "clean", NEW r \in 1 .. scorer.runs,
                    NEW u \in Clean(scorer.rendered) \cap run[r].split["train"]
             PROVE  u \in scorer.gone
  BY DEF GoldIsClean
<1>1. Typed /\ Sampled /\ Tagged /\ Seen
  BY DEF EInv
<1>2. r \in Runs
  BY <1>1, ExperimentsAssumption DEF Typed, Runs
<1>3. u \in scorer.rendered /\ u \in Gold /\ u \notin Trainable /\ u \in run[r].population
  <2>1. run[r].split["train"] \subseteq run[r].population
    BY <1>1, <1>2 DEF Sampled, NoRun, Partitions
  <2> QED
    BY <1>1, <2>1 DEF Clean, Typed
<1>4. label[u] \in Roster
  BY <1>1, <1>2, <1>3 DEF Tagged
<1>5. ~live[u]
  BY <1>3, <1>4 DEF Trainable, Rendered, Uids
<1> QED
  BY <1>1, <1>3, <1>5 DEF Seen

(* No run is scored on a gold model it was trained on, except one that is  *)
(* deleted between the two queries (resolve_external_dev_set).             *)
THEOREM GoldStaysClean == ExperimentsSpec => []GoldIsClean
<1>1. EInv => GoldIsClean
  BY GoldClean
<1> QED
  BY <1>1, ExperimentsInvariant, PTL

-----------------------------------------------------------------------------
(***************************************************************************)
(* The whole comparison, with the lists read at any stage of their making. *)
(***************************************************************************)
(* A command on the lists changes nothing a run has read or kept.          *)
LEMMA ListsLeave ==
  ASSUME ListsNext
  PROVE  label' = label /\ live' = live
BY DEF ListsNext, RenderView, LoadTrainable, WriteCensus, LoadGold, SelectSubset, SelectDev,
       PushOnly, ListRenders, Rewrite, PushSubset, PushDev, Push, StopTool, Command, Goto, Done,
       catalogVars

LEMMA ComparisonStep == XInv /\ EInv /\ [ComparisonNext]_comparisonVars => XInv' /\ EInv'
<1> SUFFICES ASSUME XInv, EInv, [ComparisonNext]_comparisonVars PROVE XInv' /\ EInv'
  OBVIOUS
<1>1. CASE ListsNext /\ UNCHANGED runVars
  <2>1. XInv'
    BY <1>1, XInvStep DEF TextureNext
  <2>2. label' = label /\ live' = live /\ job' = job /\ run' = run /\ scorer' = scorer
    BY <1>1, ListsLeave DEF runVars
  <2>3. CatalogTypeOK'
    BY <2>1 DEF XInv, ListsTyped
  <2> QED
    BY <2>1, <2>2, <2>3 DEF EInv, Typed, Sampled, Tagged, Seen
<1>2. CASE ReadersNext /\ UNCHANGED listVars
  <2>1. \A cloud \in BOOLEAN : /\ Read("subset", cloud).uids \in SUBSET Uids
                              /\ Read("dev", cloud).uids \in SUBSET Gold
    BY DEF XInv, ListsTyped, CopyType, ListType, Lists, Read
  <2>2. AnyList
    BY <1>2, <2>1, ExperimentsAssumption DEF ReadersNext, CreateArm, LoadDev, AnyList
  <2>3. EInv'
    BY <2>2, EInvStep
  <2>4. CatalogTypeOK'
    BY <2>3 DEF EInv, Typed
  <2> QED
    BY <1>2, <2>3, <2>4 DEF XInv, ListsTyped, Listed, Complete, listVars
<1>3. CASE UNCHANGED comparisonVars
  <2>1. UNCHANGED textureVars /\ UNCHANGED experimentVars
    BY <1>3 DEF comparisonVars, textureVars, experimentVars
  <2> QED
    BY <2>1, XInvStep, EInvStep
<1> QED
  BY <1>1, <1>2, <1>3 DEF ComparisonNext

(* The invariants of the lists and of the runs hold together.              *)
THEOREM ComparisonInvariant == ComparisonSpec => [](XInv /\ EInv)
<1>1. ComparisonInit => XInv /\ EInv
  BY XInvInit, EInvInit DEF ComparisonInit
<1>2. XInv /\ EInv /\ [ComparisonNext]_comparisonVars => (XInv /\ EInv)'
  BY ComparisonStep
<1> QED
  BY <1>1, <1>2, PTL DEF ComparisonSpec

(* Types of the whole: in particular what a run keeps is part of what it   *)
(* chose from, whatever stage of a list it read (main of ml/train.py).     *)
THEOREM ComparisonTypeCorrect == ComparisonSpec => []ComparisonTypeOK
<1>1. XInv /\ EInv => ComparisonTypeOK
  BY RunsTypes, TextureTypes DEF XInv, ListsTyped, ComparisonTypeOK
<1> QED
  BY <1>1, ComparisonInvariant, PTL

(* While lists are made, cut down and pushed beside them, the runs keep    *)
(* what is proved of them for any list, and the lists what is proved of    *)
(* them beside a changing catalog.                                         *)
THEOREM ComparisonIsSafe ==
  ComparisonSpec =>
    [](VerifiedListsRender /\ ScoresFollowTheRun /\ SubsampleIsStable /\ GoldIsClean)
<1>1. XInv /\ EInv =>
        VerifiedListsRender /\ ScoresFollowTheRun /\ SubsampleIsStable /\ GoldIsClean
  BY VerifiedRender, ScoresFollow, SubsamplesStable, GoldClean
<1> QED
  BY <1>1, ComparisonInvariant, PTL

(* What an arm is trained on, where its list was cut down to the renders,  *)
(* has all of its textured views when the run begins, so that the arm of   *)
(* texture finds every model that of shape is trained on (restrict_to_     *)
(* subset, verify_against_renders).                                        *)
ArmsAreRendered ==
  [][\A r \in Runs, config \in Configs, cloud \in BOOLEAN :
       CreateArm(r, config, cloud) /\ config.subset /\ Read("subset", cloud).verified =>
         \A u \in run'[r].population : views'[u] = NumViews]_comparisonVars

THEOREM ArmsStayRendered == ComparisonSpec => ArmsAreRendered
<1>1. EInv' => RunsTypeOK'
  BY RunsTypes, PTL
<1>2. XInv /\ EInv /\ (XInv /\ EInv)' /\ [ComparisonNext]_comparisonVars =>
        [\A r \in Runs, config \in Configs, cloud \in BOOLEAN :
           CreateArm(r, config, cloud) /\ config.subset /\ Read("subset", cloud).verified =>
             \A u \in run'[r].population : views'[u] = NumViews]_comparisonVars
  <2> SUFFICES ASSUME XInv, EInv, RunsTypeOK', [ComparisonNext]_comparisonVars,
                      NEW r \in Runs, NEW config \in Configs, NEW cloud \in BOOLEAN,
                      CreateArm(r, config, cloud), config.subset,
                      Read("subset", cloud).verified,
                      NEW u \in run'[r].population
               PROVE  views'[u] = NumViews
    BY <1>1
  <2>1. u \in Read("subset", cloud).uids
    <3>1. run'[r].population \subseteq run'[r].basis
      BY DEF RunsTypeOK
    <3>2. run'[r].basis = Restricted(job.samples, config, Read("subset", cloud).uids)
      BY DEF CreateArm, CreateRun, EInv, Typed
    <3> QED
      BY <3>1, <3>2 DEF Restricted
  <2>2. views[u] = NumViews
    BY <2>1, VerifiedRender DEF VerifiedListsRender, Lists
  <2>3. views' = views
    <3>1. CASE ReadersNext /\ UNCHANGED listVars
      BY <3>1 DEF listVars
    <3>2. CASE ListsNext /\ UNCHANGED runVars
      <4>1. job' = job /\ job.pc = "samples" /\ job' = NoJob
        BY <3>2 DEF runVars, CreateArm, CreateRun
      <4> QED
        BY <4>1 DEF NoJob
    <3>3. CASE UNCHANGED comparisonVars
      BY <3>3 DEF comparisonVars, textureVars, listVars
    <3> QED
      BY <3>1, <3>2, <3>3 DEF ComparisonNext
  <2> QED
    BY <2>2, <2>3
<1> QED
  BY <1>2, ComparisonInvariant, PTL DEF ComparisonSpec, ArmsAreRendered

=============================================================================
