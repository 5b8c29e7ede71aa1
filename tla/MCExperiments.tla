--------------------------- MODULE MCExperiments ---------------------------
(***************************************************************************)
(* A small instance of Comparison: three models of the corpus, of which    *)
(* one has a texture it cannot be drawn with, and two gold ones.           *)
(***************************************************************************)
EXTENDS Comparison

CONSTANTS c1, c2, c3, g1, g2, chair

MCGoldClass == [u \in Gold |-> chair]
MCGlb == [u \in Corpus \cup Gold |->
  [glb |-> u # g2, baseColorTexture |-> TRUE, texcoord |-> u # c3, vertexColour |-> FALSE,
   baseColours |-> {"default"}]]

(* An order of the uids, and others.                                       *)
MCRank == [u \in Corpus \cup Gold |->
  CASE u = c1 -> 1 [] u = c2 -> 2 [] u = c3 -> 3 [] u = g1 -> 4 [] u = g2 -> 5]
MCSubsetRank == [u \in Corpus \cup Gold |-> (2 * MCRank[u]) % 5]
MCSampleRank == [p \in (Corpus \cup Gold) \X Seeds |-> (MCRank[p[1]] + 3 * p[2]) % 5]

(* Under the first seed c1 and g1 are for testing, under the second c3.    *)
MCBucket == [p \in (Corpus \cup Gold) \X Seeds |->
  IF p \in {<<c1, 1>>, <<g1, 1>>, <<c3, 2>>} THEN "test" ELSE "train"]

(* An arm on the subset, and runs on everything, two of them on nothing or *)
(* all but one of it.                                                      *)
MCConfigs ==
  {[seed |-> 1, limit |-> Unlimited, subset |-> TRUE],
   [seed |-> 2, limit |-> 2, subset |-> FALSE],
   [seed |-> 2, limit |-> -1, subset |-> FALSE],
   [seed |-> 2, limit |-> 0, subset |-> FALSE]}

(* No run yet, or one that was split by a shuffle, with and without its    *)
(* held out uids.                                                          *)
MCShuffled(held) ==
  [exists |-> TRUE, config |-> [seed |-> 2, limit |-> 2, subset |-> FALSE],
   basis |-> {c1, c2, c3}, population |-> {c1, c3},
   split |-> [p \in Partitions |-> CASE p = "train" -> {c3} [] p = "val" -> {}
                                     [] p = "test" -> {c1}],
   scheme |-> "shuffled", recorded |-> held]
MCOldTables ==
  {[r \in Runs |-> IF r = 1 THEN first ELSE NoRun] :
     first \in {NoRun, MCShuffled(TRUE), MCShuffled(FALSE)}}

(* A bound: an event less where there is a run from the start.             *)
OldRunIsAnEvent == run[1].scheme = "shuffled" => events < 4

MCSubsetLists == {{c1, c2}, {c1, c2, g1}}
MCDevLists == {Gold, {g1}}
=============================================================================
