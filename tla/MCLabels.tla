------------------------------ MODULE MCLabels ------------------------------
(* Labels with two people at the labeling UI and two operators running the *)
(* backfill.  Both models are gold objects with a row in weak_labels.csv.  *)
EXTENDS Labels, TLC

CONSTANTS u1, u2, a1, a2, b1, b2

MCUids == {u1, u2}
MCGold == {u1, u2}
MCRequests == {a1, a2}
MCBackfills == {b1, b2}

Actors ==
  Permutations({u1, u2}) \cup Permutations({a1, a2}) \cup Permutations({b1, b2})

=============================================================================
