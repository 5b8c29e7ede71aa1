------------------------------ MODULE MCStorage ------------------------------
(* StorageTools with one model, which is ingested or uploaded.             *)
EXTENDS StorageTools

CONSTANTS u1

MCUids == {u1}

=============================================================================
