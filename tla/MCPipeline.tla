----------------------------- MODULE MCPipeline -----------------------------
(***************************************************************************)
(* Small instances of Pipeline.  o1 is a uid of the store and p1 that of   *)
(* an upload; the instances of a service are interchangeable.              *)
(***************************************************************************)
EXTENDS Pipeline, TLC

CONSTANTS o1, p1, w1, w2

MCOneModel == {o1}
MCOneUpload == {p1}
MCNoUids == {}
MCNoUploads == [u \in {} |-> "glb"]
MCUploadSuffix == [u \in {p1} |-> "other"]
MCWorkers == {w1, w2}
MCNoPoison == {}
(* A mesh without extent: normalize raises on it every time.               *)
MCDegenerate == {[stage |-> Normalize, uid |-> o1, variant |-> Default]}

Instances == Permutations({w1, w2})

=============================================================================
