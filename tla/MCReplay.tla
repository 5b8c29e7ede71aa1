------------------------------ MODULE MCReplay ------------------------------
(* PipelineHistory for one ingested model whose textured atlas is over the *)
(* size limit, so that its convert job fails on every delivery.            *)
EXTENDS PipelineHistory

CONSTANTS o1, w1

MCOneModel == {o1}
MCNoUploads == [u \in {} |-> "glb"]
MCWorkers == {w1}
MCPoison == {[stage |-> Convert, uid |-> o1, variant |-> Textured]}

=============================================================================
