-------------------------- MODULE MC_PlannerTable ---------------------------
(* Checks exec's dispatch and plan together against the design's pipeline *)
(* for every state of the batch: the initial states are all the states.    *)
EXTENDS PipelineDesign

VARIABLE st

TableInit == st \in Ongoing
TableNext == UNCHANGED st
TableSpec == TableInit /\ [][TableNext]_st

(* The design (4.1, 4.2, 8): from every state of the pipeline, the step    *)
(* exec takes when its operation succeeds, planned by plan, reaches the    *)
(* design's next state (the next sector of the phase, or at the last       *)
(* sector the next phase).                                                 *)
FollowsDesign == CodeNext(st) = DesignNext(st)
=============================================================================
