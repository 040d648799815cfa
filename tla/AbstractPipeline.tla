-------------------------- MODULE AbstractPipeline --------------------------
(***************************************************************************)
(* What the batch planner promises about the committed pipeline state      *)
(* (spec 4.1, 4.3, 5), with the sectors, the chain and the RPCs left out.  *)
(* The state only moves forward in the pipeline order, a phase's sectors   *)
(* in increasing order.  There is one way back: after a submission failed  *)
(* on chain, the batch rolls back to an earlier sector of the submit       *)
(* phase, or to the phase before it.  The thread may halt, the operator    *)
(* may resume a halted thread at any state, and the thread stops only at   *)
(* the end of the pipeline.                                                *)
(***************************************************************************)
EXTENDS BatchPlanner

VARIABLES
    stage,      \* the committed pipeline state
    status      \* the thread: "running", "halted" or "done"

\* The states a resubmission may roll the batch back to from st.
RollbackTargets(st) ==
    CASE st.tag = "PCSubmitted" ->
            {St("PC2Done")} \cup {StI("PCSubmitted", j) : j \in 0 .. st.index - 1}
      [] st.tag = "ProofSubmitted" ->
            {StI("C2Done", j) : j \in IndexVals}
               \cup {StI("ProofSubmitted", j) : j \in 0 .. st.index - 1}
      [] OTHER -> {}

\* The states at which the thread may stop: the end of the pipeline.
Terminal == {StI("Finished", N - 1), St("Aborted")}

AbsInit == stage = St("Empty") /\ status = "running"

Advance ==
    /\ status = "running"
    /\ \E s \in States : Ahead(s, stage) /\ stage' = s
    /\ UNCHANGED status

Rollback ==
    /\ status = "running"
    /\ stage' \in RollbackTargets(stage)
    /\ UNCHANGED status

HaltThread ==
    /\ status = "running"
    /\ status' = "halted"
    /\ UNCHANGED stage

StopThread ==
    /\ status = "running"
    /\ stage \in Terminal
    /\ status' = "done"
    /\ UNCHANGED stage

ResumeThread ==
    /\ status = "halted"
    /\ stage' \in ValidStates \ {stage}
    /\ status' = "running"

AbsNext == Advance \/ Rollback \/ HaltThread \/ StopThread \/ ResumeThread

AbsSpec == AbsInit /\ [][AbsNext]_<<stage, status>>

=============================================================================
