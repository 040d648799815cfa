--------------------------- MODULE PipelineDesign ---------------------------
(***************************************************************************)
(* The pipeline the design prescribes (spec 4.1, 4.2), as a reference for  *)
(* the planner: from each state, the state one successful executor step    *)
(* should reach.  An indexed phase advances sector by sector and, at the   *)
(* last sector, moves to the first state of the next phase.                *)
(***************************************************************************)
EXTENDS BatchPlanner

\* The phases in order; an indexed phase is entered at index 0.
Phases == <<"Empty", "Allocated", "DealsAcquired", "PieceAdded", "TreeDBuilt",
            "TicketAssigned", "PC1Done", "PC2Done", "PCSubmitted", "PCLanded",
            "Persisted", "PersistanceSubmitted", "SeedAssigned", "C1Done",
            "C2Done", "ProofSubmitted", "Finished">>

Entry(t) == IF t \in IndexedTags THEN StI(t, 0) ELSE St(t)

\* The design's successor of a state of the pipeline.
DesignNext(st) ==
    IF st.tag \in IndexedTags /\ st.index < N - 1
    THEN StI(st.tag, st.index + 1)
    ELSE Entry(Phases[Pos(st.tag) + 2])

\* The states that have a successor: all but the last and Aborted.
Ongoing == ValidStates \ {StI("Finished", N - 1), St("Aborted")}

(***************************************************************************)
(* The event each executor operation returns when it succeeds, as the      *)
(* operations in BatchSealer build it; build_tree_d, which takes no index, *)
(* reports the whole batch built.                                          *)
(***************************************************************************)
SuccessKind ==
    [allocate |-> "Allocate", acquire_deals |-> "AcquireDeals",
     add_pieces |-> "AddPiece", build_tree_d |-> "BuildTreeD",
     assign_ticket |-> "AssignTicket", pc1 |-> "PC1", pc2 |-> "PC2",
     submit_pre_commit |-> "SubmitPC", check_pre_commit_state |-> "CheckPC",
     persist_sector_files |-> "Persist", submit_persisted |-> "SubmitPersistance",
     wait_seed |-> "AssignSeed", commit1 |-> "C1", commit2 |-> "C2",
     submit_proof |-> "SubmitProof", check_proof_state |-> "Finish"]

SuccessEvent(o) ==
    Ev(SuccessKind[o.op], IF o.op = "build_tree_d" THEN N - 1 ELSE o.index, 0)

\* The state the code reaches from st when exec's operation succeeds.
CodeNext(st) == Plan(SuccessEvent(Dispatch(st)), st)
=============================================================================
