---------------------------- MODULE BatchPlanner ----------------------------
(***************************************************************************)
(* The pure half of the batch planner of damocles-worker                   *)
(* (src/damocles-worker/src/sealing/sealing_thread/planner/batch.rs): the  *)
(* pipeline states (enum State), the events (enum Event), the transition   *)
(* function BatchPlanner::plan and the dispatch table of                   *)
(* BatchPlanner::exec, which picks the executor operation and the sector   *)
(* index from the current state alone.                                     *)
(*                                                                         *)
(* Data carried by events (deals, tickets, proofs) is abstracted to small  *)
(* values in the field "arg"; only "kind" and "index" matter to plan.      *)
(***************************************************************************)
EXTENDS Naturals

CONSTANTS
    N,                  \* job.sectors.batch_size: sectors in the batch
    PlannerBatchSize,   \* BatchPlanner.batch_size, set by #[derive(Default)]
    UsizeMax,           \* the value usize arithmetic wraps to below 0
    OverflowChecks      \* TRUE: a debug build, where usize underflow panics

ASSUME NAssumption == N \in Nat \ {0}
ASSUME PlannerBatchSizeAssumption == PlannerBatchSize \in 0 .. N
\* Any value at least N stands for usize::MAX: the code only compares an
\* index with batch_size - 1 and uses it to look a sector up.
ASSUME UsizeMaxAssumption == UsizeMax \in Nat /\ UsizeMax >= N
ASSUME OverflowChecksAssumption == OverflowChecks \in BOOLEAN

Idx == 0 .. N - 1

(***************************************************************************)
(* enum State (lines 59-79). An un-indexed state carries index 0.          *)
(***************************************************************************)
PlainTags == {"Empty", "Allocated", "TicketAssigned", "PC1Done", "PC2Done",
              "C1Done", "Aborted"}
IndexedTags == {"DealsAcquired", "PieceAdded", "TreeDBuilt", "PCSubmitted",
                "PCLanded", "Persisted", "PersistanceSubmitted",
                "SeedAssigned", "C2Done", "ProofSubmitted", "Finished"}
Tags == PlainTags \cup IndexedTags

St(t) == [tag |-> t, index |-> 0]
StI(t, i) == [tag |-> t, index |-> i]

\* Every value a usize index can take in the model.
IndexVals == (0 .. N) \cup {UsizeMax}

States == {St(t) : t \in PlainTags} \cup [tag : IndexedTags, index : IndexVals]

\* The states an operator can name, with an index inside the batch.
ValidStates == {St(t) : t \in PlainTags} \cup [tag : IndexedTags, index : Idx]

\* The declaration order of enum State, which is the pipeline order.
Pos(t) ==
    CASE t = "Empty" -> 0 [] t = "Allocated" -> 1 [] t = "DealsAcquired" -> 2
      [] t = "PieceAdded" -> 3 [] t = "TreeDBuilt" -> 4
      [] t = "TicketAssigned" -> 5 [] t = "PC1Done" -> 6 [] t = "PC2Done" -> 7
      [] t = "PCSubmitted" -> 8 [] t = "PCLanded" -> 9 [] t = "Persisted" -> 10
      [] t = "PersistanceSubmitted" -> 11 [] t = "SeedAssigned" -> 12
      [] t = "C1Done" -> 13 [] t = "C2Done" -> 14 [] t = "ProofSubmitted" -> 15
      [] t = "Finished" -> 16 [] t = "Aborted" -> 17

\* s2 lies strictly later than s1 in the pipeline: a later phase, or the
\* same phase at a later sector.
Ahead(s2, s1) ==
    \/ Pos(s2.tag) > Pos(s1.tag)
    \/ Pos(s2.tag) = Pos(s1.tag) /\ s2.index > s1.index

(***************************************************************************)
(* enum Event (lines 81-104).                                              *)
(***************************************************************************)
EventKinds == {"SetState", "Idle", "Allocate", "AcquireDeals", "AddPiece",
               "BuildTreeD", "AssignTicket", "PC1", "PC2", "SubmitPC",
               "ReSubmitPC", "CheckPC", "Persist", "SubmitPersistance",
               "AssignSeed", "C1", "C2", "SubmitProof", "ReSubmitProof",
               "Finish"}

Ev(k, i, a) == [kind |-> k, index |-> i, arg |-> a]

(***************************************************************************)
(* The results of plan that are not a state.                               *)
(***************************************************************************)
Unexpected == [tag |-> "Unexpected", index |-> 0]   \* "unexpected state and event"
Panic == [tag |-> "Panic", index |-> 0]             \* usize underflow, debug build

\* usize subtraction of one in a release build: it wraps below 0.
WrappingDec(x) == IF x > 0 THEN x - 1 ELSE UsizeMax

\* The rollback target of ReSubmitProof at index 0: C2Done at the planner's
\* own batch_size - 1 (line 274), which panics in a debug build when that
\* batch_size is 0.
ProofRollback ==
    IF PlannerBatchSize = 0 /\ OverflowChecks
    THEN Panic
    ELSE StI("C2Done", WrappingDec(PlannerBatchSize))

\* The targets of ReSubmitPC and ReSubmitProof (lines 249-255, 269-277):
\* the previous sector of the phase, or at index 0 the previous phase.
\* Mutant: at index 0 the batch rolls back past PC2Done and redoes PC2.
PCResubmitTargetPastPC2(i) == IF i > 0 THEN StI("PCSubmitted", i - 1) ELSE St("PC1Done")

PCResubmitTarget(i) == IF i > 0 THEN StI("PCSubmitted", i - 1) ELSE St("PC2Done")

\* Mutant: at index 0 the batch rolls back to C1Done and redoes every C2.
ProofResubmitTargetRedoC1(i) == IF i > 0 THEN StI("ProofSubmitted", i - 1) ELSE St("C1Done")

ProofResubmitTarget(i) == IF i > 0 THEN StI("ProofSubmitted", i - 1) ELSE ProofRollback

(***************************************************************************)
(* BatchPlanner::plan (lines 228-285): the next state for an event.        *)
(***************************************************************************)
Plan(e, st) ==
    LET t == st.tag
        k == e.kind
        i == e.index
    IN  CASE t = "Empty" /\ k = "Allocate" -> St("Allocated")
          [] t \in {"Allocated", "DealsAcquired"} /\ k = "AcquireDeals" ->
                StI("DealsAcquired", i)
          [] t \in {"DealsAcquired", "PieceAdded"} /\ k = "AddPiece" ->
                StI("PieceAdded", i)
          [] t \in {"PieceAdded", "TreeDBuilt"} /\ k = "BuildTreeD" ->
                StI("TreeDBuilt", i)
          [] t = "TreeDBuilt" /\ k = "AssignTicket" -> St("TicketAssigned")
          [] t = "TicketAssigned" /\ k = "PC1" -> St("PC1Done")
          [] t = "PC1Done" /\ k = "PC2" -> St("PC2Done")
          [] t \in {"PC2Done", "PCSubmitted"} /\ k = "SubmitPC" ->
                StI("PCSubmitted", i)
          [] t \in {"PCSubmitted", "PCLanded"} /\ k = "CheckPC" ->
                StI("PCLanded", i)
          [] t = "PCSubmitted" /\ k = "ReSubmitPC" -> PCResubmitTarget(i)
          [] \/ t = "PCLanded" /\ k = "Persist"
             \/ t = "Persisted" /\ k = "SubmitPersistance" ->
                StI("Persisted", i)
          [] t \in {"PersistanceSubmitted", "SeedAssigned"} /\ k = "AssignSeed" ->
                StI("SeedAssigned", i)
          [] t = "SeedAssigned" /\ k = "C1" -> St("C1Done")
          [] t \in {"C1Done", "C2Done"} /\ k = "C2" -> StI("C2Done", i)
          [] t \in {"C2Done", "ProofSubmitted"} /\ k = "SubmitProof" ->
                StI("ProofSubmitted", i)
          [] t = "ProofSubmitted" /\ k = "ReSubmitProof" -> ProofResubmitTarget(i)
          [] t \in {"ProofSubmitted", "Finished"} /\ k = "Finish" ->
                StI("Finished", i)
          [] OTHER -> Unexpected

(***************************************************************************)
(* The match of BatchPlanner::exec (lines 293-322): the executor operation *)
(* a state calls for and the sector index it is called with. "none" is the *)
(* Ok(None) of a finished batch, "aborted" the Err(TaskAborted) of Aborted.*)
(***************************************************************************)
Op(o, i) == [op |-> o, index |-> i]

\* index < batch_size - 1 in usize, with batch_size = N >= 1.
NotLast(i) == i < N - 1

Dispatch(st) ==
    LET t == st.tag
        i == st.index
    IN  CASE t = "Empty" -> Op("allocate", 0)
          [] t = "Allocated" -> Op("acquire_deals", 0)
          [] t = "DealsAcquired" ->
                IF NotLast(i) THEN Op("acquire_deals", i + 1) ELSE Op("add_pieces", 0)
          [] t = "PieceAdded" -> Op("build_tree_d", 0)
          [] t = "TreeDBuilt" -> Op("assign_ticket", 0)
          [] t = "TicketAssigned" -> Op("pc1", 0)
          [] t = "PC1Done" -> Op("pc2", 0)
          [] t = "PC2Done" -> Op("submit_pre_commit", 0)
          [] t = "PCSubmitted" ->
                IF NotLast(i) THEN Op("submit_pre_commit", i + 1)
                ELSE Op("check_pre_commit_state", 0)
          [] t = "PCLanded" ->
                IF NotLast(i) THEN Op("check_pre_commit_state", i + 1)
                ELSE Op("persist_sector_files", 0)
          [] t = "Persisted" ->
                IF NotLast(i) THEN Op("persist_sector_files", i)
                ELSE Op("submit_persisted", 0)
          [] t = "PersistanceSubmitted" ->
                IF NotLast(i) THEN Op("submit_persisted", i + 1) ELSE Op("wait_seed", 0)
          [] t = "SeedAssigned" ->
                IF NotLast(i) THEN Op("wait_seed", i + 1) ELSE Op("commit1", 0)
          [] t = "C1Done" -> Op("commit2", 0)
          [] t = "C2Done" ->
                IF NotLast(i) THEN Op("commit2", i) ELSE Op("submit_proof", 0)
          [] t = "ProofSubmitted" ->
                IF NotLast(i) THEN Op("submit_proof", i + 1)
                ELSE Op("check_proof_state", 0)
          [] t = "Finished" ->
                IF NotLast(i) THEN Op("check_proof_state", i + 1) ELSE Op("none", 0)
          [] t = "Aborted" -> Op("aborted", 0)

=============================================================================
