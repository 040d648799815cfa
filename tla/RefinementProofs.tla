------------------------- MODULE RefinementProofs ---------------------------
(***************************************************************************)
(* The batch implements the abstract pipeline (AbstractPipeline) for every *)
(* batch size and configuration: Spec => FollowsPipeline.                  *)
(*                                                                         *)
(* The step argument needs more than TypeOK.  submit_persisted at index 0  *)
(* from Persisted{batch_size - 1} (exec, line 309) would move the batch    *)
(* back to Persisted{0} (plan, line 256); that never happens only because  *)
(* no sector ever gets a persist instance (NoPersist): the Persist event   *)
(* that sets it (apply_changes, lines 161-165) is built only by            *)
(* persist_sector_files, which requires it first (lines 515-518).  And the *)
(* thread stops at Finished only at the last sector (FinishedInBatch),     *)
(* since a Finish event carries the polled sector's index.                 *)
(***************************************************************************)
EXTENDS BatchSealerProofs

AbsVars == <<state, worker>>

\* The events the executor operation call (Dispatch's choice) can return with
\* sector records secs.
OpEvents(call, secs) ==
    LET o == call.op
        i == call.index
    IN  CASE o = "allocate" -> {Ev("Allocate", 0, k) : k \in 1 .. N}
          [] o = "acquire_deals" ->
                {Ev("AcquireDeals", j, d) : j \in {i, N}, d \in DealVals}
          [] o = "add_pieces" -> {Ev("AddPiece", i, 0)}
          [] o = "build_tree_d" -> {Ev("BuildTreeD", N - 1, 0)}
          [] o = "assign_ticket" ->
                {Ev("AssignTicket", 0, t) : t \in Tickets \cup {NoTicket}}
          [] o = "pc1" -> {Ev("PC1", 0, 0)}
          [] o = "pc2" -> {Ev("PC2", 0, 0)}
          [] o = "submit_pre_commit" -> {Ev("SubmitPC", i, 0)}
          [] o = "check_pre_commit_state" ->
                {Ev("CheckPC", i, 0), Ev("ReSubmitPC", i, 0)}
          [] o = "persist_sector_files" ->
                IF secs[i].persist THEN {Ev("Persist", i, 0)} ELSE {}
          [] o = "submit_persisted" ->
                IF secs[i].persist THEN {Ev("SubmitPersistance", i, 0)} ELSE {}
          [] o = "wait_seed" -> {Ev("AssignSeed", i, 0)}
          [] o = "commit1" -> {Ev("C1", 0, 0)}
          [] o = "commit2" -> {Ev("C2", i, 0)}
          [] o = "submit_proof" -> {Ev("SubmitProof", i, 0)}
          [] o = "check_proof_state" ->
                {Ev("Finish", i, 0), Ev("ReSubmitProof", i, 0)}
          [] OTHER -> {}

\* The events exec can return from state st.
EventsFrom(st, secs) == OpEvents(Dispatch(st), secs)

\* No sector holds a persist instance.
NoPersist == \A i \in Idx : ~sectors[i].persist

\* A Finished state names a sector of the batch.
FinishedInBatch == state.tag = "Finished" => state.index \in Idx

RefInv == TypeOK /\ NoPersist /\ FinishedInBatch

\* Planning e from st either leaves the batch where it is (a halt) or is a
\* step of the abstract pipeline: forward, or an allowed rollback.
Moves(e, st) ==
    LET nx == Plan(e, st) IN
    nx \notin {Unexpected, Panic} /\ nx # st =>
        Ahead(nx, st) \/ nx \in Abs!RollbackTargets(st)

-----------------------------------------------------------------------------
\* Every event exec can return is planned to a forward step, a rollback or
\* a halt, as long as no sector has a persist instance.
LEMMA StepMoves ==
    ASSUME NEW st \in States, NEW secs \in [Idx -> SectorRec],
           \A j \in Idx : ~secs[j].persist,
           NEW e \in EventsFrom(st, secs)
    PROVE  Moves(e, st)
<1> DEFINE i == st.index
<1>0. /\ i \in Nat /\ N \in Nat /\ N >= 1 /\ 0 \in Idx
      /\ (NotLast(i) => i \in Idx /\ i + 1 \in Idx)
      /\ ProofRollback \in {Panic} \cup {StI("C2Done", j) : j \in IndexVals}
  BY NAssumption, UsizeMaxAssumption, PlannerBatchSizeAssumption
  DEF States, St, IndexVals, Idx, NotLast, ProofRollback, WrappingDec
<1>1. CASE st.tag = "Empty"
  <2>1. Dispatch(st) = Op("allocate", 0)
    BY <1>1 DEF Dispatch
  <2>2. e \in {Ev("Allocate", 0, k) : k \in 1 .. N}
    BY <2>1 DEF EventsFrom, OpEvents, Op
  <2>3. Plan(e, st) = St("Allocated")
    BY <2>2, <1>1, <1>0 DEF Plan, Ev, St, StI
  <2>4. QED
    BY <2>3, <1>1, <1>0 DEF Moves, Ahead, Pos, St, StI
<1>2. CASE st.tag = "Allocated"
  <2>1. Dispatch(st) = Op("acquire_deals", 0)
    BY <1>2 DEF Dispatch
  <2>2. e \in {Ev("AcquireDeals", j, d) : j \in {0, N}, d \in DealVals}
    BY <2>1 DEF EventsFrom, OpEvents, Op
  <2>3. Plan(e, st) = StI("DealsAcquired", e.index)
    BY <2>2, <1>2, <1>0 DEF Plan, Ev, St, StI
  <2>4. QED
    BY <2>3, <1>2, <1>0 DEF Moves, Ahead, Pos, St, StI
<1>3. CASE st.tag = "DealsAcquired" /\ NotLast(i)
  <2>1. Dispatch(st) = Op("acquire_deals", i + 1)
    BY <1>3 DEF Dispatch
  <2>2. e \in {Ev("AcquireDeals", j, d) : j \in {i + 1, N}, d \in DealVals}
    BY <2>1 DEF EventsFrom, OpEvents, Op
  <2>3. Plan(e, st) = StI("DealsAcquired", e.index) /\ e.index > i
    BY <2>2, <1>3, <1>0 DEF Plan, Ev, St, StI, NotLast
  <2>4. QED
    BY <2>3, <1>3, <1>0 DEF Moves, Ahead, Pos, St, StI
<1>4. CASE st.tag = "DealsAcquired" /\ ~NotLast(i)
  <2>1. Dispatch(st) = Op("add_pieces", 0)
    BY <1>4 DEF Dispatch
  <2>2. e \in {Ev("AddPiece", 0, 0)}
    BY <2>1 DEF EventsFrom, OpEvents, Op
  <2>3. Plan(e, st) = StI("PieceAdded", 0)
    BY <2>2, <1>4, <1>0 DEF Plan, Ev, St, StI
  <2>4. QED
    BY <2>3, <1>4, <1>0 DEF Moves, Ahead, Pos, St, StI
<1>5. CASE st.tag = "PieceAdded"
  <2>1. Dispatch(st) = Op("build_tree_d", 0)
    BY <1>5 DEF Dispatch
  <2>2. e \in {Ev("BuildTreeD", N - 1, 0)}
    BY <2>1 DEF EventsFrom, OpEvents, Op
  <2>3. Plan(e, st) = StI("TreeDBuilt", N - 1)
    BY <2>2, <1>5, <1>0 DEF Plan, Ev, St, StI
  <2>4. QED
    BY <2>3, <1>5, <1>0 DEF Moves, Ahead, Pos, St, StI
<1>6. CASE st.tag = "TreeDBuilt"
  <2>1. Dispatch(st) = Op("assign_ticket", 0)
    BY <1>6 DEF Dispatch
  <2>2. e \in {Ev("AssignTicket", 0, t) : t \in Tickets \cup {NoTicket}}
    BY <2>1 DEF EventsFrom, OpEvents, Op
  <2>3. Plan(e, st) = St("TicketAssigned")
    BY <2>2, <1>6, <1>0 DEF Plan, Ev, St, StI
  <2>4. QED
    BY <2>3, <1>6, <1>0 DEF Moves, Ahead, Pos, St, StI
<1>7. CASE st.tag = "TicketAssigned"
  <2>1. Dispatch(st) = Op("pc1", 0)
    BY <1>7 DEF Dispatch
  <2>2. e \in {Ev("PC1", 0, 0)}
    BY <2>1 DEF EventsFrom, OpEvents, Op
  <2>3. Plan(e, st) = St("PC1Done")
    BY <2>2, <1>7, <1>0 DEF Plan, Ev, St, StI
  <2>4. QED
    BY <2>3, <1>7, <1>0 DEF Moves, Ahead, Pos, St, StI
<1>8. CASE st.tag = "PC1Done"
  <2>1. Dispatch(st) = Op("pc2", 0)
    BY <1>8 DEF Dispatch
  <2>2. e \in {Ev("PC2", 0, 0)}
    BY <2>1 DEF EventsFrom, OpEvents, Op
  <2>3. Plan(e, st) = St("PC2Done")
    BY <2>2, <1>8, <1>0 DEF Plan, Ev, St, StI
  <2>4. QED
    BY <2>3, <1>8, <1>0 DEF Moves, Ahead, Pos, St, StI
<1>9. CASE st.tag = "PC2Done"
  <2>1. Dispatch(st) = Op("submit_pre_commit", 0)
    BY <1>9 DEF Dispatch
  <2>2. e \in {Ev("SubmitPC", 0, 0)}
    BY <2>1 DEF EventsFrom, OpEvents, Op
  <2>3. Plan(e, st) = StI("PCSubmitted", 0)
    BY <2>2, <1>9, <1>0 DEF Plan, Ev, St, StI
  <2>4. QED
    BY <2>3, <1>9, <1>0 DEF Moves, Ahead, Pos, St, StI
<1>10. CASE st.tag = "PCSubmitted" /\ NotLast(i)
  <2>1. Dispatch(st) = Op("submit_pre_commit", i + 1)
    BY <1>10 DEF Dispatch
  <2>2. e \in {Ev("SubmitPC", i + 1, 0)}
    BY <2>1 DEF EventsFrom, OpEvents, Op
  <2>3. Plan(e, st) = StI("PCSubmitted", i + 1)
    BY <2>2, <1>10, <1>0 DEF Plan, Ev, St, StI
  <2>4. QED
    BY <2>3, <1>10, <1>0 DEF Moves, Ahead, Pos, St, StI
<1>11. CASE st.tag = "PCSubmitted" /\ ~NotLast(i)
  <2>1. Dispatch(st) = Op("check_pre_commit_state", 0)
    BY <1>11 DEF Dispatch
  <2>2. e \in {Ev("CheckPC", 0, 0), Ev("ReSubmitPC", 0, 0)}
    BY <2>1 DEF EventsFrom, OpEvents, Op
  <2>3. Plan(e, st) \in {StI("PCLanded", 0), St("PC2Done")}
    BY <2>2, <1>11, <1>0 DEF Plan, Ev, St, StI, PCResubmitTarget
  <2>4. QED
    BY <2>3, <1>11, <1>0 DEF Moves, Ahead, Pos, St, StI, Abs!RollbackTargets,
       Abs!St, Abs!StI, Abs!IndexVals, IndexVals
<1>12. CASE st.tag = "PCLanded" /\ NotLast(i)
  <2>1. Dispatch(st) = Op("check_pre_commit_state", i + 1)
    BY <1>12 DEF Dispatch
  <2>2. e \in {Ev("CheckPC", i + 1, 0), Ev("ReSubmitPC", i + 1, 0)}
    BY <2>1 DEF EventsFrom, OpEvents, Op
  <2>3. Plan(e, st) \in {StI("PCLanded", i + 1), Unexpected}
    BY <2>2, <1>12, <1>0 DEF Plan, Ev, St, StI
  <2>4. QED
    BY <2>3, <1>12, <1>0 DEF Moves, Ahead, Pos, St, StI, Unexpected
<1>13. CASE st.tag = "PCLanded" /\ ~NotLast(i)
  <2>1. Dispatch(st) = Op("persist_sector_files", 0)
    BY <1>13 DEF Dispatch
  <2>2. OpEvents(Op("persist_sector_files", 0), secs) = {}
    BY <1>13, <1>0 DEF OpEvents, Op
  <2>3. QED
    BY <2>1, <2>2 DEF EventsFrom
<1>14. CASE st.tag = "Persisted" /\ NotLast(i)
  <2>1. Dispatch(st) = Op("persist_sector_files", i)
    BY <1>14 DEF Dispatch
  <2>2. OpEvents(Op("persist_sector_files", i), secs) = {}
    BY <1>14, <1>0 DEF OpEvents, Op
  <2>3. QED
    BY <2>1, <2>2 DEF EventsFrom
<1>15. CASE st.tag = "Persisted" /\ ~NotLast(i)
  <2>1. Dispatch(st) = Op("submit_persisted", 0)
    BY <1>15 DEF Dispatch
  <2>2. OpEvents(Op("submit_persisted", 0), secs) = {}
    BY <1>15, <1>0 DEF OpEvents, Op
  <2>3. QED
    BY <2>1, <2>2 DEF EventsFrom
<1>16. CASE st.tag = "PersistanceSubmitted" /\ NotLast(i)
  <2>1. Dispatch(st) = Op("submit_persisted", i + 1)
    BY <1>16 DEF Dispatch
  <2>2. OpEvents(Op("submit_persisted", i + 1), secs) = {}
    BY <1>16, <1>0 DEF OpEvents, Op
  <2>3. QED
    BY <2>1, <2>2 DEF EventsFrom
<1>17. CASE st.tag = "PersistanceSubmitted" /\ ~NotLast(i)
  <2>1. Dispatch(st) = Op("wait_seed", 0)
    BY <1>17 DEF Dispatch
  <2>2. e \in {Ev("AssignSeed", 0, 0)}
    BY <2>1 DEF EventsFrom, OpEvents, Op
  <2>3. Plan(e, st) = StI("SeedAssigned", 0)
    BY <2>2, <1>17, <1>0 DEF Plan, Ev, St, StI
  <2>4. QED
    BY <2>3, <1>17, <1>0 DEF Moves, Ahead, Pos, St, StI
<1>18. CASE st.tag = "SeedAssigned" /\ NotLast(i)
  <2>1. Dispatch(st) = Op("wait_seed", i + 1)
    BY <1>18 DEF Dispatch
  <2>2. e \in {Ev("AssignSeed", i + 1, 0)}
    BY <2>1 DEF EventsFrom, OpEvents, Op
  <2>3. Plan(e, st) = StI("SeedAssigned", i + 1)
    BY <2>2, <1>18, <1>0 DEF Plan, Ev, St, StI
  <2>4. QED
    BY <2>3, <1>18, <1>0 DEF Moves, Ahead, Pos, St, StI
<1>19. CASE st.tag = "SeedAssigned" /\ ~NotLast(i)
  <2>1. Dispatch(st) = Op("commit1", 0)
    BY <1>19 DEF Dispatch
  <2>2. e \in {Ev("C1", 0, 0)}
    BY <2>1 DEF EventsFrom, OpEvents, Op
  <2>3. Plan(e, st) = St("C1Done")
    BY <2>2, <1>19, <1>0 DEF Plan, Ev, St, StI
  <2>4. QED
    BY <2>3, <1>19, <1>0 DEF Moves, Ahead, Pos, St, StI
<1>20. CASE st.tag = "C1Done"
  <2>1. Dispatch(st) = Op("commit2", 0)
    BY <1>20 DEF Dispatch
  <2>2. e \in {Ev("C2", 0, 0)}
    BY <2>1 DEF EventsFrom, OpEvents, Op
  <2>3. Plan(e, st) = StI("C2Done", 0)
    BY <2>2, <1>20, <1>0 DEF Plan, Ev, St, StI
  <2>4. QED
    BY <2>3, <1>20, <1>0 DEF Moves, Ahead, Pos, St, StI
<1>21. CASE st.tag = "C2Done" /\ NotLast(i)
  <2>1. Dispatch(st) = Op("commit2", i)
    BY <1>21 DEF Dispatch
  <2>2. e \in {Ev("C2", i, 0)}
    BY <2>1 DEF EventsFrom, OpEvents, Op
  <2>3. st = StI("C2Done", i)
    BY <1>21 DEF States, St, StI, PlainTags
  <2>4. Plan(e, st) = st
    BY <2>2, <2>3, <1>21 DEF Plan, Ev, StI
  <2>5. QED
    BY <2>4 DEF Moves
<1>22. CASE st.tag = "C2Done" /\ ~NotLast(i)
  <2>1. Dispatch(st) = Op("submit_proof", 0)
    BY <1>22 DEF Dispatch
  <2>2. e \in {Ev("SubmitProof", 0, 0)}
    BY <2>1 DEF EventsFrom, OpEvents, Op
  <2>3. Plan(e, st) = StI("ProofSubmitted", 0)
    BY <2>2, <1>22, <1>0 DEF Plan, Ev, St, StI
  <2>4. QED
    BY <2>3, <1>22, <1>0 DEF Moves, Ahead, Pos, St, StI
<1>23. CASE st.tag = "ProofSubmitted" /\ NotLast(i)
  <2>1. Dispatch(st) = Op("submit_proof", i + 1)
    BY <1>23 DEF Dispatch
  <2>2. e \in {Ev("SubmitProof", i + 1, 0)}
    BY <2>1 DEF EventsFrom, OpEvents, Op
  <2>3. Plan(e, st) = StI("ProofSubmitted", i + 1)
    BY <2>2, <1>23, <1>0 DEF Plan, Ev, St, StI
  <2>4. QED
    BY <2>3, <1>23, <1>0 DEF Moves, Ahead, Pos, St, StI
<1>24. CASE st.tag = "ProofSubmitted" /\ ~NotLast(i)
  <2>1. Dispatch(st) = Op("check_proof_state", 0)
    BY <1>24 DEF Dispatch
  <2>2. e \in {Ev("Finish", 0, 0), Ev("ReSubmitProof", 0, 0)}
    BY <2>1 DEF EventsFrom, OpEvents, Op
  <2>3. Plan(e, st) \in {StI("Finished", 0), ProofRollback}
    BY <2>2, <1>24, <1>0 DEF Plan, Ev, St, StI, ProofResubmitTarget
  <2>4. QED
    BY <2>3, <1>24, <1>0 DEF Moves, Ahead, Pos, St, StI, Abs!RollbackTargets,
       Abs!St, Abs!StI, Abs!IndexVals, IndexVals
<1>25. CASE st.tag = "Finished" /\ NotLast(i)
  <2>1. Dispatch(st) = Op("check_proof_state", i + 1)
    BY <1>25 DEF Dispatch
  <2>2. e \in {Ev("Finish", i + 1, 0), Ev("ReSubmitProof", i + 1, 0)}
    BY <2>1 DEF EventsFrom, OpEvents, Op
  <2>3. Plan(e, st) \in {StI("Finished", i + 1), Unexpected}
    BY <2>2, <1>25, <1>0 DEF Plan, Ev, St, StI
  <2>4. QED
    BY <2>3, <1>25, <1>0 DEF Moves, Ahead, Pos, St, StI, Unexpected
<1>26. CASE st.tag = "Finished" /\ ~NotLast(i)
  <2>1. Dispatch(st) = Op("none", 0)
    BY <1>26 DEF Dispatch
  <2>2. OpEvents(Op("none", 0), secs) = {}
    BY DEF OpEvents, Op
  <2>3. QED
    BY <2>1, <2>2 DEF EventsFrom
<1>27. CASE st.tag = "Aborted"
  <2>1. Dispatch(st) = Op("aborted", 0)
    BY <1>27 DEF Dispatch
  <2>2. OpEvents(Op("aborted", 0), secs) = {}
    BY DEF OpEvents, Op
  <2>3. QED
    BY <2>1, <2>2 DEF EventsFrom
<1>28. QED
  <2>1. st.tag \in PlainTags \cup IndexedTags
    BY DEF States, St
  <2>2. QED
    BY <2>1, <1>1, <1>2, <1>3, <1>4, <1>5, <1>6, <1>7, <1>8, <1>9, <1>10,
       <1>11, <1>12, <1>13, <1>14, <1>15, <1>16, <1>17, <1>18, <1>19, <1>20,
       <1>21, <1>22, <1>23, <1>24, <1>25, <1>26, <1>27
    DEF PlainTags, IndexedTags

-----------------------------------------------------------------------------
\* An event exec returns neither sets a persist instance, when no sector has
\* one, nor names a Finished sector outside the batch.
LEMMA OpEventsFacts ==
    ASSUME NEW call, call.index \in Idx, NEW secs, ~secs[call.index].persist,
           NEW e \in OpEvents(call, secs)
    PROVE  /\ e.kind # "Persist"
           /\ e.kind = "Finish" => e.index \in Idx
BY DEF OpEvents, Ev

\* apply_changes touches the persist instance only for a Persist event.
LEMMA ApplyPersist ==
    ASSUME NEW secs \in [Idx -> SectorRec], NEW e, e.kind # "Persist"
    PROVE  \A j \in Idx : ApplyChanges(e, secs)[j].persist = secs[j].persist
<1> DEFINE i == e.index
<1>1. ASSUME NEW f \in {"deals", "seed", "c2out", "pc2_re_submit", "c2_re_submit"},
             NEW v
      PROVE  \A j \in Idx : Put(secs, i, f, v)[j].persist = secs[j].persist
  BY DEF Put, SectorRec
<1>2. /\ \A j \in Idx :
           [k \in Idx |-> IF k < e.arg THEN [secs[k] EXCEPT !.base = TRUE]
                          ELSE secs[k]][j].persist = secs[j].persist
      /\ \A j \in Idx : [k \in Idx |-> [secs[k] EXCEPT !.ticket = e.arg]][j].persist
                         = secs[j].persist
      /\ \A j \in Idx : [k \in Idx |-> [secs[k] EXCEPT !.c1out = TRUE]][j].persist
                         = secs[j].persist
      /\ \A j \in Idx : [k \in Idx |-> [secs[k] EXCEPT !.pc2out = TRUE]][j].persist
                         = secs[j].persist
  BY DEF SectorRec
<1>3. /\ \A j \in Idx : Put(secs, i, "deals", e.arg)[j].persist = secs[j].persist
      /\ \A j \in Idx : Put(secs, i, "seed", TRUE)[j].persist = secs[j].persist
      /\ \A j \in Idx : Put(secs, i, "c2out", TRUE)[j].persist = secs[j].persist
      /\ \A j \in Idx : Put(secs, i, "pc2_re_submit", FALSE)[j].persist = secs[j].persist
      /\ \A j \in Idx : Put(secs, i, "pc2_re_submit", TRUE)[j].persist = secs[j].persist
      /\ \A j \in Idx : Put(secs, i, "c2_re_submit", FALSE)[j].persist = secs[j].persist
      /\ \A j \in Idx : Put(secs, i, "c2_re_submit", TRUE)[j].persist = secs[j].persist
  BY <1>1
<1>4. QED
  BY <1>2, <1>3 DEF ApplyChanges

\* Dispatch returns an operation and an index.
LEMMA DispatchRec ==
    ASSUME NEW st \in States
    PROVE  Dispatch(st) = [op |-> Dispatch(st).op, index |-> Dispatch(st).index]
<1>1. st.tag \in PlainTags \cup IndexedTags
  BY DEF States, St
<1>2. QED
  BY <1>1 DEF Dispatch, Op, PlainTags, IndexedTags

\* Every exec step but Stop drives a good result whose event is one of the
\* events exec can return from the current state.
ExecResult(r) ==
    /\ GoodResult(r)
    /\ r.res = "ok" => r.ev \in EventsFrom(state, sectors)

LEMMA ExecDrives ==
    ASSUME TypeOK, Exec, ~Stop
    PROVE  /\ worker = "running"
           /\ \E r : ExecResult(r) /\ Drive(r)
<1>0. /\ Cur \in Idx /\ Cur \in 0 .. N
      /\ N - 1 \in 0 .. N /\ N \in 0 .. N /\ 0 \in 0 .. N
  BY CurIdx, NAssumption DEF Idx
<1> USE DEF TypeOK
<1> DEFINE EF == EventsFrom(state, sectors)
           D == Dispatch(state)
<1>a. ASSUME NEW r, GoodResult(r), Drive(r), r.res = "ok" => r.ev \in EF
      PROVE  \E q : ExecResult(q) /\ Drive(q)
  BY <1>a DEF ExecResult
<1>w. worker = "running"
  BY DEF Exec, Stop, Running, Allocate, AcquireDeals, AddPieces, BuildTreeD,
     AssignTicket, PC1, PC2, SubmitPreCommit, CheckPreCommit, PersistSectorFiles,
     SubmitPersisted, WaitSeed, Commit1, Commit2, SubmitProof, CheckProofState
<1> SUFFICES \E r : ExecResult(r) /\ Drive(r)
  BY <1>w
<1> HIDE DEF D
<1>e. ASSUME NEW o, D.op = o
      PROVE  EF = OpEvents([op |-> o, index |-> Cur], sectors)
  <2>1. D = [op |-> D.op, index |-> D.index]
    BY DispatchRec DEF D
  <2>2. QED
    BY <2>1, <1>e DEF EventsFrom, Cur, D
<1>1. CASE Allocate
  <2>1. \A k \in 1 .. N : Ev("Allocate", 0, k) \in EF
    BY <1>1, <1>e DEF Allocate, Running, D, OpEvents
  <2>2. QED
    BY <1>1, <2>1, <1>a, <1>0, OkGood DEF Allocate, Ok
<1>2. CASE AcquireDeals
  <2>1. \A r \in AcquireDealsResult(Cur) :
          GoodResult(r) /\ (r.res = "ok" => r.ev \in EF)
    <3>1. \A j \in {Cur, N}, d \in DealVals : Ev("AcquireDeals", j, d) \in EF
      BY <1>2, <1>e DEF AcquireDeals, Running, D, OpEvents
    <3>2. QED
      BY <3>1, <1>0, OkGood, FailGood DEF AcquireDealsResult, DealVals, Ok,
         Crit, Retry, Fail
  <2>2. QED
    BY <1>2, <1>a, <2>1 DEF AcquireDeals
<1>3. CASE AddPieces \/ BuildTreeD \/ PC1 \/ PC2
  <2>1. /\ AddPieces => Ev("AddPiece", Cur, 0) \in EF
        /\ BuildTreeD => Ev("BuildTreeD", N - 1, 0) \in EF
        /\ PC1 => Ev("PC1", 0, 0) \in EF
        /\ PC2 => Ev("PC2", 0, 0) \in EF
    BY <1>e DEF AddPieces, BuildTreeD, PC1, PC2, Running, D, OpEvents
  <2>2. QED
    BY <1>3, <2>1, <1>a, <1>0, OkGood DEF AddPieces, BuildTreeD, PC1, PC2, Ok
<1>4. CASE AssignTicket
  <2>1. sectors[0].ticket \in Tickets \cup {NoTicket}
    BY NAssumption DEF Idx, SectorRec
  <2>2. \A t \in Tickets \cup {NoTicket} :
          GoodResult(Ok(Ev("AssignTicket", 0, t))) /\ Ev("AssignTicket", 0, t) \in EF
    BY <1>4, <1>e, <1>0, OkGood DEF AssignTicket, Running, D, OpEvents
  <2>3. QED
    BY <1>4, <1>a, <2>1, <2>2, FailGood DEF AssignTicket, Ok, Crit, Fail
<1>5. ASSUME NEW k \in {"pc", "proof"}, NEW ready, NEW re \in BOOLEAN, NEW e,
             GoodResult(Ok(e)), e \in EF,
             Submit(<<k, Cur>>, ready, re, e)
      PROVE  \E q : ExecResult(q) /\ Drive(q)
  <2>1. chain[<<k, Cur>>] \in ChainStates
    BY <1>0 DEF Submissions
  <2>2. CASE ~ready
    BY <1>5, <2>2, <1>a, FailGood DEF Submit, Crit, Fail
  <2>3. CASE ready
    <3> DEFINE q(lost) == IF lost THEN Retry
                          ELSE SubmitResult(SubmitReply(chain[<<k, Cur>>], re), e)
    <3>1. PICK lost \in BOOLEAN : Drive(q(lost))
      BY <1>5, <2>3 DEF Submit
    <3>2. GoodResult(q(lost))
      BY <1>5, <2>1, SubmitGood, FailGood
    <3>3. q(lost).res = "ok" => q(lost).ev = e
      BY <2>1, SubmitEvents
    <3>4. QED
      BY <3>1, <3>2, <3>3, <1>5, <1>a
  <2>4. QED
    BY <2>2, <2>3
<1>6. CASE SubmitPreCommit
  <2>1. sectors[Cur].pc2_re_submit \in BOOLEAN
    BY <1>0 DEF SectorRec
  <2>2. Ev("SubmitPC", Cur, 0) \in EF
    BY <1>6, <1>e DEF SubmitPreCommit, Running, D, OpEvents
  <2>3. QED
    BY <1>6, <1>5, <2>1, <2>2, <1>0, OkGood DEF SubmitPreCommit
<1>7. CASE SubmitProof
  <2>1. sectors[Cur].c2_re_submit \in BOOLEAN
    BY <1>0 DEF SectorRec
  <2>2. Ev("SubmitProof", Cur, 0) \in EF
    BY <1>7, <1>e DEF SubmitProof, Running, D, OpEvents
  <2>3. QED
    BY <1>7, <1>5, <2>1, <2>2, <1>0, OkGood DEF SubmitProof
<1>8. CASE CheckPreCommit
  <2>1. chain[<<"pc", Cur>>] \in ChainStates
    BY <1>0 DEF Submissions
  <2> DEFINE P == PollResult(chain[<<"pc", Cur>>], Ev("CheckPC", Cur, 0),
                             Ev("ReSubmitPC", Cur, 0))
  <2>2. \A r \in P : GoodResult(r)
    BY <2>1, <1>0, OkGood, PollGood
  <2>3. {Ev("CheckPC", Cur, 0), Ev("ReSubmitPC", Cur, 0)} \subseteq EF
    BY <1>8, <1>e DEF CheckPreCommit, Running, D, OpEvents
  <2>4. \A r \in P : r.res = "ok" => r.ev \in EF
    BY <2>1, <2>3, PollEvents
  <2>5. QED
    BY <1>8, <1>a, <2>2, <2>4, FailGood DEF CheckPreCommit, Crit, Fail
<1>9. CASE CheckProofState
  <2>1. chain[<<"proof", Cur>>] \in ChainStates
    BY <1>0 DEF Submissions
  <2> DEFINE P == PollResult(chain[<<"proof", Cur>>], Ev("Finish", Cur, 0),
                             Ev("ReSubmitProof", Cur, 0))
  <2>2. \A r \in P : GoodResult(r)
    BY <2>1, <1>0, OkGood, PollGood
  <2>3. {Ev("Finish", Cur, 0), Ev("ReSubmitProof", Cur, 0)} \subseteq EF
    BY <1>9, <1>e DEF CheckProofState, Running, D, OpEvents
  <2>4. \A r \in P : r.res = "ok" => r.ev \in EF
    BY <2>1, <2>3, PollEvents
  <2>5. GoodResult(Ok(Ev("Finish", Cur, 0)))
    BY <1>0, OkGood
  <2>6. QED
    BY <1>9, <1>a, <2>2, <2>3, <2>4, <2>5, FailGood
    DEF CheckProofState, Ok, Crit, Fail
<1>10. CASE PersistSectorFiles \/ SubmitPersisted
  <2>1. /\ PersistSectorFiles /\ sectors[Cur].persist =>
              Ev("Persist", Cur, 0) \in EF
        /\ SubmitPersisted /\ sectors[Cur].persist =>
              Ev("SubmitPersistance", Cur, 0) \in EF
    BY <1>e DEF PersistSectorFiles, SubmitPersisted, Running, D, OpEvents
  <2>2. QED
    BY <1>10, <2>1, <1>a, <1>0, OkGood, FailGood
    DEF PersistSectorFiles, SubmitPersisted, Ok, Crit, Perm, Fail
<1>11. CASE WaitSeed \/ Commit1 \/ Commit2
  <2>1. /\ WaitSeed => Ev("AssignSeed", Cur, 0) \in EF
        /\ Commit1 => Ev("C1", 0, 0) \in EF
        /\ Commit2 => Ev("C2", Cur, 0) \in EF
    BY <1>e DEF WaitSeed, Commit1, Commit2, Running, D, OpEvents
  <2>2. QED
    BY <1>11, <2>1, <1>a, <1>0, OkGood, FailGood
    DEF WaitSeed, Commit1, Commit2, Ok, Crit, Retry, Fail
<1>12. QED
  BY <1>1, <1>2, <1>3, <1>4, <1>6, <1>7, <1>8, <1>9, <1>10, <1>11 DEF Exec

-----------------------------------------------------------------------------
\* A committed forward move of the running thread is an Advance, an allowed
\* rollback a Rollback.
LEMMA AdvanceStep ==
    ASSUME worker = "running", worker' = worker, state' \in States,
           Ahead(state', state)
    PROVE  Abs!Advance
BY DEF Abs!Advance, Abs!States, Abs!Ahead, Abs!Pos, Abs!St, Abs!StI,
   Abs!PlainTags, Abs!IndexedTags, Abs!IndexVals, States, Ahead, Pos, St, StI,
   PlainTags, IndexedTags, IndexVals

LEMMA RollbackStep ==
    ASSUME worker = "running", worker' = worker,
           state' \in Abs!RollbackTargets(state)
    PROVE  Abs!Rollback
BY DEF Abs!Rollback

\* Aborted lies ahead of every other state.
LEMMA AbortedAhead ==
    ASSUME NEW st \in States, st.tag # "Aborted"
    PROVE  Ahead(St("Aborted"), st)
<1>1. st.tag \in PlainTags \cup IndexedTags
  BY DEF States, St
<1>2. QED
  BY <1>1 DEF Ahead, Pos, St, PlainTags, IndexedTags

\* What the driver does with a result whose event moves the batch is a
\* step of the abstract pipeline, or leaves the stage and the thread alone.
LEMMA DriveAbs ==
    ASSUME TypeOK, worker = "running", NEW r, GoodResult(r), Drive(r),
           r.res = "ok" => Moves(r.ev, state)
    PROVE  [Abs!AbsNext]_AbsVars
<1> USE DEF TypeOK
<1>h. ASSUME worker' = "halted", state' = state
      PROVE  [Abs!AbsNext]_AbsVars
  BY <1>h DEF Abs!HaltThread, Abs!AbsNext
<1>1. CASE r.res = "ok"
  <2> DEFINE nx == Plan(r.ev, state)
  <2>1. nx \in States \cup {Unexpected, Panic}
    BY <1>1, PlanType DEF GoodResult, GoodEvent
  <2>2. CASE nx \in {Unexpected, Panic} \/ nx = state
    BY <1>1, <2>2, <1>h DEF Drive, Commit, Halt
  <2>3. CASE ~(nx \in {Unexpected, Panic} \/ nx = state)
    <3>1. state' = nx /\ worker' = worker
      BY <1>1, <2>3 DEF Drive, Commit
    <3>2. Ahead(nx, state) \/ nx \in Abs!RollbackTargets(state)
      BY <1>1, <2>3 DEF Moves
    <3>3. QED
      BY <3>1, <3>2, <2>1, <2>3, AdvanceStep, RollbackStep DEF Abs!AbsNext
  <2>4. QED
    BY <2>2, <2>3
<1>2. CASE r.res = "crit"
  BY <1>2, <1>h DEF Drive, Halt
<1>3. CASE r.res \in {"perm", "abort"}
  <2>1. state' = St("Aborted") /\ worker' = worker
    BY <1>3 DEF Drive
  <2>2. CASE state.tag = "Aborted"
    <3>0. state \in {St(t) : t \in PlainTags}
      BY <2>2 DEF States, IndexedTags
    <3>1. state = St("Aborted")
      BY <3>0, <2>2 DEF St
    <3>2. QED
      BY <2>1, <3>1 DEF AbsVars
  <2>3. CASE state.tag # "Aborted"
    <3>1. St("Aborted") \in States
      BY DEF States, PlainTags
    <3>2. QED
      BY <2>1, <2>3, <3>1, AbortedAhead, AdvanceStep DEF Abs!AbsNext
  <2>4. QED
    BY <2>2, <2>3
<1>4. CASE r.res = "temp"
  BY <1>4 DEF Drive, AbsVars
<1>5. QED
  BY <1>1, <1>2, <1>3, <1>4 DEF GoodResult

-----------------------------------------------------------------------------
(***************************************************************************)
(* The invariant RefInv.                                                   *)
(***************************************************************************)
LEMMA RefInvInit == Init => RefInv
<1>1. Init => NoPersist /\ FinishedInBatch
  BY DEF Init, NoPersist, FinishedInBatch, EmptySector, St
<1>2. QED
  BY <1>1, InitType DEF RefInv

\* What the events of an exec step from a state satisfying RefInv are.
LEMMA ExecEventFacts ==
    ASSUME RefInv, NEW e \in EventsFrom(state, sectors)
    PROVE  /\ e.kind # "Persist"
           /\ e.kind = "Finish" => e.index \in Idx
           /\ Moves(e, state)
<1>1. Dispatch(state).index \in Idx
  BY DispatchIndex DEF RefInv, TypeOK
<1>2. ~sectors[Dispatch(state).index].persist
  BY <1>1 DEF RefInv, NoPersist
<1>3. QED
  BY <1>1, <1>2, OpEventsFacts, StepMoves DEF RefInv, TypeOK, NoPersist, EventsFrom

\* No step gives a sector a persist instance, and a Finished state stays
\* inside the batch.
LEMMA RefInvNext == RefInv /\ [Next]_vars => RefInv'
<1> SUFFICES ASSUME RefInv, [Next]_vars PROVE RefInv'
  OBVIOUS
<1>1. TypeOK'
  BY NextType DEF RefInv
<1>2. CASE Exec /\ ~Stop
  <2>1. PICK r : ExecResult(r) /\ Drive(r)
    BY <1>2, ExecDrives DEF RefInv
  <2>2. r.res = "ok" =>
          r.ev.kind # "Persist" /\ (r.ev.kind = "Finish" => r.ev.index \in Idx)
    BY <2>1, ExecEventFacts DEF ExecResult
  <2>3. CASE r.res = "ok"
    <3>1. Commit(r.ev)
      BY <2>1, <2>3 DEF Drive
    <3> DEFINE nx == Plan(r.ev, state)
    <3>2. CASE nx \in {Unexpected, Panic} \/ nx = state
      BY <3>1, <3>2, <1>1 DEF Commit, Halt, RefInv, NoPersist, FinishedInBatch
    <3>3. CASE ~(nx \in {Unexpected, Panic} \/ nx = state)
      <4>1. state' = nx /\ sectors' = ApplyChanges(r.ev, sectors)
        BY <3>1, <3>3 DEF Commit
      <4>2. NoPersist'
        BY <4>1, <2>2, <2>3, ApplyPersist DEF RefInv, TypeOK, NoPersist
      <4>3. FinishedInBatch'
        BY <4>1, <2>2, <2>3, PlanLanded DEF FinishedInBatch
      <4>4. QED
        BY <1>1, <4>2, <4>3 DEF RefInv
    <3>4. QED
      BY <3>2, <3>3
  <2>4. CASE r.res # "ok"
    <3>1. sectors' = sectors /\ (state' = state \/ state' = St("Aborted"))
      BY <2>1, <2>4 DEF ExecResult, GoodResult, Drive, Halt
    <3>2. QED
      BY <3>1, <1>1 DEF RefInv, NoPersist, FinishedInBatch, St
  <2>5. QED
    BY <2>3, <2>4
<1>3. CASE Resume
  <2>1. sectors' = sectors /\ state' \in ValidStates
    BY <1>3 DEF Resume
  <2>2. FinishedInBatch'
    BY <2>1 DEF ValidStates, FinishedInBatch, St, PlainTags
  <2>3. QED
    BY <1>1, <2>1, <2>2 DEF RefInv, NoPersist
<1>4. CASE Stop \/ ChainStep \/ UNCHANGED vars
  BY <1>4, <1>1 DEF Stop, ChainStep, vars, RefInv, NoPersist, FinishedInBatch
<1>5. QED
  BY <1>2, <1>3, <1>4 DEF Next

-----------------------------------------------------------------------------
(***************************************************************************)
(* Every step is a step of the abstract pipeline.                          *)
(***************************************************************************)

\* exec stops the thread only at Finished past the last index or at Aborted.
LEMMA DispatchStops ==
    ASSUME NEW st \in States
    PROVE  /\ Dispatch(st).op = "none" => st.tag = "Finished" /\ ~NotLast(st.index)
           /\ Dispatch(st).op = "aborted" => st.tag = "Aborted"
<1>1. st.tag \in PlainTags \cup IndexedTags
  BY DEF States, St
<1>2. QED
  BY <1>1 DEF Dispatch, Op, PlainTags, IndexedTags

LEMMA StopStep ==
    ASSUME RefInv, Stop
    PROVE  Abs!StopThread
<1>1. CASE state.tag = "Finished"
  <2>1. state.index \in Idx /\ ~NotLast(state.index)
    BY <1>1, DispatchStops DEF Stop, RefInv, TypeOK, FinishedInBatch
  <2>2. state.index = N - 1
    BY <2>1, NAssumption DEF Idx, NotLast
  <2>3. state \in [tag : IndexedTags, index : IndexVals]
    BY <1>1 DEF RefInv, TypeOK, States, St, PlainTags
  <2>4. state = Abs!StI("Finished", N - 1)
    BY <1>1, <2>2, <2>3 DEF Abs!StI
  <2>5. QED
    BY <2>4 DEF Stop, Abs!StopThread, Abs!Terminal
<1>2. CASE state.tag # "Finished"
  <2>1. state.tag = "Aborted"
    BY <1>2, DispatchStops DEF Stop, RefInv, TypeOK
  <2>2. state \in {St(t) : t \in PlainTags}
    BY <2>1 DEF RefInv, TypeOK, States, IndexedTags
  <2>3. state = Abs!St("Aborted")
    BY <2>1, <2>2 DEF St, Abs!St
  <2>4. QED
    BY <2>3 DEF Stop, Abs!StopThread, Abs!Terminal
<1>3. QED
  BY <1>1, <1>2

LEMMA RefineStep == RefInv /\ [Next]_vars => [Abs!AbsNext]_AbsVars
<1> SUFFICES ASSUME RefInv, [Next]_vars PROVE [Abs!AbsNext]_AbsVars
  OBVIOUS
<1>1. CASE Exec /\ ~Stop
  <2>1. worker = "running" /\ \E r : ExecResult(r) /\ Drive(r)
    BY <1>1, ExecDrives DEF RefInv
  <2>2. PICK r : ExecResult(r) /\ Drive(r)
    BY <2>1
  <2>3. r.res = "ok" => Moves(r.ev, state)
    BY <2>2, ExecEventFacts DEF ExecResult
  <2>4. QED
    BY <2>1, <2>2, <2>3, DriveAbs DEF RefInv, ExecResult
<1>2. CASE Stop
  BY <1>2, StopStep DEF Abs!AbsNext
<1>3. CASE Resume
  <2>1. Abs!ResumeThread
    BY <1>3 DEF Resume, Abs!ResumeThread, Abs!ValidStates, ValidStates,
       Abs!St, St, Abs!PlainTags, PlainTags, Abs!IndexedTags, IndexedTags,
       Abs!Idx, Idx
  <2>2. QED
    BY <2>1 DEF Abs!AbsNext
<1>4. CASE ChainStep \/ UNCHANGED vars
  BY <1>4 DEF ChainStep, vars, AbsVars
<1>5. QED
  BY <1>1, <1>2, <1>3, <1>4 DEF Next

(* The batch implements the abstract pipeline: its committed state only   *)
(* moves forward, or rolls back after a failed submission within the      *)
(* submit phase, and the thread stops only at the end of the pipeline      *)
(* (plan, exec and the driver of batch.rs against design 4.1, 4.3).        *)
THEOREM RefinementHolds == Spec => FollowsPipeline
<1>1. Init => Abs!AbsInit
  BY DEF Init, Abs!AbsInit, St, Abs!St
<1>2. QED
  BY <1>1, RefInvInit, RefInvNext, RefineStep, PTL
  DEF Spec, FollowsPipeline, Abs!AbsSpec, AbsVars

====
