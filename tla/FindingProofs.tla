--------------------------- MODULE FindingProofs ----------------------------
(***************************************************************************)
(* The disagreements the violation runs show on one small instance,       *)
(* proved for every batch size and configuration.                          *)
(*                                                                         *)
(*  - persist_blocked: no sector ever gets a persist instance (NoPersist,  *)
(*    part of RefInv), so persist_sector_files always halts the thread and *)
(*    no batch passes PCLanded unless the operator moves it by hand.       *)
(*  - failed_poll: a Failed poll of sector i + 1 from PCLanded{i} yields a *)
(*    ReSubmitPC event that plan refuses.                                  *)
(*  - proof_rollback: with the planner's batch_size left at a value other  *)
(*    than the job's, the proof rollback misses the last sector.           *)
(*  - deals_off: with deals disabled, the batch moves to                 *)
(*    DealsAcquired{batch_size}, past its last sector.                     *)
(*  - cc_disabled: with CC disabled, a sector without deals is accepted.   *)
(***************************************************************************)
EXTENDS RefinementProofs

-----------------------------------------------------------------------------
(***************************************************************************)
(* persist_sector_files (lines 512-529).                                   *)
(***************************************************************************)

\* The step of PersistAlwaysFails.
PersistStep == PersistSectorFiles => worker' = "halted"

LEMMA PersistStepNext == RefInv => [PersistStep]_vars
<1> SUFFICES ASSUME RefInv, PersistSectorFiles PROVE worker' = "halted"
  BY DEF PersistStep
<1>1. Cur \in Idx /\ ~sectors[Cur].persist
  BY CurIdx DEF RefInv, NoPersist
<1>2. Drive(Crit)
  BY <1>1 DEF PersistSectorFiles
<1>3. QED
  BY <1>2 DEF Drive, Crit, Fail, Halt

(* persist_sector_files requires the persist instance that only its own    *)
(* Persist event records (lines 515-518, 161-165): for every batch size    *)
(* and configuration, every call of it fails critically and halts the      *)
(* thread.                                                                 *)
THEOREM PersistAlwaysFails == Spec => [][PersistStep]_vars
BY RefInvInit, RefInvNext, PersistStepNext, PTL DEF Spec

\* Until the operator resumes the thread, the batch is at PCLanded or an
\* earlier state, or Aborted.
BeforePersist ==
    resumes = 0 => Pos(state.tag) <= Pos("PCLanded") \/ state.tag = "Aborted"

StuckInv == RefInv /\ BeforePersist

\* plan reaches Persisted or a later state from PCLanded or an earlier one
\* only on a Persist event.
LEMMA PlanBeforePersist ==
    ASSUME NEW st \in States, Pos(st.tag) <= Pos("PCLanded"), NEW e,
           e.kind # "Persist", Plan(e, st) \notin {Unexpected, Panic}
    PROVE  Pos(Plan(e, st).tag) <= Pos("PCLanded")
<1>1. st.tag \in {"Empty", "Allocated", "DealsAcquired", "PieceAdded",
                  "TreeDBuilt", "TicketAssigned", "PC1Done", "PC2Done",
                  "PCSubmitted", "PCLanded"}
  BY DEF States, St, PlainTags, IndexedTags, Pos
<1>2. PCResubmitTarget(e.index).tag \in {"PCSubmitted", "PC2Done"}
  BY DEF PCResubmitTarget, StI, St
<1>3. Plan(e, st).tag \in {"Allocated", "DealsAcquired", "PieceAdded",
                           "TreeDBuilt", "TicketAssigned", "PC1Done",
                           "PC2Done", "PCSubmitted", "PCLanded"}
  BY <1>1, <1>2 DEF Plan, St, StI, Unexpected
<1>4. QED
  BY <1>3 DEF Pos

LEMMA StuckInvNext == StuckInv /\ [Next]_vars => StuckInv'
<1> SUFFICES ASSUME StuckInv, [Next]_vars PROVE StuckInv'
  OBVIOUS
<1>1. RefInv'
  BY RefInvNext DEF StuckInv
<1> SUFFICES ASSUME resumes' = 0
             PROVE  Pos(state'.tag) <= Pos("PCLanded") \/ state'.tag = "Aborted"
  BY <1>1 DEF StuckInv, BeforePersist
<1>2. CASE Exec /\ ~Stop
  <2>1. PICK r : ExecResult(r) /\ Drive(r)
    BY <1>2, ExecDrives DEF StuckInv, RefInv
  <2>2. resumes = 0
    BY <1>2 DEF Exec, Allocate, AcquireDeals, AddPieces, BuildTreeD, AssignTicket,
       PC1, PC2, SubmitPreCommit, CheckPreCommit, PersistSectorFiles,
       SubmitPersisted, WaitSeed, Commit1, Commit2, SubmitProof, CheckProofState
  <2>3. Pos(state.tag) <= Pos("PCLanded") \/ state.tag = "Aborted"
    BY <2>2 DEF StuckInv, BeforePersist
  <2>4. CASE r.res = "ok"
    <3>1. r.ev \in EventsFrom(state, sectors)
      BY <2>1, <2>4 DEF ExecResult
    <3>2. r.ev.kind # "Persist"
      BY <3>1, ExecEventFacts DEF StuckInv
    <3>3. state.tag # "Aborted"
      <4>1. state.tag = "Aborted" => Dispatch(state).op = "aborted"
        BY DEF Dispatch, Op
      <4>2. QED
        BY <3>1, <4>1 DEF EventsFrom, OpEvents
    <3>4. Commit(r.ev)
      BY <2>1, <2>4 DEF Drive
    <3>5. CASE Plan(r.ev, state) \in {Unexpected, Panic} \/ Plan(r.ev, state) = state
      BY <3>4, <3>5, <2>3 DEF Commit, Halt
    <3>6. CASE ~(Plan(r.ev, state) \in {Unexpected, Panic} \/ Plan(r.ev, state) = state)
      <4>1. state' = Plan(r.ev, state)
        BY <3>4, <3>6 DEF Commit
      <4>2. QED
        BY <4>1, <3>6, <3>2, <3>3, <2>3, PlanBeforePersist DEF StuckInv, RefInv, TypeOK
    <3>7. QED
      BY <3>5, <3>6
  <2>5. CASE r.res # "ok"
    <3>1. state' = state \/ state' = St("Aborted")
      BY <2>1, <2>5 DEF ExecResult, GoodResult, Drive, Halt
    <3>2. QED
      BY <3>1, <2>3 DEF St
  <2>6. QED
    BY <2>4, <2>5
<1>3. CASE Resume
  BY <1>3, MaxResumesAssumption DEF Resume, StuckInv, RefInv, TypeOK
<1>4. CASE Stop \/ ChainStep \/ UNCHANGED vars
  BY <1>4 DEF Stop, ChainStep, vars, StuckInv, BeforePersist
<1>5. QED
  BY <1>2, <1>3, <1>4 DEF Next

(* The persist phase can never be completed: for every batch size and      *)
(* configuration, a batch the thread drives on its own (no operator        *)
(* resume) never gets past PCLanded; it stays at PCLanded or an earlier    *)
(* state, or is Aborted.                                                   *)
THEOREM NeverPastLanding == Spec => []BeforePersist
<1>1. Init => StuckInv
  BY RefInvInit DEF Init, StuckInv, BeforePersist, St, Pos
<1>2. QED
  BY <1>1, StuckInvNext, PTL DEF Spec, StuckInv

-----------------------------------------------------------------------------
(***************************************************************************)
(* The poll of sector i + 1 from PCLanded{i} (lines 306, 249).             *)
(***************************************************************************)

(* For every batch of at least two sectors, exec polls sector i + 1 from   *)
(* PCLanded{i} (line 306), and the ReSubmitPC event of a Failed answer is  *)
(* one plan has no arm for in PCLanded (line 249): the thread halts with   *)
(* "unexpected state and event" instead of resubmitting.                   *)
THEOREM FailedPollUnexpected ==
    ASSUME NEW i \in 0 .. N - 2, NEW a
    PROVE  /\ Dispatch(StI("PCLanded", i)) = Op("check_pre_commit_state", i + 1)
           /\ Plan(Ev("ReSubmitPC", i + 1, a), StI("PCLanded", i)) = Unexpected
<1>1. NotLast(i)
  BY NAssumption DEF NotLast
<1>2. QED
  BY <1>1 DEF Dispatch, StI, Plan, Ev

-----------------------------------------------------------------------------
(***************************************************************************)
(* The proof rollback (line 274).                                          *)
(***************************************************************************)

(* ReSubmitProof at index 0 rolls back to C2Done{self.batch_size - 1} of   *)
(* the planner, not of the job: for every batch size, unless the planner's *)
(* batch_size equals the job's (#[derive(Default)] leaves it 0), the       *)
(* rollback target is not C2Done at the last sector of the batch.          *)
THEOREM ProofRollbackMisses ==
    PlannerBatchSize # N => ProofRollback # StI("C2Done", N - 1)
<1> SUFFICES ASSUME PlannerBatchSize # N,
                    ProofRollback = StI("C2Done", N - 1)
             PROVE  FALSE
  OBVIOUS
<1>1. ~(PlannerBatchSize = 0 /\ OverflowChecks)
  BY DEF ProofRollback, Panic, StI
<1>2. WrappingDec(PlannerBatchSize) = N - 1
  BY <1>1 DEF ProofRollback, StI
<1>3. QED
  BY <1>2, NAssumption, PlannerBatchSizeAssumption, UsizeMaxAssumption
  DEF WrappingDec

-----------------------------------------------------------------------------
(***************************************************************************)
(* acquire_deals (lines 361-397).                                          *)
(***************************************************************************)

(* With deals disabled, acquire_deals returns AcquireDeals with index      *)
(* sectors.len() (line 369): for every batch size, the batch moves from    *)
(* Allocated to DealsAcquired{batch_size}, one past its last sector.       *)
THEOREM DealsOffIndexPastBatch ==
    ~EnableDeals /\ ~DisableCC =>
        /\ AcquireDealsResult(Cur) = {Ok(Ev("AcquireDeals", N, "None"))}
        /\ Plan(Ev("AcquireDeals", N, "None"), St("Allocated")) = StI("DealsAcquired", N)
        /\ N \notin Idx
BY DEF AcquireDealsResult, Plan, Ev, St, StI, Idx

(* With committed capacity disabled, acquire_deals still takes a sector    *)
(* forward when the sector manager has no deals for it (line 392): for     *)
(* every allocated sector, an AcquireDeals event without deals is among    *)
(* the results.                                                            *)
THEOREM CCDisabledAcceptsNoDeals ==
    ASSUME NEW i \in Idx, EnableDeals, DisableCC, sectors[i].base
    PROVE  Ok(Ev("AcquireDeals", i, "None")) \in AcquireDealsResult(i)
BY DEF AcquireDealsResult, DealVals

====
