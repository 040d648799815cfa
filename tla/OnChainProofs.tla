-------------------------- MODULE OnChainProofs -----------------------------
(***************************************************************************)
(* The pre-commits land in sector order.                                   *)
(*                                                                         *)
(* LandedInOrder is inductive together with TypeOK.  A step that keeps the *)
(* state keeps every landed record (LandedKept: a chain step only settles  *)
(* pending or packed records, a submit leaves a landed record as it is).   *)
(* A step to PCLanded{i} is a check_pre_commit_state(i) that saw           *)
(* submission i landed (ConfirmedNext), called from PCSubmitted with i = 0 *)
(* or from PCLanded{i - 1}, whose prefix the invariant already gives.      *)
(***************************************************************************)

EXTENDS RefinementProofs

\* No landed record changes in this step.
LandedKept == \A sub \in Submissions : chain[sub] = "landed" => chain'[sub] = "landed"

\* Until the operator resumes the thread, PCLanded names a sector of the batch.
PCLandedInBatch == resumes = 0 /\ state.tag = "PCLanded" => state.index \in Idx

LandedInv == TypeOK /\ LandedInOrder /\ PCLandedInBatch

\* A submit RPC leaves a landed record as it is.
LEMMA SubmitKeepsLanded ==
    ASSUME TypeOK, NEW sub0 \in Submissions, NEW ready, NEW re, NEW e,
           Submit(sub0, ready, re, e)
    PROVE  LandedKept
BY DEF Submit, SubmitEffect, TypeOK, LandedKept

LEMMA LandedKeptNext == TypeOK /\ [Next]_vars => LandedKept
<1> SUFFICES ASSUME TypeOK, [Next]_vars PROVE LandedKept
  OBVIOUS
<1>0. <<"pc", Cur>> \in Submissions /\ <<"proof", Cur>> \in Submissions
  BY CurIdx DEF Submissions
<1>1. CASE SubmitPreCommit
  BY <1>1, <1>0, SubmitKeepsLanded DEF SubmitPreCommit
<1>2. CASE SubmitProof
  BY <1>2, <1>0, SubmitKeepsLanded DEF SubmitProof
<1>3. CASE ChainStep
  BY <1>3 DEF ChainStep, TypeOK, LandedKept
<1>4. CASE \/ Allocate \/ AcquireDeals \/ AddPieces \/ BuildTreeD \/ AssignTicket
           \/ PC1 \/ PC2 \/ CheckPreCommit \/ PersistSectorFiles
           \/ SubmitPersisted \/ WaitSeed \/ Commit1 \/ Commit2
           \/ CheckProofState \/ Stop \/ Resume \/ UNCHANGED vars
  BY <1>4 DEF Allocate, AcquireDeals, AddPieces, BuildTreeD, AssignTicket, PC1,
     PC2, CheckPreCommit, PersistSectorFiles, SubmitPersisted, WaitSeed,
     Commit1, Commit2, CheckProofState, Stop, Resume, vars, LandedKept
<1>5. QED
  BY <1>1, <1>2, <1>3, <1>4 DEF Next, Exec

\* exec polls a pre-commit from PCSubmitted (sector 0) or from PCLanded{i}
\* (sector i + 1) only.
LEMMA DispatchCheckPC ==
    ASSUME NEW st \in States, Dispatch(st).op = "check_pre_commit_state"
    PROVE  \/ st.tag = "PCSubmitted" /\ Dispatch(st).index = 0
           \/ st.tag = "PCLanded" /\ Dispatch(st).index = st.index + 1
<1>1. st.tag \in PlainTags \cup IndexedTags
  BY DEF States, St
<1>2. QED
  BY <1>1 DEF Dispatch, Op, PlainTags, IndexedTags

\* A CheckPC event comes from check_pre_commit_state, for the sector it
\* was called with.
LEMMA OpEventsCheckPC ==
    ASSUME NEW call, NEW secs, NEW e \in OpEvents(call, secs), e.kind = "CheckPC"
    PROVE  call.op = "check_pre_commit_state" /\ e.index = call.index
BY DEF OpEvents, Ev

\* A step to PCLanded{i} that is not a resume comes from PCSubmitted with
\* i = 0 or from PCLanded{i - 1}.
LEMMA LandedFrom ==
    ASSUME TypeOK, [Next]_vars, ~Resume, state' # state, state'.tag = "PCLanded"
    PROVE  /\ state'.index \in Idx
           /\ \/ state.tag = "PCSubmitted" /\ state'.index = 0
              \/ state.tag = "PCLanded" /\ state'.index = state.index + 1
<1>1. Exec /\ ~Stop
  BY DEF Next, ChainStep, Stop, vars
<1>2. PICK r : ExecResult(r) /\ Drive(r)
  BY <1>1, ExecDrives
<1>3. r.res = "ok"
  <2>1. CASE r.res \in {"crit", "temp"}
    BY <1>2, <2>1 DEF Drive, Halt
  <2>2. CASE r.res \in {"perm", "abort"}
    <3>1. state' = St("Aborted")
      BY <1>2, <2>2 DEF Drive
    <3>2. QED
      BY <3>1 DEF St
  <2>3. QED
    BY <1>2, <2>1, <2>2 DEF ExecResult, GoodResult
<1>4. state' = Plan(r.ev, state)
  BY <1>2, <1>3 DEF Drive, Commit, Halt
<1>5. r.ev.kind = "CheckPC" /\ state'.index = r.ev.index
  BY <1>4, PlanLanded
<1>6. Dispatch(state).op = "check_pre_commit_state" /\ r.ev.index = Cur
  BY <1>2, <1>3, <1>5, OpEventsCheckPC DEF ExecResult, EventsFrom, Cur
<1>7. QED
  BY <1>5, <1>6, DispatchCheckPC, CurIdx DEF TypeOK, Cur

LEMMA LandedInvNext == LandedInv /\ [Next]_vars => LandedInv'
<1> SUFFICES ASSUME LandedInv, [Next]_vars PROVE LandedInv'
  OBVIOUS
<1>1. TypeOK'
  BY NextType DEF LandedInv
<1>2. LandedKept
  BY LandedKeptNext DEF LandedInv
<1>3. [ConfirmedStep]_vars
  BY ConfirmedNext DEF LandedInv
<1> SUFFICES ASSUME resumes' = 0, state'.tag = "PCLanded"
             PROVE  /\ state'.index \in Idx
                    /\ \A j \in 0 .. state'.index : chain'[<<"pc", j>>] = "landed"
  BY <1>1 DEF LandedInv, LandedInOrder, PCLandedInBatch
<1>4. ~Resume /\ resumes = 0
  BY MaxResumesAssumption DEF Resume, LandedInv, TypeOK, Next, Exec, Allocate,
     AcquireDeals, AddPieces, BuildTreeD, AssignTicket, PC1, PC2, SubmitPreCommit,
     CheckPreCommit, PersistSectorFiles, SubmitPersisted, WaitSeed, Commit1,
     Commit2, SubmitProof, CheckProofState, Stop, ChainStep, vars
<1>5. \A j \in Idx : <<"pc", j>> \in Submissions
  BY DEF Submissions
<1>6. CASE state' = state
  <2>1. state.index \in Idx
    BY <1>6, <1>4 DEF LandedInv, PCLandedInBatch
  <2>2. \A j \in 0 .. state.index : j \in Idx
    BY <2>1, NAssumption DEF Idx
  <2>3. QED
    BY <1>6, <1>4, <1>2, <1>5, <2>1, <2>2 DEF LandedInv, LandedInOrder, LandedKept
<1>7. CASE state' # state
  <2>1. /\ state'.index \in Idx
        /\ \/ state.tag = "PCSubmitted" /\ state'.index = 0
           \/ state.tag = "PCLanded" /\ state'.index = state.index + 1
    BY <1>7, <1>4, LandedFrom DEF LandedInv
  <2>2. state' = StI("PCLanded", state'.index)
    <3>1. state' \in [tag : IndexedTags, index : IndexVals]
      BY <1>1 DEF TypeOK, States, St, PlainTags
    <3>2. QED
      BY <3>1 DEF StI
  <2>3. chain[<<"pc", state'.index>>] = "landed"
    BY <1>3, <1>4, <1>7, <2>1, <2>2 DEF ConfirmedStep, Advances, vars
  <2>4. ASSUME NEW j \in 0 .. state'.index, j # state'.index
        PROVE  chain[<<"pc", j>>] = "landed"
    <3>0. state.index \in Nat
      BY UsizeMaxAssumption DEF LandedInv, TypeOK, States, St, IndexVals
    <3>1. state.tag = "PCLanded" /\ j \in 0 .. state.index
      BY <2>1, <2>4, <3>0, NAssumption DEF Idx
    <3>2. QED
      BY <3>1, <1>4 DEF LandedInv, LandedInOrder
  <2>5. \A j \in 0 .. state'.index : j \in Idx
    BY <2>1, NAssumption DEF Idx
  <2>6. QED
    BY <2>1, <2>3, <2>4, <2>5, <1>2, <1>5 DEF LandedKept
<1>8. QED
  BY <1>6, <1>7

(* check_pre_commit_state polls sector 0 after the last submission and     *)
(* sector i + 1 after sector i landed, and a landed pre-commit is never    *)
(* replaced: for every batch size and configuration, until the operator    *)
(* resumes the thread, a batch at PCLanded{i} has the pre-commits of all   *)
(* sectors 0 .. i landed.                                                  *)
THEOREM LandedInOrderHolds == Spec => []LandedInOrder
<1>1. Init => LandedInv
  BY InitType DEF Init, LandedInv, LandedInOrder, PCLandedInBatch, St
<1>2. QED
  BY <1>1, LandedInvNext, PTL DEF Spec, LandedInv

====
