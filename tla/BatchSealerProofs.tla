------------------------- MODULE BatchSealerProofs --------------------------
(***************************************************************************)
(* Proofs about BatchSealer for every batch size and configuration.        *)
(***************************************************************************)
EXTENDS BatchSealer, TLAPS

\* An event as the executor builds it: an index in 0..N (N is the
\* sectors.len() of acquire_deals with deals disabled) and a typed payload.
GoodEvent(e) ==
    /\ e.index \in 0 .. N
    /\ e.kind = "AcquireDeals" => e.arg \in DealVals
    /\ e.kind = "AssignTicket" => e.arg \in Tickets \cup {NoTicket}

GoodResult(r) ==
    /\ r.res \in {"ok", "crit", "perm", "abort", "temp"}
    /\ r.res = "ok" => GoodEvent(r.ev)

LEMMA DispatchIndex ==
    ASSUME NEW st \in States
    PROVE  Dispatch(st).index \in Idx
<1> DEFINE i == st.index
<1>1. st.tag \in PlainTags \cup IndexedTags /\ i \in Nat
  BY NAssumption, UsizeMaxAssumption DEF States, St, IndexVals
<1>2. 0 \in Idx /\ (i < N - 1 => i \in Idx /\ i + 1 \in Idx)
  BY <1>1, NAssumption DEF Idx
<1>3. QED
  BY <1>1, <1>2 DEF Dispatch, Op, NotLast, PlainTags, IndexedTags

LEMMA PlanType ==
    ASSUME NEW st \in States, NEW e, e.index \in 0 .. N
    PROVE  Plan(e, st) \in States \cup {Unexpected, Panic}
<1> DEFINE i == e.index
<1>1. \A x \in PlainTags : St(x) \in States
  BY DEF States
<1>2. \A x \in IndexedTags, j \in IndexVals : StI(x, j) \in States
  BY DEF States, StI
<1>3. i \in IndexVals
  BY DEF IndexVals
<1>4. PCResubmitTarget(i) \in States
  <2>1. i > 0 => i - 1 \in IndexVals
    BY NAssumption DEF IndexVals
  <2>2. QED
    BY <1>1, <1>2, <2>1 DEF PCResubmitTarget, PlainTags, IndexedTags
<1>5. ProofResubmitTarget(i) \in States \cup {Panic}
  <2>1. i > 0 => i - 1 \in IndexVals
    BY NAssumption DEF IndexVals
  <2>2. WrappingDec(PlannerBatchSize) \in IndexVals
    BY PlannerBatchSizeAssumption, NAssumption DEF WrappingDec, IndexVals
  <2>3. ProofRollback \in States \cup {Panic}
    BY <1>2, <2>2 DEF ProofRollback, IndexedTags
  <2>4. QED
    BY <1>2, <2>1, <2>3 DEF ProofResubmitTarget, IndexedTags
<1>6. QED
  BY <1>1, <1>2, <1>3, <1>4, <1>5 DEF Plan, PlainTags, IndexedTags

\* Setting a Boolean field, or the deals, of one sector keeps the record's type.
LEMMA PutType ==
    ASSUME NEW secs \in [Idx -> SectorRec], NEW i, NEW f, NEW v,
           \/ f \in {"persist", "seed", "c2out", "pc2_re_submit", "c2_re_submit"}
              /\ v \in BOOLEAN
           \/ f = "deals" /\ v \in DealVals
    PROVE  Put(secs, i, f, v) \in [Idx -> SectorRec]
BY DEF Put, SectorRec

LEMMA ApplyType ==
    ASSUME NEW secs \in [Idx -> SectorRec], NEW e, GoodEvent(e)
    PROVE  ApplyChanges(e, secs) \in [Idx -> SectorRec]
<1>1. [j \in Idx |-> IF j < e.arg THEN [secs[j] EXCEPT !.base = TRUE] ELSE secs[j]]
        \in [Idx -> SectorRec]
  BY DEF SectorRec
<1>2. e.kind = "AssignTicket" =>
        [j \in Idx |-> [secs[j] EXCEPT !.ticket = e.arg]] \in [Idx -> SectorRec]
  BY DEF GoodEvent, SectorRec
<1>3. /\ [j \in Idx |-> [secs[j] EXCEPT !.c1out = TRUE]] \in [Idx -> SectorRec]
      /\ [j \in Idx |-> [secs[j] EXCEPT !.pc2out = TRUE]] \in [Idx -> SectorRec]
  BY DEF SectorRec
<1>4. e.kind = "AcquireDeals" => Put(secs, e.index, "deals", e.arg) \in [Idx -> SectorRec]
  BY PutType DEF GoodEvent
<1>5. \A f \in {"persist", "seed", "c2out", "pc2_re_submit", "c2_re_submit"},
         v \in BOOLEAN : Put(secs, e.index, f, v) \in [Idx -> SectorRec]
  BY PutType
<1>6. QED
  BY <1>1, <1>2, <1>3, <1>4, <1>5 DEF ApplyChanges

\* The record and the thread keep their types through one driver step.
DriverTypeOK ==
    /\ state' \in States
    /\ sectors' \in [Idx -> SectorRec]
    /\ worker' \in {"running", "halted", "done"}

LEMMA DriveType ==
    ASSUME TypeOK, NEW r, GoodResult(r), Drive(r)
    PROVE  DriverTypeOK
<1>1. CASE r.res = "ok"
  <2> DEFINE next == Plan(r.ev, state)
  <2>1. next \in States \cup {Unexpected, Panic}
    BY <1>1, PlanType DEF TypeOK, GoodResult, GoodEvent
  <2>2. ApplyChanges(r.ev, sectors) \in [Idx -> SectorRec]
    BY <1>1, ApplyType DEF TypeOK, GoodResult
  <2>3. Commit(r.ev)
    BY <1>1 DEF Drive
  <2>4. QED
    BY <2>1, <2>2, <2>3 DEF Commit, Halt, TypeOK, DriverTypeOK
<1>2. CASE r.res # "ok"
  BY <1>2 DEF Drive, Halt, TypeOK, GoodResult, DriverTypeOK, States, St, PlainTags
<1>3. QED
  BY <1>1, <1>2

LEMMA OkGood ==
    ASSUME NEW k, NEW i \in 0 .. N, NEW a,
           k = "AcquireDeals" => a \in DealVals,
           k = "AssignTicket" => a \in Tickets \cup {NoTicket}
    PROVE  GoodResult(Ok(Ev(k, i, a)))
BY DEF GoodResult, GoodEvent, Ok, Ev

LEMMA FailGood ==
    GoodResult(Crit) /\ GoodResult(Perm) /\ GoodResult(Abort) /\ GoodResult(Retry)
BY DEF GoodResult, Crit, Perm, Abort, Retry, Fail

\* Every result a poll can end with is a good one.
LEMMA PollGood ==
    ASSUME NEW cs \in ChainStates, NEW l, NEW rs, GoodResult(Ok(l)), GoodResult(Ok(rs))
    PROVE  \A r \in PollResult(cs, l, rs) : GoodResult(r)
BY FailGood DEF PollResult, ChainStates

\* What a submit RPC does keeps the chain's type, and its result is good.
LEMMA SubmitGood ==
    ASSUME NEW cs \in ChainStates, NEW re \in BOOLEAN, NEW e, GoodResult(Ok(e))
    PROVE  /\ SubmitEffect(cs, re) \in ChainStates
           /\ GoodResult(SubmitResult(SubmitReply(cs, re), e))
<1>1. SubmitReply(cs, re) \in {"Accepted", "DuplicateSubmit", "Rejected"}
  BY DEF SubmitReply, ChainStates
<1>2. QED
  BY <1>1, FailGood DEF SubmitEffect, SubmitResult, ChainStates

\* The index exec works on is inside the batch.
LEMMA CurIdx == TypeOK => Cur \in Idx /\ Cur \in 0 .. N
BY DispatchIndex, NAssumption DEF TypeOK, Cur, Idx

\* Each action keeps TypeOK.
LEMMA NextType == TypeOK /\ [Next]_vars => TypeOK'
<1> SUFFICES ASSUME TypeOK, [Next]_vars PROVE TypeOK'
  OBVIOUS
<1>0. /\ Cur \in Idx /\ Cur \in 0 .. N
      /\ N - 1 \in 0 .. N /\ N \in 0 .. N /\ 0 \in 0 .. N
  BY CurIdx, NAssumption DEF Idx
<1> USE DEF TypeOK
<1>a. ASSUME NEW r, GoodResult(r), Drive(r), chain' = chain, resumes' = resumes
      PROVE  TypeOK'
  BY <1>a, DriveType DEF DriverTypeOK
<1>1. CASE Allocate
  BY <1>1, <1>a, <1>0, OkGood DEF Allocate
<1>2. CASE AcquireDeals
  <2>1. \A r \in AcquireDealsResult(Cur) : GoodResult(r)
    BY <1>0, OkGood, FailGood DEF AcquireDealsResult, DealVals
  <2>2. QED
    BY <1>2, <1>a, <2>1 DEF AcquireDeals
<1>3. CASE AddPieces
  BY <1>3, <1>a, <1>0, OkGood DEF AddPieces
<1>4. CASE BuildTreeD
  BY <1>4, <1>a, <1>0, OkGood DEF BuildTreeD
<1>5. CASE AssignTicket
  <2>1. sectors[0].ticket \in Tickets \cup {NoTicket}
    BY NAssumption DEF Idx, SectorRec
  <2>2. \A t \in Tickets : GoodResult(Ok(Ev("AssignTicket", 0, t)))
    BY <1>0, OkGood
  <2>3. GoodResult(Ok(Ev("AssignTicket", 0, sectors[0].ticket)))
    BY <1>0, <2>1, OkGood
  <2>4. QED
    BY <1>5, <1>a, <2>2, <2>3, FailGood DEF AssignTicket
<1>6. CASE PC1
  BY <1>6, <1>a, <1>0, OkGood DEF PC1
<1>7. CASE PC2
  BY <1>7, <1>a, <1>0, OkGood DEF PC2
<1>8. ASSUME NEW k \in {"pc", "proof"}, NEW ready, NEW re \in BOOLEAN, NEW e,
             GoodResult(Ok(e)), Submit(<<k, Cur>>, ready, re, e),
             resumes' = resumes
      PROVE  TypeOK'
  <2>1. <<k, Cur>> \in Submissions /\ chain[<<k, Cur>>] \in ChainStates
    BY <1>0 DEF Submissions
  <2>2. CASE ~ready
    BY <1>8, <2>2, <1>a, FailGood DEF Submit
  <2>3. CASE ready
    <3>1. PICK lost \in BOOLEAN :
            /\ chain' = [chain EXCEPT ![<<k, Cur>>] = SubmitEffect(chain[<<k, Cur>>], re)]
            /\ Drive(IF lost THEN Retry
                     ELSE SubmitResult(SubmitReply(chain[<<k, Cur>>], re), e))
      BY <1>8, <2>3 DEF Submit
    <3>2. GoodResult(IF lost THEN Retry
                     ELSE SubmitResult(SubmitReply(chain[<<k, Cur>>], re), e))
      BY <1>8, <2>1, SubmitGood, FailGood
    <3>3. DriverTypeOK
      BY <3>1, <3>2, DriveType
    <3>4. chain' \in [Submissions -> ChainStates]
      BY <3>1, <2>1, <1>8, SubmitGood
    <3>5. QED
      BY <3>3, <3>4, <1>8 DEF DriverTypeOK
  <2>4. QED
    BY <2>2, <2>3
<1>9. CASE SubmitPreCommit
  <2>1. sectors[Cur].pc2_re_submit \in BOOLEAN
    BY <1>0 DEF SectorRec
  <2>2. QED
    BY <1>9, <1>8, <2>1, <1>0, OkGood DEF SubmitPreCommit
<1>10. CASE CheckPreCommit
  <2>1. chain[<<"pc", Cur>>] \in ChainStates
    BY <1>0 DEF Submissions
  <2>2. \A r \in PollResult(chain[<<"pc", Cur>>], Ev("CheckPC", Cur, 0),
                             Ev("ReSubmitPC", Cur, 0)) : GoodResult(r)
    BY <2>1, <1>0, OkGood, PollGood
  <2>3. QED
    BY <1>10, <1>a, <2>2, FailGood DEF CheckPreCommit
<1>11. CASE PersistSectorFiles
  BY <1>11, <1>a, <1>0, OkGood, FailGood DEF PersistSectorFiles
<1>12. CASE SubmitPersisted
  BY <1>12, <1>a, <1>0, OkGood, FailGood DEF SubmitPersisted
<1>13. CASE WaitSeed
  BY <1>13, <1>a, <1>0, OkGood, FailGood DEF WaitSeed
<1>14. CASE Commit1
  BY <1>14, <1>a, <1>0, OkGood, FailGood DEF Commit1
<1>15. CASE Commit2
  BY <1>15, <1>a, <1>0, OkGood, FailGood DEF Commit2
<1>16. CASE SubmitProof
  <2>1. sectors[Cur].c2_re_submit \in BOOLEAN
    BY <1>0 DEF SectorRec
  <2>2. QED
    BY <1>16, <1>8, <2>1, <1>0, OkGood DEF SubmitProof
<1>17. CASE CheckProofState
  <2>1. chain[<<"proof", Cur>>] \in ChainStates
    BY <1>0 DEF Submissions
  <2>2. \A r \in PollResult(chain[<<"proof", Cur>>], Ev("Finish", Cur, 0),
                             Ev("ReSubmitProof", Cur, 0)) : GoodResult(r)
    BY <2>1, <1>0, OkGood, PollGood
  <2>3. GoodResult(Ok(Ev("Finish", Cur, 0)))
    BY <1>0, OkGood
  <2>4. QED
    BY <1>17, <1>a, <2>2, <2>3, FailGood DEF CheckProofState
<1>18. CASE Stop
  BY <1>18 DEF Stop
<1>19. CASE Resume
  <2>1. ValidStates \subseteq States
    BY NAssumption DEF ValidStates, States, IndexVals, Idx
  <2>2. resumes' \in 0 .. MaxResumes
    BY <1>19, MaxResumesAssumption DEF Resume
  <2>3. QED
    BY <1>19, <2>1, <2>2 DEF Resume
<1>20. CASE ChainStep
  BY <1>20 DEF ChainStep, ChainStates
<1>21. CASE UNCHANGED vars
  BY <1>21 DEF vars
<1>22. QED
  BY <1>1, <1>2, <1>3, <1>4, <1>5, <1>6, <1>7, <1>9, <1>10, <1>11, <1>12,
     <1>13, <1>14, <1>15, <1>16, <1>17, <1>18, <1>19, <1>20, <1>21
  DEF Next, Exec

\* The initial state is typed.
LEMMA InitType == Init => TypeOK
<1>1. EmptySector \in SectorRec
  BY DEF EmptySector, SectorRec, DealVals
<1>2. St("Empty") \in States
  BY DEF States, PlainTags
<1>3. QED
  BY <1>1, <1>2, MaxResumesAssumption DEF Init, TypeOK, ChainStates

(* The type invariant holds in every reachable state, for every batch size *)
(* and configuration: the driver only commits what plan returns as a state,*)
(* and every event exec builds has an index within 0 .. batch_size.        *)
THEOREM TypeCorrect == Spec => []TypeOK
BY InitType, NextType, PTL DEF Spec


-----------------------------------------------------------------------------
(***************************************************************************)
(* The ticket of a batch.                                                  *)
(***************************************************************************)

\* No sector's ticket changes in this step.
TicketsSame == \A j \in Idx : sectors'[j].ticket = sectors[j].ticket

\* The step of TicketStable.
TicketStep ==
    \A i \in Idx : sectors[i].ticket # NoTicket => sectors'[i].ticket = sectors[i].ticket

TicketInv == TypeOK /\ TicketsUniform

\* apply_changes touches the ticket only for an AssignTicket event.
LEMMA ApplyTicket ==
    ASSUME NEW secs \in [Idx -> SectorRec], NEW e, e.kind # "AssignTicket"
    PROVE  \A j \in Idx : ApplyChanges(e, secs)[j].ticket = secs[j].ticket
<1> DEFINE i == e.index
<1>1. ASSUME NEW f \in {"deals", "persist", "seed", "c2out", "pc2_re_submit",
                        "c2_re_submit"}, NEW v
      PROVE  \A j \in Idx : Put(secs, i, f, v)[j].ticket = secs[j].ticket
  BY DEF Put, SectorRec
<1>2. \A j \in Idx :
        [k \in Idx |-> IF k < e.arg THEN [secs[k] EXCEPT !.base = TRUE]
                       ELSE secs[k]][j].ticket = secs[j].ticket
  BY DEF SectorRec
<1>3. /\ \A j \in Idx : [k \in Idx |-> [secs[k] EXCEPT !.c1out = TRUE]][j].ticket
                         = secs[j].ticket
      /\ \A j \in Idx : [k \in Idx |-> [secs[k] EXCEPT !.pc2out = TRUE]][j].ticket
                         = secs[j].ticket
  BY DEF SectorRec
<1>5. /\ \A j \in Idx : Put(secs, i, "deals", e.arg)[j].ticket = secs[j].ticket
      /\ \A j \in Idx : Put(secs, i, "persist", TRUE)[j].ticket = secs[j].ticket
      /\ \A j \in Idx : Put(secs, i, "seed", TRUE)[j].ticket = secs[j].ticket
      /\ \A j \in Idx : Put(secs, i, "c2out", TRUE)[j].ticket = secs[j].ticket
      /\ \A j \in Idx : Put(secs, i, "pc2_re_submit", FALSE)[j].ticket = secs[j].ticket
      /\ \A j \in Idx : Put(secs, i, "pc2_re_submit", TRUE)[j].ticket = secs[j].ticket
      /\ \A j \in Idx : Put(secs, i, "c2_re_submit", FALSE)[j].ticket = secs[j].ticket
      /\ \A j \in Idx : Put(secs, i, "c2_re_submit", TRUE)[j].ticket = secs[j].ticket
  BY <1>1
<1>4. QED
  BY <1>2, <1>3, <1>5 DEF ApplyChanges

\* A driver step that commits no AssignTicket event keeps every ticket.
LEMMA DriveTicket ==
    ASSUME TypeOK, NEW r, GoodResult(r), Drive(r),
           r.res = "ok" => r.ev.kind # "AssignTicket"
    PROVE  TicketsSame
<1>1. CASE r.res = "ok"
  <2>1. Commit(r.ev)
    BY <1>1 DEF Drive
  <2>2. \A j \in Idx : ApplyChanges(r.ev, sectors)[j].ticket = sectors[j].ticket
    BY <1>1, ApplyTicket DEF TypeOK
  <2>3. QED
    BY <2>1, <2>2 DEF Commit, Halt, TicketsSame
<1>2. CASE r.res # "ok"
  BY <1>2 DEF Drive, Halt, GoodResult, TicketsSame
<1>3. QED
  BY <1>1, <1>2

\* A poll ends with one of its two events, or with no event.
LEMMA PollEvents ==
    ASSUME NEW cs \in ChainStates, NEW l, NEW rs
    PROVE  \A r \in PollResult(cs, l, rs) : r.res = "ok" => r.ev \in {l, rs}
BY DEF PollResult, ChainStates, Ok, Perm, Abort, Retry, Fail

\* A submit ends with its own event, or with no event.
LEMMA SubmitEvents ==
    ASSUME NEW cs \in ChainStates, NEW re \in BOOLEAN, NEW e, NEW lost \in BOOLEAN
    PROVE  LET r == IF lost THEN Retry ELSE SubmitResult(SubmitReply(cs, re), e)
           IN  r.res = "ok" => r.ev = e
BY DEF SubmitResult, SubmitReply, ChainStates, Ok, Perm, Abort, Retry, Fail

\* assign_ticket either reuses the batch's ticket or hands a first one to a
\* batch that has none.
LEMMA AssignTicketStep ==
    ASSUME TicketInv, AssignTicket
    PROVE  TicketStep /\ TicketsUniform'
<1> USE DEF TicketInv, TypeOK
<1>0. 0 \in Idx
  BY NAssumption DEF Idx
<1>1. CASE ~sectors[0].base
  <2>1. TicketsSame
    BY <1>1, FailGood, DriveTicket DEF AssignTicket, Crit, Fail
  <2>2. QED
    BY <2>1 DEF TicketsSame, TicketStep, TicketsUniform
<1>2. ASSUME NEW t \in Tickets \cup {NoTicket}, sectors[0].base,
             Drive(Ok(Ev("AssignTicket", 0, t))),
             sectors[0].ticket # NoTicket => t = sectors[0].ticket
      PROVE  TicketStep /\ TicketsUniform'
  <2> DEFINE e == Ev("AssignTicket", 0, t)
  <2>1. Commit(e)
    BY <1>2 DEF Drive, Ok
  <2>2. \A j \in Idx : ApplyChanges(e, sectors)[j].ticket = t
    BY DEF ApplyChanges, Ev, SectorRec
  <2>3. CASE Plan(e, state) \in {Unexpected, Panic} \/ Plan(e, state) = state
    BY <2>1, <2>3 DEF Commit, Halt, TicketStep, TicketsUniform
  <2>4. CASE ~(Plan(e, state) \in {Unexpected, Panic} \/ Plan(e, state) = state)
    <3>1. sectors' = ApplyChanges(e, sectors)
      BY <2>1, <2>4 DEF Commit
    <3>2. TicketsUniform'
      BY <3>1, <2>2 DEF TicketsUniform
    <3>3. TicketStep
      BY <3>1, <2>2, <1>2, <1>0 DEF TicketStep, TicketsUniform
    <3>4. QED
      BY <3>2, <3>3
  <2>5. QED
    BY <2>3, <2>4
<1>3. QED
  BY <1>1, <1>2, <1>0 DEF AssignTicket, SectorRec

\* Every step other than assign_ticket keeps every ticket.
LEMMA OtherStepsKeepTicket ==
    ASSUME TypeOK, [Next]_vars, ~AssignTicket
    PROVE  TicketsSame
<1>0. /\ Cur \in Idx /\ Cur \in 0 .. N
      /\ N - 1 \in 0 .. N /\ N \in 0 .. N /\ 0 \in 0 .. N
  BY CurIdx, NAssumption DEF Idx
<1> USE DEF TypeOK
<1>a. ASSUME NEW r, GoodResult(r), Drive(r), r.res = "ok" => r.ev.kind # "AssignTicket"
      PROVE  TicketsSame
  BY <1>a, DriveTicket
<1>1. CASE Allocate
  BY <1>1, <1>a, <1>0, OkGood DEF Allocate, Ok, Ev
<1>2. CASE AcquireDeals
  <2>1. \A r \in AcquireDealsResult(Cur) :
          GoodResult(r) /\ (r.res = "ok" => r.ev.kind # "AssignTicket")
    BY <1>0, OkGood, FailGood DEF AcquireDealsResult, DealVals, Ok, Ev,
       Crit, Retry, Fail
  <2>2. QED
    BY <1>2, <1>a, <2>1 DEF AcquireDeals
<1>3. CASE AddPieces
  BY <1>3, <1>a, <1>0, OkGood DEF AddPieces, Ok, Ev
<1>4. CASE BuildTreeD
  BY <1>4, <1>a, <1>0, OkGood DEF BuildTreeD, Ok, Ev
<1>6. CASE PC1
  BY <1>6, <1>a, <1>0, OkGood DEF PC1, Ok, Ev
<1>7. CASE PC2
  BY <1>7, <1>a, <1>0, OkGood DEF PC2, Ok, Ev
<1>8. ASSUME NEW k \in {"pc", "proof"}, NEW ready, NEW re \in BOOLEAN, NEW e,
             GoodResult(Ok(e)), e.kind # "AssignTicket",
             Submit(<<k, Cur>>, ready, re, e)
      PROVE  TicketsSame
  <2>1. chain[<<k, Cur>>] \in ChainStates
    BY <1>0 DEF Submissions
  <2>2. CASE ~ready
    BY <1>8, <2>2, <1>a, FailGood DEF Submit, Crit, Fail
  <2>3. CASE ready
    <3>1. PICK lost \in BOOLEAN :
            Drive(IF lost THEN Retry
                  ELSE SubmitResult(SubmitReply(chain[<<k, Cur>>], re), e))
      BY <1>8, <2>3 DEF Submit
    <3>2. GoodResult(IF lost THEN Retry
                     ELSE SubmitResult(SubmitReply(chain[<<k, Cur>>], re), e))
      BY <1>8, <2>1, SubmitGood, FailGood
    <3>3. QED
      BY <3>1, <3>2, <2>1, <1>8, <1>a, SubmitEvents
  <2>4. QED
    BY <2>2, <2>3
<1>9. CASE SubmitPreCommit
  <2>1. sectors[Cur].pc2_re_submit \in BOOLEAN
    BY <1>0 DEF SectorRec
  <2>2. QED
    BY <1>9, <1>8, <2>1, <1>0, OkGood DEF SubmitPreCommit, Ev
<1>10. CASE CheckPreCommit
  <2>1. chain[<<"pc", Cur>>] \in ChainStates
    BY <1>0 DEF Submissions
  <2> DEFINE P == PollResult(chain[<<"pc", Cur>>], Ev("CheckPC", Cur, 0),
                             Ev("ReSubmitPC", Cur, 0))
  <2>2. \A r \in P : GoodResult(r)
    BY <2>1, <1>0, OkGood, PollGood
  <2>3. \A r \in P : r.res = "ok" => r.ev.kind # "AssignTicket"
    BY <2>1, PollEvents DEF Ev
  <2>4. QED
    BY <1>10, <1>a, <2>2, <2>3, FailGood DEF CheckPreCommit, Crit, Fail
<1>11. CASE PersistSectorFiles
  BY <1>11, <1>a, <1>0, OkGood, FailGood DEF PersistSectorFiles, Ok, Ev,
     Crit, Perm, Fail
<1>12. CASE SubmitPersisted
  BY <1>12, <1>a, <1>0, OkGood, FailGood DEF SubmitPersisted, Ok, Ev,
     Crit, Perm, Fail
<1>13. CASE WaitSeed
  BY <1>13, <1>a, <1>0, OkGood, FailGood DEF WaitSeed, Ok, Ev, Crit, Retry, Fail
<1>14. CASE Commit1
  BY <1>14, <1>a, <1>0, OkGood, FailGood DEF Commit1, Ok, Ev, Crit, Fail
<1>15. CASE Commit2
  BY <1>15, <1>a, <1>0, OkGood, FailGood DEF Commit2, Ok, Ev, Crit, Fail
<1>16. CASE SubmitProof
  <2>1. sectors[Cur].c2_re_submit \in BOOLEAN
    BY <1>0 DEF SectorRec
  <2>2. QED
    BY <1>16, <1>8, <2>1, <1>0, OkGood DEF SubmitProof, Ev
<1>17. CASE CheckProofState
  <2>1. chain[<<"proof", Cur>>] \in ChainStates
    BY <1>0 DEF Submissions
  <2> DEFINE P == PollResult(chain[<<"proof", Cur>>], Ev("Finish", Cur, 0),
                             Ev("ReSubmitProof", Cur, 0))
  <2>2. \A r \in P : GoodResult(r)
    BY <2>1, <1>0, OkGood, PollGood
  <2>3. \A r \in P : r.res = "ok" => r.ev.kind # "AssignTicket"
    BY <2>1, PollEvents DEF Ev
  <2>4. GoodResult(Ok(Ev("Finish", Cur, 0)))
    BY <1>0, OkGood
  <2>5. QED
    BY <1>17, <1>a, <2>2, <2>3, <2>4, FailGood DEF CheckProofState, Crit,
       Fail, Ok, Ev
<1>18. CASE Stop \/ Resume \/ ChainStep \/ UNCHANGED vars
  BY <1>18 DEF Stop, Resume, ChainStep, vars, TicketsSame
<1>19. QED
  BY <1>1, <1>2, <1>3, <1>4, <1>6, <1>7, <1>9, <1>10, <1>11, <1>12,
     <1>13, <1>14, <1>15, <1>16, <1>17, <1>18
  DEF Next, Exec

LEMMA TicketInvInductive == TicketInv /\ [Next]_vars => TicketInv' /\ [TicketStep]_vars
<1> SUFFICES ASSUME TicketInv, [Next]_vars PROVE TicketInv' /\ [TicketStep]_vars
  OBVIOUS
<1>1. TypeOK'
  BY NextType DEF TicketInv
<1>2. CASE AssignTicket
  BY <1>1, <1>2, AssignTicketStep DEF TicketInv
<1>3. CASE ~AssignTicket
  <2>1. TicketsSame
    BY <1>3, OtherStepsKeepTicket DEF TicketInv
  <2>2. QED
    BY <1>1, <2>1 DEF TicketsSame, TicketStep, TicketInv, TicketsUniform
<1>4. QED
  BY <1>2, <1>3

(* assign_ticket, run again after a resume or a restart, never replaces a  *)
(* sector's ticket: for every batch size and configuration the step of     *)
(* TicketStable holds, because the whole batch shares one ticket.          *)
THEOREM TicketStableHolds == Spec => TicketStable
<1>1. Init => TicketInv
  <2>1. Init => TicketsUniform
    BY DEF Init, TicketsUniform, EmptySector
  <2>2. QED
    BY <2>1, InitType DEF TicketInv
<1>2. QED
  BY <1>1, TicketInvInductive, PTL DEF Spec, TicketStable, TicketStep


-----------------------------------------------------------------------------
(***************************************************************************)
(* Landing is confirmed by the chain.                                      *)
(***************************************************************************)

\* What the event of an exec result vouches for: a CheckPC event is built
\* only after the poll saw the pre-commit landed, a Finish event only after
\* the proof landed or with the proof check switched off.
Vouched(r) ==
    r.res = "ok" =>
        /\ r.ev.kind = "CheckPC" => chain[<<"pc", r.ev.index>>] = "landed"
        /\ r.ev.kind = "Finish" =>
              IgnoreProofCheck \/ chain[<<"proof", r.ev.index>>] = "landed"

\* The step of ConfirmedOnlyIfLanded.
ConfirmedStep ==
    \A i \in Idx :
        /\ Advances(StI("PCLanded", i)) => chain[<<"pc", i>>] = "landed"
        /\ Advances(StI("Finished", i)) =>
              IgnoreProofCheck \/ chain[<<"proof", i>>] = "landed"

\* plan reaches PCLanded only on CheckPC and Finished only on Finish, at the
\* event's index.
LEMMA PlanLanded ==
    ASSUME NEW e, NEW st
    PROVE  /\ Plan(e, st).tag = "PCLanded" =>
                 e.kind = "CheckPC" /\ Plan(e, st).index = e.index
           /\ Plan(e, st).tag = "Finished" =>
                 e.kind = "Finish" /\ Plan(e, st).index = e.index
<1>1. /\ PCResubmitTarget(e.index).tag \in {"PCSubmitted", "PC2Done"}
      /\ ProofResubmitTarget(e.index).tag \in {"ProofSubmitted", "C2Done", "Panic"}
  BY DEF PCResubmitTarget, ProofResubmitTarget, ProofRollback, StI, St, Panic
<1>2. QED
  BY <1>1 DEF Plan, St, StI, Unexpected

\* A driver step whose event is vouched for moves to PCLanded or Finished
\* only with the chain's confirmation.
LEMMA DriveLanded ==
    ASSUME TypeOK, NEW r, GoodResult(r), Drive(r), Vouched(r)
    PROVE  ConfirmedStep
<1> SUFFICES ASSUME NEW i \in Idx, state' # state,
                    state' \in {StI("PCLanded", i), StI("Finished", i)}
             PROVE  /\ state' = StI("PCLanded", i) => chain[<<"pc", i>>] = "landed"
                    /\ state' = StI("Finished", i) =>
                          IgnoreProofCheck \/ chain[<<"proof", i>>] = "landed"
  BY DEF ConfirmedStep, Advances
<1>1. CASE r.res = "ok"
  <2>1. Commit(r.ev)
    BY <1>1 DEF Drive
  <2>2. state' = Plan(r.ev, state)
    BY <2>1 DEF Commit, Halt
  <2>3. QED
    BY <1>1, <2>2, PlanLanded DEF Vouched, StI
<1>2. CASE r.res \in {"crit", "temp"}
  <2>1. state' = state
    BY <1>2 DEF Drive, Halt
  <2>2. QED
    BY <2>1
<1>3. CASE r.res \in {"perm", "abort"}
  <2>1. state' = St("Aborted")
    BY <1>3 DEF Drive
  <2>2. QED
    BY <2>1 DEF St, StI
<1>4. QED
  BY <1>1, <1>2, <1>3 DEF GoodResult

\* A result that carries none of the two events is vouched for.
LEMMA OtherKindVouched ==
    ASSUME NEW r, r.res = "ok" => r.ev.kind \notin {"CheckPC", "Finish"}
    PROVE  Vouched(r)
BY DEF Vouched

\* Every exec step but Stop drives a good result that is vouched for.
LEMMA ExecVouched ==
    ASSUME TypeOK, Exec, ~Stop
    PROVE  \E r : GoodResult(r) /\ Drive(r) /\ Vouched(r)
<1>0. /\ Cur \in Idx /\ Cur \in 0 .. N
      /\ N - 1 \in 0 .. N /\ N \in 0 .. N /\ 0 \in 0 .. N
  BY CurIdx, NAssumption DEF Idx
<1> USE DEF TypeOK
<1>a. ASSUME NEW r, GoodResult(r), Drive(r),
             r.res = "ok" => r.ev.kind \notin {"CheckPC", "Finish"}
      PROVE  \E q : GoodResult(q) /\ Drive(q) /\ Vouched(q)
  BY <1>a, OtherKindVouched
<1>1. CASE Allocate
  BY <1>1, <1>a, <1>0, OkGood DEF Allocate, Ok, Ev
<1>2. CASE AcquireDeals
  <2>1. \A r \in AcquireDealsResult(Cur) :
          GoodResult(r) /\ (r.res = "ok" => r.ev.kind \notin {"CheckPC", "Finish"})
    BY <1>0, OkGood, FailGood DEF AcquireDealsResult, DealVals, Ok, Ev,
       Crit, Retry, Fail
  <2>2. QED
    BY <1>2, <1>a, <2>1 DEF AcquireDeals
<1>3. CASE AddPieces \/ BuildTreeD \/ PC1 \/ PC2
  BY <1>3, <1>a, <1>0, OkGood DEF AddPieces, BuildTreeD, PC1, PC2, Ok, Ev
<1>4. CASE AssignTicket
  <2>1. sectors[0].ticket \in Tickets \cup {NoTicket}
    BY NAssumption DEF Idx, SectorRec
  <2>2. \A t \in Tickets \cup {NoTicket} : GoodResult(Ok(Ev("AssignTicket", 0, t)))
    BY <1>0, OkGood
  <2>3. QED
    BY <1>4, <1>a, <2>1, <2>2, FailGood DEF AssignTicket, Ok, Ev, Crit, Fail
<1>5. ASSUME NEW k \in {"pc", "proof"}, NEW ready, NEW re \in BOOLEAN, NEW e,
             GoodResult(Ok(e)), e.kind \notin {"CheckPC", "Finish"},
             Submit(<<k, Cur>>, ready, re, e)
      PROVE  \E q : GoodResult(q) /\ Drive(q) /\ Vouched(q)
  <2>1. chain[<<k, Cur>>] \in ChainStates
    BY <1>0 DEF Submissions
  <2>2. CASE ~ready
    BY <1>5, <2>2, <1>a, FailGood DEF Submit, Crit, Fail
  <2>3. CASE ready
    <3> DEFINE q(lost) == IF lost THEN Retry
                          ELSE SubmitResult(SubmitReply(chain[<<k, Cur>>], re), e)
    <3>1. PICK lost \in BOOLEAN : Drive(q(lost))
      BY <1>5, <2>3 DEF Submit
    <3>2. GoodResult(q(lost))
      BY <1>5, <2>1, SubmitGood, FailGood
    <3>3. q(lost).res = "ok" => q(lost).ev = e
      BY <2>1, SubmitEvents
    <3>4. QED
      BY <3>1, <3>2, <3>3, <1>5, <1>a
  <2>4. QED
    BY <2>2, <2>3
<1>6. CASE SubmitPreCommit
  <2>1. sectors[Cur].pc2_re_submit \in BOOLEAN
    BY <1>0 DEF SectorRec
  <2>2. QED
    BY <1>6, <1>5, <2>1, <1>0, OkGood DEF SubmitPreCommit, Ev
<1>7. CASE SubmitProof
  <2>1. sectors[Cur].c2_re_submit \in BOOLEAN
    BY <1>0 DEF SectorRec
  <2>2. QED
    BY <1>7, <1>5, <2>1, <1>0, OkGood DEF SubmitProof, Ev
<1>8. CASE CheckPreCommit
  <2>1. chain[<<"pc", Cur>>] \in ChainStates
    BY <1>0 DEF Submissions
  <2> DEFINE P == PollResult(chain[<<"pc", Cur>>], Ev("CheckPC", Cur, 0),
                             Ev("ReSubmitPC", Cur, 0))
  <2>2. \A r \in P : GoodResult(r)
    BY <2>1, <1>0, OkGood, PollGood
  <2>3. \A r \in P : r.res = "ok" /\ r.ev.kind = "CheckPC" =>
                       r.ev.index = Cur /\ chain[<<"pc", Cur>>] = "landed"
    BY <2>1 DEF PollResult, ChainStates, Ok, Ev, Perm, Abort, Retry, Fail
  <2>4. \A r \in P : Vouched(r)
    BY <2>3, <2>1, PollEvents DEF Vouched, Ev
  <2>5. QED
    BY <1>8, <1>a, <2>2, <2>4, FailGood DEF CheckPreCommit, Crit, Fail
<1>9. CASE CheckProofState
  <2>1. chain[<<"proof", Cur>>] \in ChainStates
    BY <1>0 DEF Submissions
  <2> DEFINE P == PollResult(chain[<<"proof", Cur>>], Ev("Finish", Cur, 0),
                             Ev("ReSubmitProof", Cur, 0))
  <2>2. \A r \in P : GoodResult(r)
    BY <2>1, <1>0, OkGood, PollGood
  <2>3. \A r \in P : r.res = "ok" /\ r.ev.kind = "Finish" =>
                       r.ev.index = Cur /\ chain[<<"proof", Cur>>] = "landed"
    BY <2>1 DEF PollResult, ChainStates, Ok, Ev, Perm, Abort, Retry, Fail
  <2>4. \A r \in P : Vouched(r)
    BY <2>3, <2>1, PollEvents DEF Vouched, Ev
  <2>5. IgnoreProofCheck =>
          GoodResult(Ok(Ev("Finish", Cur, 0))) /\ Vouched(Ok(Ev("Finish", Cur, 0)))
    BY <1>0, OkGood DEF Vouched, Ok, Ev
  <2>6. QED
    BY <1>9, <1>a, <2>2, <2>4, <2>5, FailGood DEF CheckProofState, Crit, Fail
<1>10. CASE PersistSectorFiles \/ SubmitPersisted \/ WaitSeed \/ Commit1 \/ Commit2
  BY <1>10, <1>a, <1>0, OkGood, FailGood
  DEF PersistSectorFiles, SubmitPersisted, WaitSeed, Commit1, Commit2, Ok, Ev,
      Crit, Perm, Retry, Fail
<1>11. QED
  BY <1>1, <1>2, <1>3, <1>4, <1>6, <1>7, <1>8, <1>9, <1>10 DEF Exec

\* Every step satisfies the step of ConfirmedOnlyIfLanded.
LEMMA ConfirmedNext == TypeOK /\ [Next]_vars => [ConfirmedStep]_vars
<1> SUFFICES ASSUME TypeOK, [Next]_vars PROVE ConfirmedStep \/ UNCHANGED vars
  OBVIOUS
<1>1. CASE Exec /\ ~Stop
  BY <1>1, ExecVouched, DriveLanded
<1>2. CASE Stop \/ ChainStep \/ UNCHANGED vars
  BY <1>2 DEF Stop, ChainStep, vars, ConfirmedStep, Advances
<1>3. CASE Resume
  BY <1>3, MaxResumesAssumption DEF Resume, TypeOK, ConfirmedStep, Advances
<1>4. QED
  BY <1>1, <1>2, <1>3 DEF Next

(* check_pre_commit_state and check_proof_state are the only places the    *)
(* batch learns that a submission landed: for every batch size and         *)
(* configuration, despite lost answers, duplicate submissions and          *)
(* resubmissions, the thread records PCLanded{i} or Finished{i} only in a  *)
(* step where the chain holds submission i landed (the proof check may be  *)
(* switched off by ignore_proof_check).                                    *)
THEOREM ConfirmedHolds == Spec => ConfirmedOnlyIfLanded
BY TypeCorrect, ConfirmedNext, PTL DEF Spec, ConfirmedOnlyIfLanded, ConfirmedStep

====
