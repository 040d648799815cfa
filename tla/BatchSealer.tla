---------------------------- MODULE BatchSealer -----------------------------
(***************************************************************************)
(* One batch driven through the sealing pipeline by its worker thread      *)
(* (batch.rs): the executor operations of BatchSealer, the state mutation  *)
(* of Event::apply / Event::apply_changes, and the driver loop that runs   *)
(* exec, then plan, then apply-and-commit.  The sector manager on the      *)
(* other end of the RPCs, and the chain it watches, are the environment.   *)
(*                                                                         *)
(* One step of the driver is one exec call together with the plan and the  *)
(* commit of its event, so the committed record is always the in-memory    *)
(* one.  A crash, or a lost RPC response, between the RPC and the commit   *)
(* leaves the record as it was while the sector manager has acted: that is *)
(* the "lost" alternative of the submit steps.  A polling loop that sees   *)
(* Pending or Packed, an Idle event and a Temporary failure all leave the  *)
(* record unchanged and are stuttering steps.                              *)
(***************************************************************************)
EXTENDS BatchPlanner

CONSTANTS
    EnableDeals,        \* config().enable_deals
    DisableCC,          \* config().disable_cc
    IgnoreProofCheck,   \* config().ignore_proof_check
    Tickets,            \* the tickets the sector manager may hand out
    NoTicket,           \* phases.ticket = None
    MaxResumes,         \* bound on the operator's resumes of a halted thread
    ApplyPC2Outputs     \* TRUE: the commented-out PC2 arm of apply_changes is
                        \* enabled, as the design asks (spec 9, open question)

ASSUME ConfigAssumption ==
    {EnableDeals, DisableCC, IgnoreProofCheck, ApplyPC2Outputs} \subseteq BOOLEAN
ASSUME TicketsAssumption == Tickets # {} /\ NoTicket \notin Tickets
ASSUME MaxResumesAssumption == MaxResumes \in Nat

VARIABLES
    state,      \* job.sectors.state
    sectors,    \* job.sectors.sectors: the per-sector fields
    worker,     \* the thread: "running", "halted" (critical failure), "done"
    chain,      \* the sector manager's view of each submission on chain
    resumes     \* resumes the operator has made so far

vars == <<state, sectors, worker, chain, resumes>>

\* Sector.deals: None, Some(empty list) or Some(non-empty list).
DealVals == {"None", "Empty", "Some"}

\* The fields of Sector and its Phases that the pipeline reads.
SectorRec == [base : BOOLEAN, deals : DealVals, ticket : Tickets \cup {NoTicket},
              pc2out : BOOLEAN, persist : BOOLEAN, seed : BOOLEAN,
              c1out : BOOLEAN, c2out : BOOLEAN,
              pc2_re_submit : BOOLEAN, c2_re_submit : BOOLEAN]

EmptySector == [base |-> FALSE, deals |-> "None", ticket |-> NoTicket,
                pc2out |-> FALSE, persist |-> FALSE, seed |-> FALSE,
                c1out |-> FALSE, c2out |-> FALSE,
                pc2_re_submit |-> FALSE, c2_re_submit |-> FALSE]

\* OnChainState: "none" is what the poll answers with NotFound.
ChainStates == {"none", "pending", "packed", "landed", "failed", "permfailed",
                "abort"}
Submissions == {"pc", "proof"} \X Idx

(***************************************************************************)
(* Results of an executor operation, Result<Event, Failure>.               *)
(***************************************************************************)
Ok(e) == [res |-> "ok", ev |-> e]
Fail(lvl) == [res |-> lvl, ev |-> Ev("Idle", 0, 0)]
Crit == Fail("crit")
Perm == Fail("perm")
Abort == Fail("abort")
Retry == Fail("temp")    \* a Temporary failure, or an Idle event

(***************************************************************************)
(* Event::apply_changes (lines 120-211).  Put is the                       *)
(* `if let Some(sector) = s.sectors.get_mut(index)` of each arm.           *)
(***************************************************************************)
Put(secs, i, f, v) == IF i \in Idx THEN [secs EXCEPT ![i][f] = v] ELSE secs

\* Mutant: the allocated list replaces the batch's sector vector instead of
\* being zipped into it.
ApplyChangesResized(e, secs) ==
    LET i == e.index IN
    CASE e.kind = "Allocate" ->
            [j \in 0 .. e.arg - 1 |-> [secs[j] EXCEPT !.base = TRUE]]
      [] e.kind = "AcquireDeals" -> Put(secs, i, "deals", e.arg)
      [] e.kind = "AssignTicket" ->
            [j \in Idx |-> [secs[j] EXCEPT !.ticket = e.arg]]
      [] e.kind = "Persist" -> Put(secs, i, "persist", TRUE)
      [] e.kind = "AssignSeed" -> Put(secs, i, "seed", TRUE)
      [] e.kind = "PC2" /\ ApplyPC2Outputs ->
            [j \in Idx |-> [secs[j] EXCEPT !.pc2out = TRUE]]
      [] e.kind = "C1" -> [j \in Idx |-> [secs[j] EXCEPT !.c1out = TRUE]]
      [] e.kind = "C2" -> Put(secs, i, "c2out", TRUE)
      [] e.kind = "SubmitPC" -> Put(secs, i, "pc2_re_submit", FALSE)
      [] e.kind = "ReSubmitPC" -> Put(secs, i, "pc2_re_submit", TRUE)
      [] e.kind = "SubmitProof" -> Put(secs, i, "c2_re_submit", FALSE)
      [] e.kind = "ReSubmitProof" -> Put(secs, i, "c2_re_submit", TRUE)
      [] OTHER -> secs

ApplyChanges(e, secs) ==
    LET i == e.index IN
    CASE e.kind = "Allocate" ->
            [j \in Idx |-> IF j < e.arg THEN [secs[j] EXCEPT !.base = TRUE]
                           ELSE secs[j]]
      [] e.kind = "AcquireDeals" -> Put(secs, i, "deals", e.arg)
      [] e.kind = "AssignTicket" ->
            [j \in Idx |-> [secs[j] EXCEPT !.ticket = e.arg]]
      [] e.kind = "Persist" -> Put(secs, i, "persist", TRUE)
      [] e.kind = "AssignSeed" -> Put(secs, i, "seed", TRUE)
      [] e.kind = "PC2" /\ ApplyPC2Outputs ->
            [j \in Idx |-> [secs[j] EXCEPT !.pc2out = TRUE]]
      [] e.kind = "C1" -> [j \in Idx |-> [secs[j] EXCEPT !.c1out = TRUE]]
      [] e.kind = "C2" -> Put(secs, i, "c2out", TRUE)
      [] e.kind = "SubmitPC" -> Put(secs, i, "pc2_re_submit", FALSE)
      [] e.kind = "ReSubmitPC" -> Put(secs, i, "pc2_re_submit", TRUE)
      [] e.kind = "SubmitProof" -> Put(secs, i, "c2_re_submit", FALSE)
      [] e.kind = "ReSubmitProof" -> Put(secs, i, "c2_re_submit", TRUE)
      [] OTHER -> secs

(***************************************************************************)
(* The driver: what becomes of an exec result.  An event is planned; an    *)
(* unexpected pair, an underflow panic, or a next state equal to the       *)
(* current one (the guard of Event::apply, line 110) halts the thread; the *)
(* rest is applied and the new state committed.  A critical failure halts  *)
(* the thread; a permanent one or an abort moves the batch to Aborted.     *)
(***************************************************************************)
Halt == worker' = "halted" /\ UNCHANGED <<state, sectors>>

Commit(e) ==
    LET next == Plan(e, state) IN
    IF next \in {Unexpected, Panic} \/ next = state
    THEN Halt
    ELSE /\ state' = next
         /\ sectors' = ApplyChanges(e, sectors)
         /\ UNCHANGED worker

Drive(r) ==
    CASE r.res = "ok" -> Commit(r.ev)
      [] r.res = "crit" -> Halt
      [] r.res \in {"perm", "abort"} ->
            state' = St("Aborted") /\ UNCHANGED <<sectors, worker>>
      [] r.res = "temp" -> UNCHANGED <<state, sectors, worker>>

\* The thread is running and exec dispatches the state to operation o.
Running(o) == worker = "running" /\ Dispatch(state).op = o

Cur == Dispatch(state).index

(***************************************************************************)
(* The sector manager's answer to submit_pre_commit / submit_proof, and    *)
(* what the submission does to its record.  A reset (resubmit) submission  *)
(* replaces a failed one; any other repeated submission is a duplicate.    *)
(***************************************************************************)
SubmitReply(cs, re) ==
    CASE cs = "none" -> "Accepted"
      [] cs \in {"pending", "packed", "landed"} -> "DuplicateSubmit"
      [] cs = "failed" -> IF re THEN "Accepted" ELSE "DuplicateSubmit"
      [] cs \in {"permfailed", "abort"} -> "Rejected"

SubmitEffect(cs, re) ==
    IF cs = "none" \/ (cs = "failed" /\ re) THEN "pending" ELSE cs

\* The match on res.res (lines 458-466, 607-615).
SubmitResult(reply, e) ==
    CASE reply \in {"Accepted", "DuplicateSubmit"} -> Ok(e)
      [] reply = "MismatchedSubmission" -> Perm
      [] reply = "Rejected" -> Abort
      [] reply = "FilesMissed" -> Perm

\* One submit RPC for submission sub, given the prerequisites ready and the
\* resubmission flag re; lost: the answer never reaches the record.
Submit(sub, ready, re, e) ==
    IF ~ready
    THEN Drive(Crit) /\ UNCHANGED chain
    ELSE \E lost \in BOOLEAN :
            /\ chain' = [chain EXCEPT ![sub] = SubmitEffect(chain[sub], re)]
            /\ Drive(IF lost THEN Retry ELSE SubmitResult(SubmitReply(chain[sub], re), e))

\* The polling loop of check_pre_commit_state / check_proof_state
\* (lines 473-505, 623-655), from the answer that ends it.  Pending and
\* Packed sleep and poll again; the 30s cooldown after Failed may be
\* interrupted, which leaves the record unchanged.
\* Mutant: Packed ends the loop like Landed.
PollResultPackedLands(cs, landed, resubmit) ==
    CASE cs \in {"landed", "packed"} -> {Ok(landed)}
      [] cs = "none" -> {Perm}
      [] cs = "failed" -> {Ok(resubmit), Retry}
      [] cs = "permfailed" -> {Perm}
      [] cs = "abort" -> {Abort}
      [] cs = "pending" -> {Retry}

\* Mutant: NotFound is taken for "not on chain yet" and polled again.
PollResultNotFoundWaits(cs, landed, resubmit) ==
    CASE cs = "landed" -> {Ok(landed)}
      [] cs = "failed" -> {Ok(resubmit), Retry}
      [] cs = "permfailed" -> {Perm}
      [] cs = "abort" -> {Abort}
      [] cs \in {"none", "pending", "packed"} -> {Retry}

PollResult(cs, landed, resubmit) ==
    CASE cs = "landed" -> {Ok(landed)}
      [] cs = "none" -> {Perm}
      [] cs = "failed" -> {Ok(resubmit), Retry}
      [] cs = "permfailed" -> {Perm}
      [] cs = "abort" -> {Abort}
      [] cs \in {"pending", "packed"} -> {Retry}

(***************************************************************************)
(* The executor operations, one action each (lines 336-669).               *)
(***************************************************************************)

\* allocate (336-359): an RPC error or an empty list is Idle.
Allocate ==
    /\ Running("allocate")
    /\ \E k \in 1 .. N : Drive(Ok(Ev("Allocate", 0, k)))
    /\ UNCHANGED <<chain, resumes>>

\* acquire_deals (361-397).
AcquireDealsResult(i) ==
    IF ~EnableDeals
    THEN {IF DisableCC THEN Retry ELSE Ok(Ev("AcquireDeals", N, "None"))}
    ELSE IF ~sectors[i].base THEN {Crit}
    ELSE {IF DisableCC \/ d = "Some" THEN Ok(Ev("AcquireDeals", i, d)) ELSE Retry
            : d \in DealVals}

AcquireDeals ==
    /\ Running("acquire_deals")
    /\ \E r \in AcquireDealsResult(Cur) : Drive(r)
    /\ UNCHANGED <<chain, resumes>>

\* add_pieces, build_tree_d, pc1, pc2, commit1 and commit2 are todo!() in
\* the source; they are modelled by the contract the design gives them:
\* the proving backend returns its outputs in the phase's event.
AddPieces ==
    /\ Running("add_pieces")
    /\ Drive(Ok(Ev("AddPiece", Cur, 0)))
    /\ UNCHANGED <<chain, resumes>>

BuildTreeD ==
    /\ Running("build_tree_d")
    /\ Drive(Ok(Ev("BuildTreeD", N - 1, 0)))
    /\ UNCHANGED <<chain, resumes>>

\* Mutant: a new ticket is asked for even when one is persisted.
AssignTicketFresh ==
    /\ Running("assign_ticket")
    /\ IF ~sectors[0].base
       THEN Drive(Crit)
       ELSE \E t \in Tickets : Drive(Ok(Ev("AssignTicket", 0, t)))
    /\ UNCHANGED <<chain, resumes>>

\* assign_ticket (407-424): reuse the persisted ticket of sector 0.
AssignTicket ==
    /\ Running("assign_ticket")
    /\ IF ~sectors[0].base
       THEN Drive(Crit)
       ELSE IF sectors[0].ticket # NoTicket
       THEN Drive(Ok(Ev("AssignTicket", 0, sectors[0].ticket)))
       ELSE \E t \in Tickets : Drive(Ok(Ev("AssignTicket", 0, t)))
    /\ UNCHANGED <<chain, resumes>>

PC1 ==
    /\ Running("pc1")
    /\ Drive(Ok(Ev("PC1", 0, 0)))
    /\ UNCHANGED <<chain, resumes>>

PC2 ==
    /\ Running("pc2")
    /\ Drive(Ok(Ev("PC2", 0, 0)))
    /\ UNCHANGED <<chain, resumes>>

\* submit_pre_commit (434-467): needs base, pc2out and ticket.
SubmitPreCommit ==
    /\ Running("submit_pre_commit")
    /\ LET i == Cur
           s == sectors[i]
       IN  Submit(<<"pc", i>>, s.base /\ s.pc2out /\ s.ticket # NoTicket,
                  s.pc2_re_submit, Ev("SubmitPC", i, 0))
    /\ UNCHANGED resumes

\* check_pre_commit_state (469-510).
CheckPreCommit ==
    /\ Running("check_pre_commit_state")
    /\ LET i == Cur IN
       IF ~sectors[i].base
       THEN Drive(Crit)
       ELSE \E r \in PollResult(chain[<<"pc", i>>], Ev("CheckPC", i, 0),
                                Ev("ReSubmitPC", i, 0)) : Drive(r)
    /\ UNCHANGED <<chain, resumes>>

\* persist_sector_files (512-529): needs the persist instance, then asks
\* the sector manager to confirm the files.
PersistSectorFiles ==
    /\ Running("persist_sector_files")
    /\ IF ~sectors[Cur].persist
       THEN Drive(Crit)
       ELSE \E checked \in BOOLEAN :
               Drive(IF checked THEN Ok(Ev("Persist", Cur, 0)) ELSE Perm)
    /\ UNCHANGED <<chain, resumes>>

\* submit_persisted (531-551).
SubmitPersisted ==
    /\ Running("submit_persisted")
    /\ LET s == sectors[Cur] IN
       IF ~s.base \/ ~s.persist
       THEN Drive(Crit)
       ELSE \E checked \in BOOLEAN :
               Drive(IF checked THEN Ok(Ev("SubmitPersistance", Cur, 0)) ELSE Perm)
    /\ UNCHANGED <<chain, resumes>>

\* wait_seed (553-578): a seed, or a wait, or an invalid empty answer.
WaitSeed ==
    /\ Running("wait_seed")
    /\ IF ~sectors[Cur].base
       THEN Drive(Crit)
       ELSE \E r \in {Ok(Ev("AssignSeed", Cur, 0)), Retry} : Drive(r)
    /\ UNCHANGED <<chain, resumes>>

\* commit1 needs every sector's seed, commit2 the sector's C1 output.
Commit1 ==
    /\ Running("commit1")
    /\ Drive(IF \A j \in Idx : sectors[j].seed THEN Ok(Ev("C1", 0, 0)) ELSE Crit)
    /\ UNCHANGED <<chain, resumes>>

Commit2 ==
    /\ Running("commit2")
    /\ Drive(IF sectors[Cur].c1out THEN Ok(Ev("C2", Cur, 0)) ELSE Crit)
    /\ UNCHANGED <<chain, resumes>>

\* submit_proof (594-616): needs base and c2out.
SubmitProof ==
    /\ Running("submit_proof")
    /\ LET i == Cur
           s == sectors[i]
       IN  Submit(<<"proof", i>>, s.base /\ s.c2out, s.c2_re_submit,
                  Ev("SubmitProof", i, 0))
    /\ UNCHANGED resumes

\* check_proof_state (618-669).
CheckProofState ==
    /\ Running("check_proof_state")
    /\ LET i == Cur IN
       IF ~sectors[i].base
       THEN Drive(Crit)
       ELSE IF IgnoreProofCheck
       THEN Drive(Ok(Ev("Finish", i, 0)))
       ELSE \E r \in PollResult(chain[<<"proof", i>>], Ev("Finish", i, 0),
                                Ev("ReSubmitProof", i, 0)) : Drive(r)
    /\ UNCHANGED <<chain, resumes>>

\* exec returns Ok(None) for the finished batch and Err(TaskAborted) for
\* an aborted one: the driver stops.
Stop ==
    /\ worker = "running"
    /\ Dispatch(state).op \in {"none", "aborted"}
    /\ worker' = "done"
    /\ UNCHANGED <<state, sectors, chain, resumes>>

(***************************************************************************)
(* The operator resumes a halted thread at a state of its choice, fed to   *)
(* the driver as Event::SetState (lines 107-118): refused when it equals   *)
(* the current state, and changing no sector field.                       *)
(***************************************************************************)
Resume ==
    /\ worker = "halted"
    /\ resumes < MaxResumes
    /\ \E s \in ValidStates :
          /\ s # state
          /\ state' = s
          /\ worker' = "running"
          /\ resumes' = resumes + 1
    /\ UNCHANGED <<sectors, chain>>

(***************************************************************************)
(* The chain: a submission in the message pool is packed, then lands,      *)
(* fails, fails for good, or is given up.                                  *)
(***************************************************************************)
ChainStep ==
    /\ \E sub \in Submissions :
          \/ chain[sub] = "pending" /\ chain' = [chain EXCEPT ![sub] = "packed"]
          \/ /\ chain[sub] \in {"pending", "packed"}
             /\ \E r \in {"landed", "failed", "permfailed", "abort"} :
                   chain' = [chain EXCEPT ![sub] = r]
    /\ UNCHANGED <<state, sectors, worker, resumes>>

-----------------------------------------------------------------------------
Init ==
    /\ state = St("Empty")
    /\ sectors = [i \in Idx |-> EmptySector]
    /\ worker = "running"
    /\ chain = [sub \in Submissions |-> "none"]
    /\ resumes = 0

Exec ==
    \/ Allocate \/ AcquireDeals \/ AddPieces \/ BuildTreeD \/ AssignTicket
    \/ PC1 \/ PC2 \/ SubmitPreCommit \/ CheckPreCommit \/ PersistSectorFiles
    \/ SubmitPersisted \/ WaitSeed \/ Commit1 \/ Commit2 \/ SubmitProof
    \/ CheckProofState \/ Stop

Next == Exec \/ Resume \/ ChainStep

\* The thread runs its loop without being starved, and a submission on
\* chain is eventually settled.
Fairness == WF_vars(Exec) /\ WF_vars(ChainStep)

Spec == Init /\ [][Next]_vars /\ Fairness

-----------------------------------------------------------------------------
(* Every variable ranges over its type. *)
TypeOK ==
    /\ state \in States
    /\ sectors \in [Idx -> SectorRec]
    /\ worker \in {"running", "halted", "done"}
    /\ chain \in [Submissions -> ChainStates]
    /\ resumes \in 0 .. MaxResumes

-----------------------------------------------------------------------------
(***************************************************************************)
(* Safety.                                                                 *)
(***************************************************************************)

\* A step of the thread's own loop (not an operator's resume) that moves
\* the batch to state s.
Advances(s) == state' = s /\ state # s /\ resumes' = resumes

(* The batch records a sector's pre-commit as landed, or the sector as     *)
(* finished, only in a step where the sector manager reports that          *)
(* submission landed on chain (check_pre_commit_state, check_proof_state), *)
(* unless ignore_proof_check skips the proof poll.                         *)
ConfirmedOnlyIfLanded ==
    [][\A i \in Idx :
         /\ Advances(StI("PCLanded", i)) => chain[<<"pc", i>>] = "landed"
         /\ Advances(StI("Finished", i)) =>
               IgnoreProofCheck \/ chain[<<"proof", i>>] = "landed"]_vars

(* The pre-commits land in sector order and stay landed: until the        *)
(* operator resumes the thread at a state of its choice, a batch at        *)
(* PCLanded{i} has the pre-commits of sectors 0 .. i all landed on chain   *)
(* (exec polls sector 0 from PCSubmitted{batch_size - 1} and sector i + 1  *)
(* from PCLanded{i}, lines 305-306; a resubmission never replaces a landed *)
(* pre-commit).                                                            *)
LandedInOrder ==
    resumes = 0 /\ state.tag = "PCLanded" =>
        \A j \in 0 .. state.index : chain[<<"pc", j>>] = "landed"

(* Once a sector holds a ticket it keeps it: assign_ticket, run again after *)
(* a restart or a resume, reuses the persisted ticket rather than asking   *)
(* the sector manager for a new one (lines 411-421, 145-149).              *)
TicketStable ==
    [][\A i \in Idx :
         sectors[i].ticket # NoTicket => sectors'[i].ticket = sectors[i].ticket]_vars

(* assign_ticket hands one ticket to the whole batch: every sector holds *)
(* the same ticket, or none.                                               *)
TicketsUniform ==
    \A i, j \in Idx : sectors[i].ticket = sectors[j].ticket

(* The design (4.2): with committed-capacity sealing disabled, a sector    *)
(* for which the sector manager has no deals is not taken forward; the     *)
(* deals phase records deals for every sector it has passed.               *)
CCOnlyWhenAllowed ==
    DisableCC =>
        \A i \in Idx : state.tag = "DealsAcquired" /\ i <= state.index =>
                          sectors[i].deals = "Some"

(* The design (4.1): a phase index is the position of a sector of the      *)
(* batch, from 0 to batch_size - 1.                                       *)
IndexInBatch == state.tag \in IndexedTags => state.index \in Idx

(* The design (3): every sector of the batch is allocated before any phase *)
(* works on it; once the batch is past Empty, every sector has its base.   *)
AllocatedBeforeUse ==
    state.tag \notin {"Empty", "Aborted"} => \A i \in Idx : sectors[i].base

(* The design (4.1, 8): ReSubmitProof at index 0 rolls the batch back to   *)
(* C2Done at the last index, batch_size - 1.                               *)
ProofRollbackToLast ==
    [][state.tag = "ProofSubmitted" /\ state'.tag = "C2Done" /\ resumes' = resumes
         => state'.index = N - 1]_vars

(* Design 4.1, 4.3: the committed state only moves forward in the         *)
(* pipeline order, except that a resubmission after a failed landing rolls *)
(* the batch back within the submit phase or to the phase before; the      *)
(* thread stops only at the end of the pipeline.  The batch implements     *)
(* AbstractPipeline with its state as the stage and the thread as status.  *)
Abs == INSTANCE AbstractPipeline WITH stage <- state, status <- worker

FollowsPipeline == Abs!AbsSpec

\* The submission the current poll asks about.
PolledSub ==
    IF Dispatch(state).op = "check_pre_commit_state" THEN <<"pc", Cur>> ELSE <<"proof", Cur>>

\* The running thread polls a submission the chain holds failed.
PollSeesFailed ==
    /\ worker = "running"
    /\ \/ Dispatch(state).op = "check_pre_commit_state"
       \/ Dispatch(state).op = "check_proof_state" /\ ~IgnoreProofCheck
    /\ sectors[Cur].base
    /\ chain[PolledSub] = "failed"

(* Design 4.3: a Failed poll waits and emits a resubmit event: a poll that *)
(* finds its sector's submission failed on chain never halts the thread.   *)
FailedPollResubmits == [][PollSeesFailed => worker' # "halted"]_vars

(***************************************************************************)
(* Liveness.                                                               *)
(***************************************************************************)

\* The operations that poll the sector manager in a loop.
Polling == Dispatch(state).op \in {"check_pre_commit_state", "check_proof_state"}

(* A polling loop ends: once the thread polls a submission, it eventually  *)
(* leaves that state or stops, provided the chain settles every            *)
(* submission it holds.                                                    *)
PollingEnds ==
    \A s \in States :
        (worker = "running" /\ state = s /\ Polling) ~>
            (state # s \/ worker # "running")

(* The design (4.1, 5): once every pre-commit of the batch has landed, the *)
(* running thread goes on to persist the sectors' files: the batch reaches *)
(* Persisted or a later state (persist_sector_files, lines 512-529).       *)
PersistFollowsLanding ==
    (state = StI("PCLanded", N - 1) /\ worker = "running") ~>
        Pos(state.tag) >= Pos("Persisted")

(* The design (1, 5): the batch is driven to the end, Finished at the last *)
(* index or Aborted.                                                       *)
BatchCompletes ==
    <>(state = StI("Finished", N - 1) \/ state = St("Aborted"))

=============================================================================
