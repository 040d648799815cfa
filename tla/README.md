# TLA+ models of the damocles-worker batch sealing pipeline

This directory models the batch planner of damocles-worker,
`src/damocles-worker/src/sealing/sealing_thread/planner/batch.rs`. The planner drives a
fixed-size batch of sectors through the sealing pipeline: allocation, deals, pieces,
tree D, ticket, PC1/PC2, pre-commit submission and landing, persistence, seed,
C1/C2, proof submission and landing. A single worker thread does the driving, and it
talks to the sector manager over RPC.

## The system and its parts

| Part | Code | Module |
|------|------|--------|
| `enum State`, `enum Event`, `BatchPlanner::plan` | batch.rs 60-104, 228-285 | `BatchPlanner` (`States`, `Ev`, `Plan`) |
| `BatchPlanner::exec` dispatch table | batch.rs 287-324 | `BatchPlanner` (`Dispatch`) |
| executor operations `BatchSealer::*` | batch.rs 336-669 | `BatchSealer`, one action each |
| `Event::apply`, `Event::apply_changes` | batch.rs 107-211 | `BatchSealer` (`Commit`, `ApplyChanges`, `Resume`) |
| driver loop, `Failure` levels | not in the sources | `BatchSealer` (`Drive`, `Halt`), from the design |
| sector manager and chain | RPC peer | `BatchSealer` (`SubmitReply`, `SubmitEffect`, `ChainStep`) |
| design's pipeline order | spec 4.1, 4.2 | `PipelineDesign` (`DesignNext`) |
| what the planner promises: forward moves, rollbacks after a failed submission | spec 4.1, 4.3 | `AbstractPipeline` (`AbsSpec`) |

The parts interact in a strict cycle, one iteration per step. `exec` looks at the
committed state and picks an operation and a sector index. The operation calls the
sector manager and returns an event or a `Failure`. `plan` maps (state, event) to the
next state. `apply` refuses an unchanged state, then mutates the sector records and
commits.

**What a model step covers.** One `BatchSealer` executor action is one whole iteration
of that cycle: the RPC, the classification of the result, the plan and the commit.

**What Drive does with the result:**
- **Critical failure:** halts the thread (`worker = "halted"`).
- **Permanent failure or abort:** moves the batch to `Aborted`.
- **Temporary failure, `Idle`, or a Pending/Packed poll round:** changes nothing.
  These are stuttering steps.
- **Unexpected (state, event) pair, or a state plan leaves unchanged:** halts the thread.

**Crashes and lost answers.** A crash, or a lost RPC answer, between a submit and its
commit is the `lost` alternative of `Submit`. The sector manager has recorded the
submission, but the batch record has not changed. On restart the batch replays from
the committed state.

**Operator resume.** `Resume` models an operator resuming a halted thread at a state of
their choice (`Event::SetState`). The number of resumes is bounded by `MaxResumes`.

**Abstracted data.** Deals, tickets, seeds and proofs are small values. A sector record
keeps only the fields the pipeline tests (`SectorRec`).

**How the source is treated where it is unfinished.** The sources are unfinished, and
the model states how it handles each gap:
- **Placeholder operations.** `add_pieces`, `build_tree_d`, `pc1`, `pc2`, `commit1` and
  `commit2` are `todo!()`. They are modelled by the design's contract: each returns its
  phase's event.
- **persist_sector_files.** It does not compile. It is modelled by what its calls do:
  it requires `persist_instance` (otherwise critical), then takes the sector manager's
  `checked` answer.
- **Committing the new state.** `PlannerTrait::apply` is `todo!()`, and the state update
  in `Event::apply` is commented out. The model commits the planned state, as the
  design says the driver does.

**The commented-out PC2 arm.** `apply_changes` has its PC1 and PC2 arms commented out
(lines 151-160), so as written the PC2 outputs are dropped and no batch gets past
`submit_pre_commit` (run `completes`). The constant `ApplyPC2Outputs` enables the PC2 arm
(`pc2out` set for every sector). With it set to `TRUE`, the model reaches the polling,
resubmission and persistence code that the first bug hides. Every run says which value
it uses.

## The abstract pipeline and the refinement

`AbstractPipeline` states what the planner promises, with the sectors, the chain and
the RPCs left out. Its variables are the committed `stage` and the thread's `status`.
- **Advance:** the stage moves to any state `Ahead` of it: a later phase, or the same
  phase at a later sector.
- **Rollback:** after a failed submission, the stage moves back. From `PCSubmitted{i}`
  it goes to an earlier `PCSubmitted` or to `PC2Done`. From `ProofSubmitted{i}` it goes
  to an earlier `ProofSubmitted` or to `C2Done`.
- **Halt, stop, resume:** the thread may halt. It stops only at
  `Finished{batch_size - 1}` or `Aborted`. An operator may resume a halted thread at any
  valid state.

`BatchSealer` instantiates it as `Abs == INSTANCE AbstractPipeline WITH stage <- state,
status <- worker`, and `FollowsPipeline == Abs!AbsSpec` is checked as a `PROPERTY`.

**What the refinement leaves to other properties.** The refinement does not fix the
C2Done index of the proof rollback at index 0. Any index is allowed there, and
`ProofRollbackToLast` says which one the design wants.

**What the model shows about the rollback branches.** In practice exec polls only
sector 0 from `PCSubmitted{N-1}` and `ProofSubmitted{N-1}`. So the `index > 0` branches
of the resubmit arms (lines 250, 270) are dead code. A failure of a later sector is met
in `PCLanded{i-1}` and halts the thread (run `failed_poll`).

## Runs

All runs use `N` = 2 sectors (3 for the table run, 1 for the rollback run), two tickets
as model values, and `UsizeMax` = N+1. `UsizeMax` stands for `usize::MAX`: the code
only compares an index with `batch_size - 1`, and uses it to look a sector up.

| Run | Expect | What it shows |
|-----|--------|---------------|
| `MC_BatchSealer.cfg` | pass (1810 states) | `TypeOK` (among others, the zip of the allocate arm keeps every sector of the batch, even on a short allocation); `ConfirmedOnlyIfLanded` (PCLanded/Finished are recorded only in a step where the chain has the submission landed, despite lost answers, duplicates and resubmits); `TicketStable` (a ticket is never replaced after a resume); `PollingEnds` (every polling loop ends once the chain settles); `FollowsPipeline` (the batch implements `AbstractPipeline`). |
| `MC_PC2Applied.cfg` | pass (7207 states) | With `ApplyPC2Outputs`, the batch reaches the pre-commit polls, the resubmissions and persistence. It still implements `AbstractPipeline` and confirms only landed submissions. `LandedInOrder`: until the operator resumes the thread, a batch at `PCLanded{i}` has the pre-commits of sectors 0..i all landed. |
| `MC_FailedPoll.cfg` | violation | `FailedPollResubmits`: a pre-commit of sector 1 that fails on chain after sector 0's landed halts the thread. `plan` takes `ReSubmitPC` only from `PCSubmitted` (line 249). |
| `MC_PersistBlocked.cfg` | violation | `PersistFollowsLanding`: with every pre-commit landed, `persist_sector_files` fails critically. It requires `persist_instance` (line 515), which only its own `Persist` event sets. |
| `MC_CCDisabled.cfg` | violation | `acquire_deals` takes a deal-less sector forward exactly when `disable_cc` is set (line 392). |
| `MC_DealsOff.cfg` | violation | With deals disabled the state becomes `DealsAcquired{batch_size}` (line 369). |
| `MC_PartialAlloc.cfg` | violation | A short allocation commits `Allocated` with sectors that have no base (line 123). |
| `MC_Completes.cfg` | violation | Even when the chain lands everything, the batch never finishes. PC2 outputs are dropped by the catch-all at line 209, so `submit_pre_commit` fails critically. |
| `MC_ProofRollback.cfg` | violation | `ReSubmitProof{0}` goes to `C2Done{0 - 1}`, because the planner's `batch_size` is the derived default 0 (line 274). |
| `MC_PlannerTable.cfg` | violation | `exec` and `plan` together differ from the design's pipeline at PieceAdded, TreeDBuilt, Persisted, PersistanceSubmitted and C2Done. |

**Bounds.** Each bound is there so that a specific case actually happens:
- **Two sectors** make both the "next sector" step and the "last sector" step of every
  indexed phase happen.
- **Two tickets** make a replaced ticket observable.
- **Three resumes** reach the states beyond the PC2 halt, including a second proof
  submission and a resubmit. In `pc2_applied` they take the batch past the
  persistence halt as well.
- **No resumes** in the two new violation runs, so that what they show happens without
  an operator.
- **The chain can take every on-chain state**, including `none` (NotFound) and a lost
  answer.

**Fairness.** `WF_vars(Exec) /\ WF_vars(ChainStep)`:
- **Exec.** The thread runs its loop with nothing else to do, so it cannot stop forever
  while an operation is enabled.
- **ChainStep.** The chain eventually settles a submission it holds. This is the
  sector manager's promise; `PollingEnds` is stated under it.
- **No fairness on `Resume`.** An operator need not act.

`CHECK_DEADLOCK FALSE` is used because the thread really stops: when it is done, and
when it halts on a critical failure.

## Proofs

`BatchSealerProofs.tla`, `RefinementProofs.tla`, `OnChainProofs.tla` and
`FindingProofs.tla` are checked by `tlapm`. The
theorems hold for every value of the constants, with `N \in Nat \ {0}`, `PlannerBatchSize \in 0..N` and `UsizeMax >= N`.

- **`TypeCorrect`: `Spec => []TypeOK`.** `TypeOK` is inductive as it stands.
  - The argument rests on two lemmas. `DispatchIndex` says `exec` always picks a sector
    inside the batch. `PlanType` says `plan` returns a state, `Unexpected` or a panic.
  - Every event an operation builds has an index in `0..N` (`GoodResult`), and
    `DriveType` turns that into typed primed variables.
  - The proof of `NextType` has one step per action.
- **`TicketStableHolds`: `Spec => TicketStable`.** This needs the strengthening
  `TicketsUniform`: every sector holds the same ticket. TLC checked it on the pass
  run's instance before it was proved.
  - `assign_ticket` reuses sector 0's ticket when one is set, which is then everyone's
    ticket. Otherwise no sector has one, and it gives all of them a fresh one
    (`AssignTicketStep`).
  - Every other step keeps every ticket (`OtherStepsKeepTicket`, resting on
    `ApplyTicket` and `DriveTicket`).
- **`ConfirmedHolds`: `Spec => ConfirmedOnlyIfLanded`.** No strengthening beyond
  `TypeOK` is needed.
  - `ExecVouched`: every exec step drives a result that is `Vouched`. Only the polling
    operations build `CheckPC`/`Finish` events, and only when the chain holds the
    submission landed. A submit returns its own event.
  - `PlanLanded`: `plan` reaches `PCLanded`/`Finished` only from those events, at their
    index.
  - `DriveLanded` combines the two. `Resume` is excluded because it counts a resume.

- **`RefinementHolds`: `Spec => FollowsPipeline`** (`RefinementProofs.tla`).
  - **The inductive invariant.** `RefInv` is `TypeOK`, plus two facts:
    - `NoPersist`: no sector holds a persist instance.
    - `FinishedInBatch`: a `Finished` index lies in the batch.
  - **Why NoPersist is needed.** Without it, `submit_persisted(0)` from
    `Persisted{N-1}` would plan `Persisted{0}`, a backward move the abstract spec
    forbids.
  - **Why NoPersist holds.** The only event that sets a persist instance is built by
    `persist_sector_files`, and only once the instance is already set.
  - **The events of a step.** `OpEvents` lists, for each operation exec dispatches, the
    events it can return. `ExecDrives` shows that every executor step drives one of
    them.
  - **The case split.** `StepMoves` goes through the 27 cases of (state tag, last index
    or not). It shows that planning such an event is a forward step, an allowed
    rollback or a halt.
  - **The driver.** `DriveAbs` maps what the driver does onto `Advance`, `Rollback`,
    `HaltThread` or a stutter.
  - **Stop and Resume.** `Stop` maps to `StopThread` through `FinishedInBatch`.
    `Resume` maps to `ResumeThread`.

- **`LandedInOrderHolds`: `Spec => []LandedInOrder`** (`OnChainProofs.tla`).
  - **The strengthening.** `PCLandedInBatch`: without a resume, `PCLanded` names a
    sector of the batch.
  - **Landed records stay landed.** `LandedKept`: a chain step settles only pending or
    packed records, and a submit leaves a landed record as it is.
  - **Where the step comes from.** `LandedFrom`, resting on `DispatchCheckPC` and
    `OpEventsCheckPC`: a step to `PCLanded{i}` is a poll of sector `i` made from
    `PCSubmitted` (with `i = 0`) or from `PCLanded{i-1}`. `ConfirmedNext` gives that
    sector's landing. The invariant gives the prefix before it.
  - **TLC agreement.** TLC checked the strengthening `LandedInv`
    as an invariant on the `pc2_applied` constants.
- **The findings for every batch size** (`FindingProofs.tla`). The violation runs show
  each finding on one instance; these theorems show them for all constants.
  - **`PersistAlwaysFails`: `Spec => [][PersistSectorFiles => worker' = "halted"]_vars`.**
    It rests on `NoPersist` from `RefInv`.
  - **`NeverPastLanding`: `Spec => []BeforePersist`.** Without an operator resume, the
    batch never gets past `PCLanded` (or it is `Aborted`). The inductive invariant is
    `RefInv /\ BeforePersist`. `PlanBeforePersist` says that `plan` leaves the states
    up to `PCLanded` only on a `Persist` event, and `NoPersist` rules that event out.
    TLC checked this invariant too, on the same constants.
  - **`FailedPollUnexpected`.** For every `i` in `0..N-2`, `exec` polls sector `i+1`
    from `PCLanded{i}`, and `plan` maps its `ReSubmitPC` to `Unexpected` (run
    `failed_poll`).
  - **`ProofRollbackMisses`.** Unless the planner's `batch_size` equals `N`, the proof
    rollback does not go to `C2Done{N-1}` (run `proof_rollback`).
  - **`DealsOffIndexPastBatch`** (run `deals_off`) and **`CCDisabledAcceptsNoDeals`**
    (run `cc_disabled`).

**What stays with TLC.** The prover cannot handle some properties:
- **Liveness.** `PollingEnds`, `BatchCompletes` and `PersistFollowsLanding` need
  fairness and `ENABLED`.
- **The violated properties themselves.** They are false, so there is nothing to prove.
  Their causes are proved in `FindingProofs.tla`.
- **The `partial_alloc` and `planner_table` findings.** They are shown only by TLC.

## Not modelled

- **The piece HTTP fetcher** (`vc-processors/.../fetcher/http.rs`). It is pure I/O.
- **The vc-worker daemon** (`daemon.rs`). Its body is `unimplemented!()`.
- **The RocksDB store behind `Saved<Sectors>`.** A commit is taken as atomic with its
  driver step.
- **The proving backend** behind the `todo!()` operations.
- **Which allocation, which PC2 output.** `base`, `pc2out` and `c2out` record only
  that the field is `Some`. A resume to `Empty` re-runs `allocate`, which replaces the
  base with a new allocation (line 131), and the chain is keyed by sector index. So
  the model cannot tell whether a record on chain belongs to the sector the batch
  holds now. No property claims that it does.

## Plan for later sittings

- Add ghost state for pieces added and tree D, so that the dropped `AddPiece` arm
  becomes observable.
- Give `base` an allocation identity and let the chain record which allocation and
  ticket each submission carried. Then a resume to `Empty` after a submission (line
  131) can be checked against the records on chain.
- Decide, from the sector manager's code, what it answers to a non-reset submission of
  a failed pre-commit. The model today answers `DuplicateSubmit`; with that pinned down,
  the resubmit flags (line 454) can be checked.
