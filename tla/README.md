# Agent Space in TLA+

A verification project for the server of Agent Space (`src/server`): models of
its execution core in TLA+, instances that TLC checks, and theorems that TLAPS
proves. Everything is translated from the TypeScript source; `PROJECT.json`
names, for every definition, the lines it stands for.

## 1. The system

Agent Space is a self-hosted server (Fastify, PostgreSQL) on which people and
schedules start *runs* of AI agents, and the results become proposals,
artifacts and knowledge. One Node.js process serves HTTP, runs one job worker
loop and a set of periodic tasks; all durable state is in PostgreSQL, and
processes meet only in its rows. Concurrency is therefore the interleaving of
SQL statements and transactions of the worker loop, the periodic loops and the
HTTP requests in flight, plus crashes and restarts of the process.

| Component (under `src/server/src/modules`) | State it keeps | Operations | What is hard | What makes it correct |
|---|---|---|---|---|
| **Job queue and worker** (`jobs`) | `jobs` rows: status, claimed_by, attempts, heartbeat | enqueue, claim, start, heartbeat, complete, fail, cancel, reclaim | late workers, lost replies, crash between claim and settle, late heartbeats | a claim fences older ones off; a settled row stays settled; every job settles; alerts only for exhausted jobs |
| **Run records** (`runs/repository`, `runs/supervisor`) | `runs`, `run_attempts`, `run_supervisor_decisions`, `run_finalizations` | mark running, terminal, cancelling, waiting; requeue, hold, resume, degrade, recover | guarded updates of two rows from many places | run and latest attempt agree; retries are decided and capped; cancel is final |
| **Run execution** (`runs/orchestrationService`, `finalizationService`, `agentRunHandler`, `routes`) | `run_execution_locks`, a process's local reads | execute, cancel, finalize, supervise, resume, abandon, recover at start-up | several executors and finalizers of one run; lock sweeps; stale reads; lost replies and failing clean-up; crash anywhere | whoever executes holds the lock; results land on their attempt; running runs are attended; every retry is dispatched |
| **Automations** (`automations`) | `automations`, grants, `automation_runs`, cursor in `scheduler_tasks` | create, patch, scan and fire, fire by hand, record fire, advance | read-then-upsert of the cursor; budget races; failing fires | a slot fires once; budget holds; the cursor follows the row; a due automation is handled |
| **Periodic scheduler** (`scheduler`) | in-process loops | register, start, stop, run | stop during start, a failing task | each task runs sequentially for ever |
| **Workflow executions** (`automations/workflowExecutionService`, `execution`) | `workflow_executions`, nodes, links to runs, the coordinator run | start, reconcile, approve or reject a checkpoint, recover, archive | reconciled by every finalizer, approval and recovery pass at once; child runs come back after they ended; archive in between | a node is dispatched once, after its dependencies, on evidence; the end is final and agrees with the coordinator |
| **Plans** (`plans`, `execution`) | `plans`, `plan_versions`, nodes, the coordinator run | propose, revise, review, execute, reconcile, verify | stale reviews, revision against execution, reconciles after the end | only a reviewed current version runs; completed means whole |
| **Agent groups** (`agentGroups`, `runs/managedAgentDelegationTools`) | `agent_run_groups`, `run_delegations`, messages, what a waiting run depends on | send, pause, delegate, wait, report an end, resume | waits against ends; reports that read and write later; policy answers used later; ends nobody reports | who waits is woken once all it waits for has ended, and not before; delegations follow their runs; the budget bounds the tree |
| **Proposals and code patches** (`proposals/applyService`, `workspaces/codePatch`, `snapshotStore`) | `proposals`, `code_patch_snapshots`, the files of a workspace | accept, reject, apply, put back, roll back, prune | files outside the transaction; failures and a crash in the middle; two patches of one file | a file holds a patch only if it was accepted; all of a patch or nothing |
| **Approval grants** (`policy/actionApprovalGrantService`) | `action_approval_grants`, `proposal_approvals` | create, expire, consume, revoke | concurrent consumers; a revoke in between; roll back after consumption | uses are counted exactly, within the limit; a revoked grant approves nothing |
| **Providers, routing, verification** | provider rows, cooldowns, credential leases | invoke, retry, fall back, lease | timeouts and fallbacks | leases end, no secret outlives its run |
| **Sources, project research, evolution** | connections, cursors, operations, experiments | scan, extract, reconcile, promote | restarts of long operations | cursors never skip, one active operation |
| **Memory, knowledge, retrieval, context** | relational rows and indexes | propose, apply, index, compile | mostly CRUD | — |
| **Sessions, usage, identity, spaces, projects, plugins, system, web, deployer** | see `PROJECT.json` | | mostly CRUD and I/O | — |

How they interact: an automation (or a route, a task, a workflow, a delegation)
creates a run row and enqueues an `agent_run` job. The worker claims the job
and calls `executeRun`, which takes the run's row in `run_execution_locks`,
marks run and attempt running, calls the adapter, writes the terminal status,
finalizes (evaluation, supervision: retry with a new attempt and a new job, or
a hold for review) and releases the lock. HTTP routes call the same functions.
At start-up and periodically the worker sweeps locks, reclaims jobs and
recovers runs that a dead process left.

Hazards are listed with their lines in `PROJECT.json` ("hazards"); the
properties below are there for them.

## 2. Modules

| Module | Models | Interacts with |
|---|---|---|
| `LeasedWork` | The promise of the job queue: a job is leased at most `max_attempts` times, only the current lease may answer it, one settlement. | implemented by `JobQueue`, used by `RunExecution` |
| `JobQueue` | `jobs/repository.ts`, `jobs/worker.ts`, `jobs/workerRuntime.ts`, the cancel route | refines `LeasedWork` |
| `RunRecords` | every statement that moves a run's or attempt's status, with its WHERE guard | abstract specification of `RunExecution` |
| `RunExecution` | the processes that issue those statements: worker, HTTP requests, start-up recovery; the execution lock; the jobs through `LeasedWork` | EXTENDS `RunRecords`, INSTANCEs `LeasedWork` |
| `AutomationSchedule` | one schedule automation: row, grant, cursor, scheduler loop, fires by hand, patches, row lock and budget | |
| `DependencyGraph` | The promise of a graph execution: a node starts once, when all it depends on is done; the graph ends once, and then starts nothing. | implemented by `WorkflowExecution` |
| `NodeRuns` | the nodes of a graph, the child run of each, the status rules of `execution/executionGraphScheduler.ts` and the reconcile transaction, as far as plans and workflow executions share them | used by the next two |
| `WorkflowExecution` | one workflow execution with its coordinator, its project and its automation: `automations/workflowExecutionService.ts`, the checkpoint's applier, the recovery, the project's archive | EXTENDS `NodeRuns`, refines `DependencyGraph` |
| `PlanExecution` | one plan, its versions, their reviews and its execution: `plans/repository.ts`, the appliers, the integration verification | EXTENDS `NodeRuns` |
| `ProposalReview` | accept, reject and roll back of code patches with the files they write, and acceptance on a grant: `proposals/applyService.ts`, `workspaces/codePatch.ts`, `snapshotStore.ts`, `policy/actionApprovalGrantService.ts` | |
| `AgentGroup` | the runs of one group, their delegations, waits and reports: `agentGroups/service.ts`, `lifecycleProjector.ts`, `runtimeDelegationMaterializer.ts`, `runs/managedAgentDelegationTools.ts` | |
| `MC…` | constants for TLC | |
| `JobQueueProofs`, `RunExecutionProofs`, `AutomationScheduleProofs`, `AgentGroupProofs`, `ProposalReviewProofs` | theorems and their lemmas; `RunExecutionProofs` holds those of `RunRecords` too | |
| `NodeRunsProofs` | what every graph of `NodeRuns` keeps, one lemma per step | used by the next two |
| `WorkflowExecutionProofs`, `PlanExecutionProofs` | theorems and their lemmas | |

Conventions. An action is one SQL statement, or one transaction whose
statements nobody can come between, with the branch the code takes on its
result; what a process keeps between two statements is in its `pc`, `read`,
`job`, `num` and similar variables. Error codes are reduced to what the code
distinguishes (retryable or final; held by policy or by the supervisor). A
definition named `X_Slip` is a *mutant* of `X`: the code with a plausible bug.
No specification uses it; `PROJECT.json` pairs each with the property that
must fail when it takes the place of `X`.

### State and code

* **`JobQueue`.** `status`, `claimedBy`, `attempts`, `result` are columns of
  `jobs`; `stale` says that the heartbeat is older than the limit; a worker's
  `pc` and `held` are the locals of `processOne`. `Claim`, `Start`,
  `Heartbeat`, `Complete`, `Fail`, `Reclaim`, `CancelJob` are the statements;
  `ClaimReplyLost`, `ReclaimReplyLost`, `StartFails`, `CompleteFails` and
  `FailFails` are the exceptions, with the path of their catch blocks. The code tells claims
  apart by `claimed_by` alone (`Owns`); `claim`, the attempt count at the claim,
  is history that the properties compare with the row.
* **`RunRecords`.** `status` and the hold of the run, and for each attempt its
  status, origin and decision. Helpers `SetRun`, `SetLatest`, `AddAttempt` are
  the halves of the CTEs; one action per repository method.
* **`RunExecution`.** `lockBy`, `lockJob` are the row of
  `run_execution_locks` (`lockBy` is who inserted it; the table has a
  `worker_id`, which neither the release nor the sweep compares). `pc` follows `executeRun` (`enter`, `lock`, `locked`, `working`,
  `unlock`, `leave`), `finalize` (`read`, `number`, `insert`, `supervise`),
  `cancelRun` (`confirm`), resume (`resume`, `enqueue`) and the start-up
  (`boot`, `orphans`, `reclaim`). `read` is the run as read before, `num` the
  attempt dispatched or being finalized. A statement may throw anywhere: where a
  catch block goes on, that is a branch (`EnterFails`,
  `Throw`, `InsertFails`); where nothing is there to repair it, it is a `Fault`,
  and counted. These are the claim (`TakeJobReplyLost`), the lock
  (`AcquireReplyLost`), the terminal write (`WriteReplyLost`, after which the
  catch block runs: `caught`), the catch block itself (`CatchFails`), the finally
  block (`ReleaseFails`) and the settlement of the job (`LeaveFails`,
  `FailJobFails`), applied or not where that differs. They leave leased jobs
  nobody holds, locks nobody owns and running runs nobody works on.
  `overtaken` and `dropped` are history: whether the clean-up of a stuck job has
  taken lock or run from an execution under way, and the attempts whose
  executor died or could not write how they ended.
* **`AutomationSchedule`.** `task` is the row of `scheduler_tasks`, whose
  `next_run_at` is NULL (`Never`) or a time; `read` holds what a process read
  of row and cursor; `locked` is the `FOR UPDATE` lock of the automations row.
  `fired`, `repeated` and `torn` are history: the slots fired, those fired
  more than once, and whether the cursor was ever written from a read that
  was stale by then. `Commit` is the fire transaction with the advance in it.
  `NextSlot` stands for `computeNextRunAt`, including that it throws when it
  finds no slot within two years.
* **`NodeRuns`.** `node`, `proposal` and `links` are columns and rows of the
  graph; `run`, `attempt`, `verdict`, `passed` and `stage` are what a graph can
  tell of the latest run of each node: `runs.status`, the attempt number, its
  latest and all its evaluations, and how far the finalizer has come. A run is
  `lost` when it is queued and no job is on its way to it (`LoseJob`: the job
  was completed on `duplicate_execution`, or a resume committed and never
  enqueued), and `stale` when it is running without an executor
  (`LoseExecutor`); a request may start the one, a restart recover the other. A
  finalizer that crashes or is late shows as these steps being taken late, by
  someone else, or never. `draft[p]` is an open reconcile transaction: the
  nodes as it has projected and read them. `OpenDraft` takes the locks and
  reads, `Commit` decides and writes from what was read, `RollBack` is every
  failure; runs are not locked and move in between.
* **`WorkflowExecution`.** `exec`, `root`, `project`, `automation` are the
  status columns of the four rows. `BeginForRun`, `BeginRecovery` and
  `BeginApproval` are the callers of `reconcile`; `Archive` is
  `pauseArchivedProjectActivity`. `crowded` says that the fifty executions
  the recovery takes at a time are all older than this one; nothing in the code
  moves them out of the way, so `Crowd` sets and clears it freely.
* **`PlanExecution`.** `version[v]` and `review[v]` are the status of a version
  and of its proposal; the nodes are those of the current version.
* **`ProposalReview`.** `req[r]` is a request under way, with the proposal whose
  row it has locked; a patch is applied file by file (`ReadFile` compares and
  keeps the preimage, `WriteFile` renames), put back file by file (`UndoFile`),
  with the row's lock or, after a COMMIT that threw, without it (`undo_late`):
  COMMIT may not have been applied (`CommitFails`), or only its reply was lost
  (`CommitReplyLost`), which the code cannot tell apart.
  A file's content is the patch that wrote it, `Base` or `Absent`. `decided` is
  history: what the committed decisions make of each file. `muddled` and
  `leaked` are history too: the files and patches about which the code
  promises nothing, because a crash, a failed repair, the lost reply of a COMMIT
  or a second request on the same file left them.
* **`AgentGroup`.** `status` and `parent` are columns of `runs`, `delegation` and
  `rows` the status and number of `run_delegations`, `depends` the
  `depends_on_run_ids` of a waiting run. `pc` follows `executeRun` as far as the
  group can tell; `want` is what the wait tool read before the run is parked.
  `due` says that an end is about to be reported, `draft` is the report's open
  transaction: `Collect` reads, `Report` writes. `ended`, `silent` and `missed`
  are history: which runs have ended once, which ends nobody reports, and
  which waiting runs a report has passed over.

## 3. Runs

| Run | Shows | Size |
|---|---|---|
| `JobQueue_all` | Types; no pending row is stranded and only exhausted jobs are announced (`ExhaustionIsSound`); a worker owns a row only through its current claim (`OwnerHoldsCurrentClaim`); settled rows are final (`SettledIsFinal`); refinement of `LeasedWork` (`ImplementsLeases`); every job settles under fairness (`EveryJobSettles`). | 2 workers, 2 jobs, 182,430 states |
| `RunExecution_all` | With a crash and restart, or one reply lost or statement failing, at any point: whoever executes holds the lock (`LockFollowsExecutor`) and results land on their attempt (`ResultsLandOnTheirAttempt`), unless the clean-up of a stuck job has overtaken the execution; a running run has its executor unless that executor died or could not write how it ended (`RunningRunsAreAttended`); types (`ExecTypeOK`); and every step is a step of `RunRecords` (`RecSpec`), which carries the theorems of `RunRecords` over: run and latest attempt agree except where a statement writes only one (`LatestAttemptMirrorsRun`), retries and holds have a decision and retries are capped (`SupervisionIsRecorded`), a run leaves a terminal status only by its decision (`ReturnsAreDecided`), `CancelledIsFinal`. | 1 worker, 1 request, 1 job with two tries, up to 3 attempts, 1 fault, 2,614,630 states |
| `RunExecution_retry` | *Violated:* `RetriesAreOnTheirWay`, see findings. | |
| `RunExecution_duplicate` | *Violated:* `OneAdapterAtATime`, without a crash, see findings. | |
| `AutomationSchedule_all` | `RunsWithinBudget`, `SlotsFireOnce`, `ActiveIsScheduled`, and under fairness `DueIsHandled`, with a crash and failures of every step. | 140,032 states |
| `AutomationSchedule_slot` | *Violated:* `NoSlotFiresTwice`, see findings. | |
| `WorkflowExecution_all` | However two reconcilers interleave and however runs are retried, held, resumed or cancelled: a node gets one run (`OneRunPerNode`), after what it depends on and on evidence (`NothingIsSkipped`); execution and coordinator end alike (`EndsAgree`); an archive leaves nothing open but a run that is supervised again (`ArchivedIsQuiet`); refinement of `DependencyGraph` (`ImplementsGraph`), which starts nothing after the end. | 4 nodes, symmetric reconcilers, 1,453,635 states |
| `WorkflowExecution_ends` | Under fairness the execution ends or, again and again, waits for somebody (`ExecutionsEnd`). | 3 nodes, 1 reconciler, 1,158,363 states |
| `WorkflowExecution_archive` | *Violated:* `ArchivedProjectsRestartNothing`, see findings. | |
| `PlanExecution_all` | Only the current, reviewed version runs, whatever is revised in between (`OnlyReviewedPlansRun`); a completed plan has evidence for every node (`CompletedPlansAreWhole`), although reconciles go on after its end. | 4 nodes, 2 versions, symmetric reconcilers, 1,824,031 states |
| `ProposalReview_all` | A file holds a patch only if the patch was accepted (`OnlyAcceptedPatchesStand`); accepts, failures and rollbacks are all or nothing (`FilesFollowTheDecisions`); grants count their uses exactly (`GrantsCountTheirUses`); a revoked or replaced grant approves nothing (`RevokedGrantsApproveNothing`). | 3 patches of 2 files, 2 actions, 3 grants, symmetric requests, 1,294,685 states |
| `AgentGroup_all` | While runs fail, are retried, reviewed, abandoned and cancelled, and the group is paused: a waiting run has a report on the way as soon as all it waits for has ended (`WaitersAreWoken`), and comes back only then (`WakeUpsAreEarned`); delegations follow their runs (`DelegationsFollowTheirRuns`); depth and fan-out stay within the budget (`TreeIsBounded`). | 3 symmetric runs, 767,348 states |

The symmetry sets permute requests, reconcilers or runs, which only appear as members
of their set and as indices; no run with symmetry checks liveness.

### Bounds, and why they are enough

* Two workers and two jobs let a stale worker meet its successor on one job
  while it could also hold the other; one job with `max_attempts` 2 and one
  with 1 (what the supervisor enqueues) reach both sides of every comparison
  with `attempts`.
* Attempts are capped at 2, and `RunExecution_all` has room for 3 rows, so
  that the statements that pass the cap (the dispatch after a dependency
  pause) show.
* `RunExecution` has one server, because the code runs one worker loop per
  process and one process per deployment; a live worker's own job is never
  reclaimed since the loop is sequential and heartbeats are taken to arrive.
  One request beside the worker makes two executors, or an executor and somebody
  who cancels, finalizes, resumes or abandons its run, one thing after the
  other; `RunExecution_duplicate` has two requests and no crash. A crash gives
  every restart, and a second adds only repetitions of recovery. A fault
  (`MaxFaults`: the crash, or a statement) leaves one stray job, lock or run,
  and the sweep, the reclaim, the executors and the requests then meet it in
  every order; the job's two tries let it be reclaimed both ways. More of these
  together is beyond what TLC explores in minutes with every property at once.
  The three properties about lock and executor were also checked with two
  requests, one try and no crash (4,009,525 states), and the theorems cover any
  number of crashes, faults, requests and jobs.
* `AutomationSchedule` has one request at a time beside the loop, which is
  what reads, waits and overwrites; the theorems cover any number. Two runs of
  budget put the boundary inside the behaviour, two ticks give slots missed
  while the loop was busy (`AutomationSchedule_slot` has three), and the cron `"rare"` has a slot out of the reach
  of `computeNextRunAt`.
* The graph of `WorkflowExecution_all` and `PlanExecution_all` has every kind
  of node, a node with two dependencies, and two nodes that are ready together;
  runs have one retry and one resume (`MaxAttempts`, `MaxRows`). A reconcile
  holds the locks from `OpenDraft` to `CloseDraft`, so two reconcilers show
  what a second one can do in between (nothing); the liveness run needs one.
  Two versions of a plan let a review be late for its own version and early for
  the next.
* `ProposalReview` has two patches of the same file side by side, one on top
  of the first and one that also creates a file, so that preimages match,
  mismatch and are taken away; two requests are what races for a row or a file.
  Proposals that are pending together come in three sets (`Queues`): the three
  patches, the two actions, and one of each, because patches and actions meet
  only in `proposals.status`. One snapshot is kept (`MaxCount`), so the second
  accept prunes the first. Each grant may be used once and has a wider or a
  later one beside it.
* `AgentGroup` has three runs: a parent with two children, or a run of a message
  beside a delegation, which is what waits for two others and what a budget of
  depth 1 and fan-out 1 (two rows, as the code compares) refuses a third. Two
  executors may run at once, so that somebody is always able to interfere with
  a report. What disturbs (`Incident`) weighs one or two, and two in sum are
  explored: two cancels, or a failed child and a pause, or one crash.
* Clocks, attempts, rows and crashes are bounded by named constants
  (`MaxTime`, `MaxAttempts`, `MaxRows`, `MaxCrashes`, `MaxFaults`, `MaxRuns`,
  `MaxVersions`, `MaxCount`, `MaxIncidents`, `MaxExecutors`).

`CHECK_DEADLOCK FALSE` appears where the system really may stop: in the runs of
the graphs, where an ended or abandoned execution has nothing more to do, of
`ProposalReview`, where every proposal may be decided and every grant used, and
of `AgentGroup`, where all runs may have ended or wait for each other. Elsewhere TLC's deadlock check is
on, and is part of what the runs show.

### Fairness

* `JobQueue!FairSpec`: the worker loop goes on (weak fairness of each of its
  steps), handlers return or throw because adapters carry timeouts, statements
  do not fail for ever, and rows nobody attends to grow stale. The reclaim
  needs strong fairness: when it throws, the loop returns to it before it polls
  again. Claims of a specific job, cancels and crashes get none.
* `AutomationSchedule!FairSpec`: the loop's timer fires again and again;
  transactions commit or roll back; the write after a failed fire, the read
  of the row and the wait for the row lock succeed eventually (strong
  fairness, because each may fail or be pre-empted, and PostgreSQL hands row
  locks over in turn). Nobody is obliged to send requests, nor the clock to
  tick.
* `WorkflowExecution!FairSpec`: a queued run whose job is on its way is taken by
  the worker, and a run with an executor ends or pauses; but a run may lose
  its job (finding 2, or a resume without its enqueue) or its executor, and
  then nobody is obliged to take it. The recovery loop comes round while the
  coordinator waits and older executions do not fill its batch, and its
  transaction does not fail for ever (strong fairness of its beginning and its
  commit, because other transactions hold the locks in between and a rollback
  may intervene). Nobody is obliged to review, to approve, or to finalize a run
  whose finalizer died, nor do older executions have to move on:
  `WaitsForSomebody` names those waits, and `ExecutionsEnd` says there are no
  others.
* `RunExecution`, `PlanExecution`, `ProposalReview` and `AgentGroup` are checked
  for safety (and refinement) only.

## 4. Theorems

TLC's instances are small; the theorems hold for every value of the constants
that satisfies the modules' ASSUMEs. These are: nonempty or disjoint sets of
names, natural numbers as bounds, `NextSlot` ahead of its argument or `Never`,
a finite set of runs and a finite set of actions where something is counted,
and for a patch that its operations are on distinct files and none of them
replaces the patch's own content. The larger inductive invariants were checked by
TLC before they were proved: `Steady` (on
`RunExecution_all`, 2,614,630 states), `IInv` (1,453,635),
`PlanInv` (1,824,031), `ReviewInv` (1,294,685).

* `JobQueueProofs`. `TypeCorrect`, `Fencing`, `NothingStranded`, `Settlement`
  and `Refinement`. That a worker owns a row only through its current claim is
  not inductive alone: `FencingInv` adds that attempts stay within
  `max_attempts` and that a claim held by a worker was counted (its number is
  at most the row's), so that each new claim differs from all old ones.
  `QueueInv` adds what the alert list of a worker may hold. The refinement
  maps each action to a step or stutter of `LeasedWork`, one lemma per
  statement; liveness is not part of it.
* `RunExecutionProofs`, about the records. `RecordsTypeCorrect`, `Mirror`,
  `SupervisionIsSound`, `DecidedReturns`, `CancelIsFinal`. `RecInv` is the
  conjunction of the invariants: that a retry has a decision needs the mirror
  (which statement may find which attempt), and the mirror needs the types.
* `RunExecutionProofs`, about the processes. `ExecutionTypeCorrect` and
  `ExecutionImplementsRecords` (`ExecSpec => RecSpec`): with any number of
  workers, requests, jobs and crashes, every step is a statement `RunRecords`
  allows or leaves the records alone, so that the theorems about the records
  hold of the processes (`ExecutionMirrors`, `ExecutionSupervisesSoundly`,
  `ExecutionDecidesReturns`, `ExecutionKeepsCancelled`). `ExecInv` adds to
  `RecInv` and the types that the reason a finalizer has read is one the run
  has failed for; without it a decision could be recorded that no failure
  justifies.
* `RunExecutionProofs`, about lock and executor. `LockIsExclusive`,
  `ResultsAreOnTime` and `RunningIsAttended` hold for any number of crashes and
  faults. The sweep of a lock without job, and the reclaim that fails a run
  somebody works on, are the only things that come between an execution and
  its lock or its attempt: `overtaken` remembers them until nobody executes, and
  the first two properties are about every state in which it is false. `Steady`
  is the invariant, and its parts hold one another up: the lock lets one
  executor in, so its run can only be cancelled under it (`OwnTheirRun`); the
  job of an executor is attended, so that the sweep takes the lock only from one
  without a job; and each place in the code is reached by the operation it
  belongs to (`PlacesFit`).
* `AutomationScheduleProofs`. `ScheduleTypeCorrect`; `BudgetHolds`, by
  `BudgetInv`: whoever is past the lock holds it, and whoever has passed the
  count still has room, because only the holder adds runs;
  `ScheduleIsSound`, by `SlotInv`: fired slots and the slot the loop works on
  are not after now, and the cursor of a direct target is beyond every fired
  slot, so a slot that is due has not been fired. `WriteKeeps` is the lemma
  about the upsert: from a read that is still true, writing the old value,
  one ahead of the clock, or none, keeps the schedule.
* `NodeRunsProofs`. `GraphInv` is what plans and workflow executions share: the
  types, at most one run per node, no node before what it depends on, that runs
  exist exactly for dispatched tasks (`RunsOK`), and what an open reconcile may
  rely on (`DraftsOK`: one draft at a time, and each node in it is the node's own
  status or what its run or an approval has made of it). Without `DraftsOK` a
  commit could dispatch from a draft that others have made stale; it is
  inductive because every writer of the nodes waits for the draft, and the
  runs, which do not, can only add to what has passed. There is one lemma per
  step of `NodeRuns`; the next two modules cite them.
* `WorkflowExecutionProofs`. `WorkflowTypeCorrect`, `NodesAreDispatchedOnce`,
  `NothingSkipped`, `EndsAreClean`, `EndDispatchesNothing` and
  `GraphRefinement`, for every graph and any number of reconcilers. `IInv` adds
  to `GraphInv` that the coordinator follows the execution, and that only a
  running execution is reconciled (`ExecOK`). The refinement maps each commit to
  `Advance` or `End`; liveness is not part of it.
* `PlanExecutionProofs`. `PlanTypeCorrect`, `ReviewedPlansRun`,
  `CompletedIsWhole` and `PlansDispatchOnce`, for every graph and any number of
  versions, reviews and reconcilers. `PlanInv` adds to `GraphInv` that only the
  current version can be approved or wait for its review, and that an approved
  one has no open review (`VersionsOK`), so that a late answer finds nothing to
  approve; and that a coordinator exists only for an approved version, whose
  nodes are untouched until then (`RootOK`).
* `ProposalReviewProofs`. `ProposalTypeCorrect`, `GrantsAreCounted`,
  `AcceptedPatchesStand`, `FilesFollow` and `RevokedIsFinal`, for any patches,
  grants, queues, requests and crashes. `ReviewInv` follows a patch through its
  files. What a request has kept is the content its patch is made on
  (`RequestsOK`, and `SavedOK` for a snapshot), and is itself `Sound`: accepted, or
  known to be left behind. A content that is not accepted has an owner who has
  written it and will undo it (`UnfinishedIsOwned`). A file outside `muddled` has
  one request on it (`OneAtATime`), and holds what the decisions say but for the
  operations that request has done and not yet undone (`MuddleFree`). Each part
  needs the others: an undo puts back what was kept, which must be sound, and
  is right about the file only if nobody else has written it. `LocksOK` and
  `ApprovalsStand` carry the count of the uses: a grant has one consumer at a
  time, it is active and has a use left until that one commits, and an approval
  on a grant stays accepted.
* `AgentGroupProofs`. `GroupTypeCorrect`, `WaitsEndInReports`,
  `DelegationsAreTrue`, `BudgetBoundsTree` and `WakeUpsAreRight`, for every finite
  set of runs, every budget, and any number of executors and incidents. In
  `GroupInv`, ends are kept (`EndsAreKept`), so that what an open report has
  collected stays true until it is written (`DraftsAreTrue`); a run whose wait is
  over has a report due or is on the list of an open one (`WaitersAreWakeable`),
  unless its end is one the code does not report. That the tree stays within its depth
  would be an induction over lineages; instead the invariant says that the
  recursion which defines the depth has exactly one solution (`DepthDefined`),
  which a new leaf keeps (`NewLeaves`).

Only model-checked: liveness (`EveryJobSettles`, `DueIsHandled`, `ExecutionsEnd`),
which the prover does not reach, and the absence of deadlock. Every
invariant and action property of a passing run is stated by a theorem.
That `RunRecords`' types and `NothingIsDispatchedAfterTheEnd` of
`WorkflowExecution` hold is proved without a run of their own: `ExecTypeOK` and
the refinement contain them.

## 5. Findings

1. **Slots fired twice** (`AutomationSchedule_slot`). `recordFire` and patches
   write `next_run_at` back as they read it; if the loop fires in between, the
   cursor returns to the slot that fired.
2. **Lost retry** (`RunExecution_retry`). The retry's job becomes claimable
   before the executor has released the lock; the worker that claims it sees a
   duplicate execution, completes the job, and the run stays queued.
3. **Retry in an archived project** (`WorkflowExecution_archive`). The archive
   cancels the runs that have not ended; a run that failed just before is
   queued again by its supervisor afterwards, because the retry looks at the
   run alone.
4. **Two adapters for one run** (`RunExecution_duplicate`). A claim is applied and
   its reply lost, so the job is leased and nobody heartbeats it; meanwhile a
   request executes the run without a job. The sweep of the stuck job deletes
   the request's lock, because it has no job, and the reclaim fails the run;
   the run is held, resumed and executed a second time while the first adapter
   still works.

Observations from the models that have no run of their own:

* Two finalizations of one failed run: the slower one records its decision for
  the attempt the faster one created (`supervisor.ts:71`).
* The sweep deletes a lock without job although an HTTP request executes under
  it (`jobs/repository.ts:491`), after a crash or a lost reply, and that request
  then releases whatever lock it finds.
* A lock whose insertion lost its reply, or whose release failed, stays until a
  job of the run is stuck; until then every execution is a duplicate. A terminal
  write of the catch block that throws leaves the run running with nobody on
  it until a restart, an hour later at the earliest.
* When an outcome is written and its reply lost, the catch block goes on to fail
  the run: if it has been queued again in between, the failure meets the new
  attempt.
* A COMMIT that is applied and loses its reply leaves the proposal accepted and
  its files put back (`applyService.ts:130`; line 52 means the undo for a
  transaction that "cannot commit"): accept a patch, write its file, apply
  COMMIT, lose the reply, undo. `FilesFollowTheDecisions` exempts these files.
* The late undo of a failed COMMIT has no row lock: a second reviewer may accept
  the patch again before it, and finds the files put back.
* `EXECUTION_MODEL.md` (invariants 3 and 9) says that run and attempt move
  together and that a terminal attempt stays: `cancelJob`, the reclaim,
  `markRunDegraded` and the dependency pause write the run alone, and the
  supervisor's hold reopens an attempt. The cancel route can cancel a running
  job, which it means to refuse.
* A plan is revised when its coordinator has ended; child runs of a failed
  coordinator go on.
* A plan's integration that depends on a checkpoint always fails its
  verification, because a checkpoint has no run that could have passed.
* A reconcile between the failure of a child run and its supervision fails the
  node, although the run is then retried.
* A rejected checkpoint and a cancelled coordinator leave the execution running,
  and the recovery does not take it up.
* A crash between the rename of a patched file and COMMIT leaves the file
  changed and the proposal pending; it can then never be accepted, because its
  preimage is gone. The rollback of a patch writes its saved contents over a
  later patch of the same file.
* `RUNS_AND_OUTPUTS.md:101` and `EXECUTION_MODEL.md:431` have a waiting run queued
  again once all it depends on is terminal. Only ends that `executeRun` or
  `cancelRun` write after the run's start are reported: those of runs that are
  abandoned, rejected by their contract, cancelled with their job, reclaimed or
  recovered are not, a run parked after the last end is not looked at again,
  and what a paused group missed is not made up for when it is active again.
  Runs may also wait for each other.
* The delegation budget counts without the run it is asked about: fan-out and
  concurrency reach one more than their limit, and two answers obtained before
  either is used may pass the concurrency limit further. A run cancelled while
  its executor works may still delegate.
* A 29-February cron goes dry on the day it fires; an archived automation can
  fire once more when its grant was read before; resume commits before its job
  is enqueued.

## 6. Limits

* A statement is atomic. PostgreSQL's READ COMMITTED re-evaluates a statement
  that waited for a row, with subqueries on the old snapshot; this is not
  modelled, and one hazard depends on it.
* One server process. The rows would allow several, the deployment does not
  start them.
* Routing, policy, workspace preparation, verification and usage inside
  `executeRun` are branches (allowed, denied, paused, thrown) without detail.
* Event triggers and changes of an automation's target are left out, and in
  `AutomationSchedule` its project (an additional lock).
* Of a child run `NodeRuns` keeps what a graph can tell; that `RunExecution`
  behaves like it is not shown.
* `ProposalReview` orders snapshots by their commits (the code by `created_at`,
  taken in the transaction), has files change only by patches, and leaves out
  bundles, egress approvals and the effects of other proposals. Its file
  properties exempt `muddled` files and `leaked` patches: there the code gives
  no guarantee.
* `AgentGroup` has one attempt per run and leaves open when a failed run is retried
  (`RunRecords` has the rules); members, texts and the authority a delegation
  may not widen only show as a denied delegation. `WaitersAreWoken` and
  `DelegationsFollowTheirRuns` exempt `silent` ends and `missed` waiters: there the
  code reports nothing. Reports of one run do not overlap, since its delegation
  row, or the run's execution lock, is held until the first is done.
* Components with status `not_modelled` in `PROJECT.json`: relational CRUD,
  file and process I/O, numeric ranking, user interface; or planned below.

## 7. Plan

In this order; a later item uses the earlier ones.

1. *Done:* `LeasedWork`, `JobQueue`, `RunRecords`, `RunExecution`,
   `AutomationSchedule`, `DependencyGraph`, `NodeRuns`, `WorkflowExecution`,
   `PlanExecution`, `ProposalReview`, `AgentGroup`, with their runs and the
   theorems above: every safety property of a passing run is proved.
2. Proofs: that `PlanExecution` implements `DependencyGraph` between two
   revisions; that `RunExecution`, seen from one node of a graph, takes the
   steps `NodeRuns` allows a child run, lost and stale ones included.
3. `AgentGroup`: composition with `RunRecords`; liveness: a waiting run whose
   dependencies end and are reported is resumed.
4. `ProviderLeases`, `SourceExtraction`, `ProjectResearch`, `AssetEvolution`.
5. Liveness of `RunExecution`: a cancelling run ends, a queued run is
   dispatched or known to be stuck, over restarts.
6. READ COMMITTED re-evaluation in `RunRecords`, several servers.

## 8. Running

`tlc -config JobQueue_all.cfg MCJobQueue` and likewise for the other
configurations (`X_y.cfg` belongs to `MCX`); `tlapm JobQueueProofs.tla` and
likewise for the other proof modules.
