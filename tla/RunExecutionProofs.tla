------------------------- MODULE RunExecutionProofs -------------------------
(***************************************************************************)
(* Proofs about RunRecords, for every cap on attempts and every bound on   *)
(* the number of attempt rows, and about RunExecution, for any number of   *)
(* servers, requests, jobs and crashes: the processes of the code only ever *)
(* issue the statements RunRecords allows, so what is shown of the records *)
(* holds of the running system; and whatever crashes and replies are lost,  *)
(* the execution lock does what it is there for, but for the one sweep      *)
(* LockFollowsExecutor names.                                              *)
(***************************************************************************)
EXTENDS RunExecution, TLAPS

(* The parts hold one another up: the mirror tells which statement may add *)
(* an attempt, the numbering of attempts keeps decisions on their own row. *)
RecInv ==
  /\ RecTypeOK
  /\ LatestAttemptMirrorsRun
  /\ RetriesAreDecidedAndCapped
  /\ HoldsAreDecided

(* The record of a new run satisfies every part.                           *)
LEMMA InitInv == RecInit => RecInv
  BY BoundsAssumption, SMT
  DEF RecInit, RecInv, RecTypeOK, LatestAttemptMirrorsRun,
      RetriesAreDecidedAndCapped, HoldsAreDecided, Attempts, RunStatus,
      AttemptStatus, HardTerminal, Cause, Origin

(* Every step of the records keeps the invariant: one step per statement.   *)
LEMMA InvStep == RecInv /\ [RecNext]_recVars => RecInv'
<1> SUFFICES ASSUME RecInv, [RecNext]_recVars PROVE RecInv'
  OBVIOUS
<1> USE BoundsAssumption
    DEF RecInv, RecTypeOK, LatestAttemptMirrorsRun, RetriesAreDecidedAndCapped,
        HoldsAreDecided, Attempts, RunStatus, AttemptStatus, HardTerminal,
        Supervisable, Cause, Origin, SetRun, SetLatest, AddAttempt, Keep, runVars,
        attemptVars
<1>u. CASE UNCHANGED recVars
  BY <1>u, SMT DEF recVars
<1>1. CASE MarkRunning
  BY <1>1, SMT DEF MarkRunning
<1>2. CASE MarkWaitingForReview
  BY <1>2, SMT DEF MarkWaitingForReview
<1>3. CASE MarkWaitingForDependency
  BY <1>3, SMT DEF MarkWaitingForDependency
<1>4. CASE RequeueWaitingDependency
  BY <1>4, SMT DEF RequeueWaitingDependency
<1>5. CASE MarkDegraded
  BY <1>5, SMT DEF MarkDegraded
<1>6. CASE MarkCancelling
  BY <1>6, SMT DEF MarkCancelling
<1>7. CASE GrantApproval
  BY <1>7, SMT DEF GrantApproval
<1>8. CASE ResumeAfterReview
  BY <1>8, SMT DEF ResumeAfterReview
<1>9. CASE CancelWithJob
  BY <1>9, SMT DEF CancelWithJob, NotEnded
<1>10. CASE FailWithJob
  BY <1>10, SMT DEF FailWithJob, NotEnded
<1>11. CASE RecoverStale
  BY <1>11, SMT DEF RecoverStale
<1>12. CASE Age
  BY <1>12, SMT DEF Age
<1>13. ASSUME NEW s \in HardTerminal, NEW c \in Cause, MarkTerminal(s, c)
       PROVE  RecInv'
  BY <1>13, SMT DEF MarkTerminal
<1>14. ASSUME NEW n \in Attempts, InsertFinalization(n) PROVE RecInv'
  BY <1>14, SMT DEF InsertFinalization
<1>15. ASSUME NEW c \in failures, Retry(c) PROVE RecInv'
  BY <1>15, SMT DEF Retry
<1>16. ASSUME NEW c \in failures, Review(c) PROVE RecInv'
  <2>1. decision[last] = "none" /\ decision' = [decision EXCEPT ![last] = "review"]
        /\ UNCHANGED <<started, finalized>>
    BY <1>16 DEF Review
  <2>2. CASE SetRun("waiting_for_review", "supervisor", "none")
             /\ SetLatest("waiting_for_review")
    BY <2>1, <2>2, SMT
  <2>3. CASE UNCHANGED <<status, hold, cause, failures, attemptVars>>
    BY <2>1, <2>3, SMT
  <2> QED
    BY <1>16, <2>2, <2>3, Zenon DEF Review
<1>17. \A o \in Outcome : o[1] \in HardTerminal /\ o[2] \in Cause
  BY DEF Outcome
<1> HIDE DEF RecInv, SetRun, SetLatest, AddAttempt, Keep, runVars, attemptVars
<1> QED
  BY <1>u, <1>1, <1>2, <1>3, <1>4, <1>5, <1>6, <1>7, <1>8, <1>9, <1>10,
     <1>11, <1>12, <1>13, <1>14, <1>15, <1>16, <1>17
  DEF RecNext, Progress, Interference, AfterEnd, Supervise

(* The invariant holds throughout.                                         *)
LEMMA InvHolds == RecSpec => []RecInv
<1>1. RecInit => RecInv
  BY InitInv
<1>2. RecInv /\ [RecNext]_recVars => RecInv'
  BY InvStep
<1> QED
  BY <1>1, <1>2, PTL DEF RecSpec

(* Type correctness of the records, the numbering of attempts included.    *)
THEOREM RecordsTypeCorrect == RecSpec => []RecTypeOK
<1>1. RecInv => RecTypeOK
  BY DEF RecInv
<1> QED
  BY <1>1, InvHolds, PTL

(* runs.status and the latest run_attempts.status part company only where  *)
(* a statement writes the run alone, whoever issues the statements.        *)
THEOREM Mirror == RecSpec => []LatestAttemptMirrorsRun
<1>1. RecInv => LatestAttemptMirrorsRun
  BY DEF RecInv
<1> QED
  BY <1>1, InvHolds, PTL

(* The supervisor never starts an attempt past the cap, every retry has its *)
(* decision and every hold its review decision.                            *)
THEOREM SupervisionIsSound == RecSpec => []SupervisionIsRecorded
<1>1. RecInv => SupervisionIsRecorded
  BY DEF RecInv, SupervisionIsRecorded
<1> QED
  BY <1>1, InvHolds, PTL

(* The step that takes a run out of a terminal status decides its latest   *)
(* attempt: only Retry and Review do so, both under the decision's key.     *)
LEMMA ReturnStep ==
  RecTypeOK /\ [RecNext]_recVars =>
    (status \in HardTerminal /\ status' \notin HardTerminal =>
       decision[last] = "none" /\ decision'[last] # "none")
<1> SUFFICES ASSUME RecTypeOK, [RecNext]_recVars,
                    status \in HardTerminal, status' \notin HardTerminal
             PROVE  decision[last] = "none" /\ decision'[last] # "none"
  OBVIOUS
<1>1. PICK c \in failures : Supervise(c)
  BY DEF RecNext, Progress, Interference, AfterEnd, MarkRunning, MarkTerminal,
         MarkWaitingForReview, MarkWaitingForDependency, RequeueWaitingDependency,
         MarkDegraded, MarkCancelling, GrantApproval, ResumeAfterReview, CancelWithJob,
         FailWithJob, NotEnded, RecoverStale, Age, InsertFinalization, SetRun,
         HardTerminal, recVars, runVars
<1> QED
  BY <1>1 DEF Supervise, Retry, Review, RecTypeOK

(* No statement takes a cancelled run out of its status or gives it a new  *)
(* attempt.                                                                *)
LEMMA CancelledStep ==
  [RecNext]_recVars => (status = "cancelled" => status' = "cancelled" /\ last' = last)
<1> SUFFICES ASSUME [RecNext]_recVars, status = "cancelled"
             PROVE  status' = "cancelled" /\ last' = last
  OBVIOUS
<1> USE DEF HardTerminal, Supervisable
<1>1. CASE Progress
  BY <1>1 DEF Progress, MarkRunning, MarkTerminal, MarkWaitingForReview,
         MarkWaitingForDependency, RequeueWaitingDependency, MarkDegraded
<1>2. CASE Interference
  BY <1>2 DEF Interference, MarkCancelling, GrantApproval, ResumeAfterReview,
         CancelWithJob, FailWithJob, NotEnded, RecoverStale, Age, attemptVars
<1>3. CASE AfterEnd
  BY <1>3 DEF AfterEnd, InsertFinalization, Supervise, Retry, Review, runVars, attemptVars
<1>4. CASE UNCHANGED recVars
  BY <1>4 DEF recVars, runVars, attemptVars
<1> QED
  BY <1>1, <1>2, <1>3, <1>4 DEF RecNext

(* EXECUTION_MODEL's fifth lifecycle invariant: a run returns from a        *)
(* terminal status only through a persisted decision for that attempt.     *)
THEOREM DecidedReturns == RecSpec => ReturnsAreDecided
<1>1. RecTypeOK /\ [RecNext]_recVars =>
        [(status \in HardTerminal /\ status' \notin HardTerminal) =>
           decision[last] = "none" /\ decision'[last] # "none"]_recVars
  BY ReturnStep
<1> QED
  BY <1>1, RecordsTypeCorrect, PTL DEF RecSpec, ReturnsAreDecided

(* A cancelled run is over for good.                                       *)
THEOREM CancelIsFinal == RecSpec => CancelledIsFinal
<1>1. [RecNext]_recVars =>
        [status = "cancelled" => status' = "cancelled" /\ last' = last]_recVars
  BY CancelledStep
<1> QED
  BY <1>1, PTL DEF RecSpec, CancelledIsFinal

-----------------------------------------------------------------------------
(* What a finalizer read of the run is the reason of a failure the run had. *)
ReadsAreFailures ==
  /\ cause # "none" => cause \in failures
  /\ \A p \in Procs :
       pc[p] \in {"number", "insert", "supervise"} => read[p] \in failures \union {"ended"}

ExecInv == RecInv /\ ExecTypeOK /\ ReadsAreFailures

-----------------------------------------------------------------------------
(* The statement or transaction each step issues against the records.       *)

(* What executeRun does to the records: a dispatch, a pause, the end of the *)
(* run, or nothing.                                                        *)
LEMMA ExecuteRecords ==
  ASSUME NEW p \in Procs, Execute(p) PROVE [RecNext]_recVars
<1> USE DEF RecNext, Progress, Outcome
<1>1. CASE Deny(p)
  BY <1>1 DEF Deny
<1>2. CASE Start(p)
  BY <1>2 DEF Start
<1>3. CASE PauseForApproval(p)
  BY <1>3 DEF PauseForApproval
<1>4. CASE PauseForDependency(p)
  BY <1>4 DEF PauseForDependency
<1>5. CASE Finish(p)
  BY <1>5 DEF Finish
<1>6. CASE Throw(p)
  BY <1>6 DEF Throw
<1>7. CASE EnterFails(p) \/ Acquire(p) \/ AcquireReplyLost(p) \/ NotQueued(p)
           \/ FinishTooLate(p) \/ Release(p) \/ ReleaseFails(p)
  BY <1>7
  DEF EnterFails, Acquire, AcquireReplyLost, NotQueued, FinishTooLate, Release, ReleaseFails
<1>8. CASE WriteReplyLost(p)
  BY <1>8 DEF WriteReplyLost
<1>9. CASE CatchFails(p)
  BY <1>9 DEF CatchFails
<1> QED
  BY <1>1, <1>2, <1>3, <1>4, <1>5, <1>6, <1>7, <1>8, <1>9 DEF Execute

(* What finalize does: a finalization for an attempt that exists, a         *)
(* degradation, or a decision about a failure the run really had.          *)
LEMMA FinalizeRecords ==
  ASSUME ExecInv, NEW p \in Procs, Finalize(p) PROVE [RecNext]_recVars
<1> USE DEF RecNext
<1>1. CASE Insert(p)
  <2>1. InsertFinalization(num[p]) /\ num[p] \in Attempts
    BY <1>1, BoundsAssumption, SMT
    DEF Insert, InsertFinalization, ExecInv, ExecTypeOK, RecTypeOK, Attempts
  <2> QED
    BY <2>1 DEF AfterEnd
<1>2. CASE Degrade(p)
  BY <1>2 DEF Degrade, Progress
<1>3. CASE SuperviseRun(p)
  <2>1. read[p] \in failures
    BY <1>3 DEF SuperviseRun, ExecInv, ReadsAreFailures
  <2>2. Supervise(read[p])
    BY <1>3 DEF SuperviseRun, Supervise
  <2> QED
    BY <2>1, <2>2 DEF AfterEnd
<1>4. CASE ReadRun(p) \/ ReadAttempt(p) \/ InsertFails(p) \/ NotSupervised(p)
  BY <1>4 DEF ReadRun, ReadAttempt, InsertFails, NotSupervised
<1> QED
  BY <1>1, <1>2, <1>3, <1>4 DEF Finalize

(* What a worker's own loop does: the recovery, and the reclaim of jobs.    *)
LEMMA LoopRecords ==
  ASSUME NEW w \in Workers, Loop(w) PROVE [RecNext]_recVars
<1> USE DEF RecNext, Interference
<1>1. CASE Recover(w)
  BY <1>1 DEF Recover
<1>2. CASE Reclaim(w)
  BY <1>2 DEF Reclaim
<1>3. CASE TakeJob(w) \/ TakeJobReplyLost(w) \/ Enter(w) \/ FinalizeOrphan(w) \/ Sweep(w)
  BY <1>3 DEF TakeJob, TakeJobReplyLost, Enter, FinalizeOrphan, Sweep
<1>4. CASE Leave(w) \/ LeaveFails(w) \/ FailJob(w) \/ FailJobFails(w) \/ RecoverFails(w)
  BY <1>4 DEF Leave, LeaveFails, FailJob, FailJobFails, RecoverFails
<1> QED
  BY <1>1, <1>2, <1>3, <1>4 DEF Loop

(* What the routes do: cancel, resume, approve and abandon.                 *)
LEMMA RouteRecords ==
  ASSUME NEW c \in Clients, Route(c) PROVE [RecNext]_recVars
<1> USE DEF RecNext, Interference, Progress, Outcome
<1>1. CASE RequestCancel(c)
  BY <1>1 DEF RequestCancel
<1>2. CASE ConfirmCancel(c)
  BY <1>2 DEF ConfirmCancel
<1>3. CASE Resume(c)
  BY <1>3 DEF Resume
<1>4. CASE Abandon(c)
  BY <1>4 DEF Abandon
<1>5. CASE \/ RequestExecution(c) \/ RequestFinalization(c) \/ ExitUnconfirmed(c)
           \/ ReadReview(c) \/ ResumeRefused(c) \/ EnqueueResumed(c) \/ EnqueueFails(c)
  BY <1>5 DEF RequestExecution, RequestFinalization, ExitUnconfirmed, ReadReview,
              ResumeRefused, EnqueueResumed, EnqueueFails
<1> QED
  BY <1>1, <1>2, <1>3, <1>4, <1>5 DEF Route

(* What happens to the records without a process of their own.             *)
LEMMA EnvironmentRecords ==
  ASSUME Environment PROVE [RecNext]_recVars
<1> USE DEF RecNext, Interference, Progress
<1>1. CASE EnqueueFirst
  BY <1>1 DEF EnqueueFirst
<1>2. CASE DependenciesEnd
  BY <1>2 DEF DependenciesEnd
<1>3. ASSUME NEW j \in Jobs, CancelJob(j) PROVE [RecNext]_recVars
  BY <1>3 DEF CancelJob
<1>4. CASE Crash
  BY <1>4 DEF Crash
<1> QED
  BY <1>1, <1>2, <1>3, <1>4 DEF Environment

(* Every step of the processes is a step of the records or leaves them.     *)
LEMMA RecordStep ==
  ASSUME ExecInv, [ExecNext]_execVars PROVE [RecNext]_recVars
<1>1. CASE UNCHANGED execVars
  BY <1>1 DEF execVars
<1> QED
  BY <1>1, ExecuteRecords, FinalizeRecords, LoopRecords, RouteRecords,
     EnvironmentRecords DEF ExecNext

-----------------------------------------------------------------------------
(* Type correctness of the processes, the lock row and the jobs, and what  *)
(* a finalizer carries from its read to its decision.                      *)

PlaceNames == {"boot", "orphans", "idle", "reclaim", "enter", "lock", "locked",
               "working", "caught", "unlock", "leave", "fail", "read", "number", "insert",
               "supervise", "degrade", "confirm", "resume", "enqueue", "abandon"}
TaskNames == {"none", "execute", "succeed", "throw", "finalize", "cancel", "review", "recover"}
ReadValues == {"none", "ended", "retryable", "final", "policy", "supervisor"}

LocalsTyped ==
  /\ pc \in [Procs -> PlaceNames]
  /\ task \in [Procs -> TaskNames]
  /\ job \in [Procs -> Jobs \union {NoJob}]
  /\ read \in [Procs -> ReadValues]
  /\ num \in [Procs -> 0..MaxRows]
  /\ swept \in [Procs -> SUBSET Jobs]
SharedTyped ==
  /\ jobState \in [Jobs -> {"new", "open", "leased"} \union Leases!Settled]
  /\ lockBy \in Procs \union {Nobody} /\ lockJob \in Jobs \union {NoJob}
CountsTyped ==
  /\ crashes \in 0..MaxCrashes /\ faults \in 0..MaxFaults
  /\ overtaken \in BOOLEAN /\ dropped \subseteq 0..MaxRows

(* The type invariant by parts: the run's rows, what is shared, the locals, *)
(* and the counters with the history.                                      *)
LEMMA TypeParts == ExecTypeOK <=> RecTypeOK /\ SharedTyped /\ LocalsTyped /\ CountsTyped
  BY DEF ExecTypeOK, SharedTyped, CountsTyped, LocalsTyped, PlaceNames, TaskNames, ReadValues

(* A reason the run has failed with stays on record, the present one        *)
(* included.                                                               *)
LEMMA FailuresGrow ==
  ASSUME [RecNext]_recVars, cause # "none" => cause \in failures
  PROVE  failures \subseteq failures' /\ (cause' # "none" => cause' \in failures')
<1> USE DEF SetRun, runVars, attemptVars, Keep
<1>1. CASE Progress
  BY <1>1 DEF Progress, MarkRunning, MarkTerminal, MarkWaitingForReview,
         MarkWaitingForDependency, RequeueWaitingDependency, MarkDegraded
<1>2. CASE Interference
  BY <1>2 DEF Interference, MarkCancelling, GrantApproval, ResumeAfterReview,
         CancelWithJob, FailWithJob, RecoverStale, Age
<1>3. CASE AfterEnd
  BY <1>3 DEF AfterEnd, InsertFinalization, Supervise, Retry, Review
<1>4. CASE UNCHANGED recVars
  BY <1>4 DEF recVars
<1> QED
  BY <1>1, <1>2, <1>3, <1>4 DEF RecNext

(* Where a step of p leaves every other process alone, and p either has    *)
(* nothing to carry or carries what Snapshot or its earlier read gave it.   *)
CarriesOn(p) ==
  /\ \A q \in Procs \ {p} : pc'[q] = pc[q] /\ read'[q] = read[q]
  /\ pc'[p] \in {"number", "insert", "supervise"} =>
       \/ read'[p] = Snapshot
       \/ pc[p] \in {"number", "insert", "supervise"} /\ read'[p] = read[p]

(* The moves of a process between two statements keep the types.           *)
LEMMA MovesTyped ==
  ASSUME LocalsTyped, NEW p \in Procs,
         \/ \E to \in PlaceNames : Goto(p, to)
         \/ \E to \in PlaceNames, t \in TaskNames, j \in Jobs \union {NoJob} : Begin(p, to, t, j)
         \/ \E to \in PlaceNames : Forget(p, to) /\ UNCHANGED <<task, job, swept>>
         \/ Done(p) \/ Return(p) \/ ThrowOut(p) \/ Unlock(p) \/ AfterFinalize(p) \/ FinalizationFails(p)
  PROVE  LocalsTyped'
<1> USE BoundsAssumption DEF LocalsTyped
<1>1. ASSUME NEW to \in PlaceNames, Goto(p, to) PROVE LocalsTyped'
  BY <1>1 DEF Goto
<1>2. ASSUME NEW to \in PlaceNames, NEW t \in TaskNames, NEW j \in Jobs \union {NoJob},
             Begin(p, to, t, j)
      PROVE  LocalsTyped'
  BY <1>2 DEF Begin
<1>3. ASSUME NEW to \in PlaceNames, Forget(p, to), UNCHANGED <<task, job, swept>>
      PROVE  LocalsTyped'
  BY <1>3 DEF Forget, ReadValues
<1>4. CASE Done(p)
  BY <1>4 DEF Done, Forget, ReadValues, PlaceNames, TaskNames
<1>5. CASE Unlock(p)
  BY <1>5, <1>3 DEF Unlock, PlaceNames
<1>6. CASE Return(p) \/ ThrowOut(p)
  <2>1. {"leave", "fail"} \subseteq PlaceNames
    BY DEF PlaceNames
  <2> QED
    BY <1>6, <2>1, <1>3, <1>4 DEF Return, ThrowOut, Settle
<1>7. CASE AfterFinalize(p)
  BY <1>7, <1>5, <1>6 DEF AfterFinalize
<1>8. CASE FinalizationFails(p)
  <2>1. "degrade" \in PlaceNames
    BY DEF PlaceNames
  <2> QED
    BY <1>8, <2>1, <1>3, <1>7 DEF FinalizationFails
<1> QED
  BY <1>1, <1>2, <1>3, <1>4, <1>5, <1>6, <1>7, <1>8

(* The moves that leave a process neither finalizing nor holding a read     *)
(* that a decision could use.                                              *)
LEMMA MovesCarryNothing ==
  ASSUME LocalsTyped, NEW p \in Procs,
         \/ \E to \in PlaceNames \ {"number", "insert", "supervise"} :
              \/ Goto(p, to)
              \/ \E t \in TaskNames, j \in Jobs \union {NoJob} : Begin(p, to, t, j)
              \/ Forget(p, to)
         \/ Done(p) \/ Return(p) \/ ThrowOut(p) \/ Unlock(p) \/ AfterFinalize(p) \/ FinalizationFails(p)
  PROVE  CarriesOn(p)
<1> USE DEF LocalsTyped, CarriesOn, Goto, Begin, Forget, Done, Return, ThrowOut, Settle,
            Unlock, AfterFinalize, FinalizationFails
<1>1. CASE \E to \in PlaceNames \ {"number", "insert", "supervise"} :
             \/ Goto(p, to)
             \/ \E t \in TaskNames, j \in Jobs \union {NoJob} : Begin(p, to, t, j)
             \/ Forget(p, to)
  BY <1>1
<1>2. CASE Done(p)
  BY <1>2
<1>3. CASE Return(p) \/ ThrowOut(p)
  BY <1>3
<1>4. CASE Unlock(p) \/ AfterFinalize(p) \/ FinalizationFails(p)
  BY <1>4
<1> QED
  BY <1>1, <1>2, <1>3, <1>4

(* Every step of a process keeps the types of its locals, and what it       *)
(* carries to the supervisor is what it read.                              *)
LEMMA ExecuteLocals ==
  ASSUME ExecInv, NEW p \in Procs, Execute(p) PROVE LocalsTyped' /\ CarriesOn(p)
<1>t. LocalsTyped
  BY TypeParts DEF ExecInv
<1>p. {"locked", "working", "caught", "unlock", "read"}
        \subseteq PlaceNames \ {"number", "insert", "supervise"}
  BY DEF PlaceNames
<1>1. CASE Start(p)
  <2>1. last' \in 0..MaxRows
    BY <1>1, InvStep, RecordStep, BoundsAssumption, SMT
    DEF Start, ExecInv, RecInv, RecTypeOK, Attempts, RecNext, Progress
  <2> QED
    BY <1>1, <1>t, <1>p, <2>1 DEF Start, LocalsTyped, CarriesOn
<1>2. CASE Finish(p)
  BY <1>2, <1>t, <1>p, BoundsAssumption DEF Finish, Forget, LocalsTyped, CarriesOn, TaskNames, ReadValues
<1>3. CASE Throw(p)
  BY <1>3, <1>t, <1>p, MovesTyped, MovesCarryNothing DEF Throw
<1>4. CASE EnterFails(p) \/ Release(p) \/ ReleaseFails(p) \/ NotQueued(p)
           \/ PauseForApproval(p) \/ PauseForDependency(p) \/ FinishTooLate(p)
  BY <1>4, <1>t, MovesTyped, MovesCarryNothing
  DEF EnterFails, Release, ReleaseFails, NotQueued, PauseForApproval, PauseForDependency,
      FinishTooLate
<1>5. CASE Acquire(p) \/ AcquireReplyLost(p) \/ Deny(p)
  BY <1>5, <1>t, <1>p, MovesTyped, MovesCarryNothing DEF Acquire, AcquireReplyLost, Deny
<1>6. CASE WriteReplyLost(p)
  BY <1>6, <1>t, <1>p, MovesTyped, MovesCarryNothing DEF WriteReplyLost
<1>7. CASE CatchFails(p)
  BY <1>7, <1>t, <1>p, BoundsAssumption
  DEF CatchFails, Forget, LocalsTyped, CarriesOn, TaskNames, ReadValues
<1> QED
  BY <1>1, <1>2, <1>3, <1>4, <1>5, <1>6, <1>7 DEF Execute

(* finalize keeps the types of its locals and goes on where it was,         *)
LEMMA FinalizeLocals ==
  ASSUME ExecInv, NEW p \in Procs, Finalize(p) PROVE LocalsTyped' /\ CarriesOn(p)
<1>t. LocalsTyped
  BY TypeParts DEF ExecInv
<1>p. {"number", "supervise", "insert"} \subseteq PlaceNames
  BY DEF PlaceNames
<1>1. CASE ReadRun(p)
  <2>1. CASE FinalizationFails(p)
    BY <2>1, <1>t, MovesTyped, MovesCarryNothing
  <2>2. CASE /\ pc' = [pc EXCEPT ![p] = "number"]
             /\ read' = [read EXCEPT ![p] = Snapshot]
             /\ UNCHANGED <<task, job, num, swept>>
    <3>1. Snapshot \in ReadValues
      BY DEF Snapshot, ReadValues, ExecInv, RecInv, RecTypeOK, Cause
    <3> QED
      BY <2>2, <3>1, <1>t, <1>p DEF LocalsTyped, CarriesOn
  <2> QED
    BY <1>1, <2>1, <2>2 DEF ReadRun
<1>2. CASE ReadAttempt(p)
  <2>1. last \in 0..MaxRows
    BY BoundsAssumption, SMT DEF ExecInv, RecInv, RecTypeOK, Attempts
  <2> QED
    BY <1>2, <1>t, <1>p, <2>1 DEF ReadAttempt, LocalsTyped, CarriesOn
<1>3. CASE Insert(p)
  <2>1. LocalsTyped'
    BY <1>3, <1>t, <1>p, MovesTyped DEF Insert
  <2>2. CarriesOn(p)
    BY <1>3, <1>t DEF Insert, Goto, LocalsTyped, CarriesOn
  <2> QED
    BY <2>1, <2>2
<1>4. CASE InsertFails(p) \/ Degrade(p) \/ SuperviseRun(p) \/ NotSupervised(p)
  BY <1>4, <1>t, MovesTyped, MovesCarryNothing
  DEF InsertFails, Degrade, SuperviseRun, NotSupervised
<1> QED
  BY <1>1, <1>2, <1>3, <1>4 DEF Finalize

(* so does the worker's loop,                                               *)
LEMMA LoopLocals ==
  ASSUME ExecInv, NEW w \in Workers, Loop(w) PROVE LocalsTyped' /\ CarriesOn(w)
<1>t. LocalsTyped /\ w \in Procs
  BY TypeParts DEF ExecInv, Procs
<1>p. /\ {"enter", "lock", "orphans", "idle", "read", "reclaim"}
           \subseteq PlaceNames \ {"number", "insert", "supervise"}
      /\ {"execute", "recover"} \subseteq TaskNames /\ NoJob \in Jobs \union {NoJob}
  BY DEF PlaceNames, TaskNames
<1>1. CASE TakeJob(w)
  BY <1>1, <1>t, <1>p, MovesTyped, MovesCarryNothing DEF TakeJob
<1>2. CASE Enter(w) \/ Recover(w) \/ RecoverFails(w)
  BY <1>2, <1>t, <1>p, MovesTyped, MovesCarryNothing DEF Enter, Recover, RecoverFails
<1>3. CASE FinalizeOrphan(w)
  BY <1>3, <1>t, <1>p, MovesTyped, MovesCarryNothing DEF FinalizeOrphan
<1>4. CASE Sweep(w)
  BY <1>4, <1>t, <1>p DEF Sweep, Leased, LocalsTyped, CarriesOn
<1>5. CASE Reclaim(w)
  BY <1>5, <1>t, <1>p DEF Reclaim, LocalsTyped, CarriesOn
<1>6. CASE Leave(w) \/ LeaveFails(w) \/ FailJob(w) \/ FailJobFails(w)
  BY <1>6, <1>t, MovesTyped, MovesCarryNothing DEF Leave, LeaveFails, FailJob, FailJobFails
<1>7. CASE TakeJobReplyLost(w)
  BY <1>7, <1>t DEF TakeJobReplyLost, procVars, LocalsTyped, CarriesOn
<1> QED
  BY <1>1, <1>2, <1>3, <1>4, <1>5, <1>6, <1>7 DEF Loop

(* and so do the routes.                                                    *)
LEMMA RouteLocals ==
  ASSUME ExecInv, NEW c \in Clients, Route(c) PROVE LocalsTyped' /\ CarriesOn(c)
<1>t. LocalsTyped /\ c \in Procs
  BY TypeParts DEF ExecInv, Procs
<1>p. /\ {"lock", "confirm", "read", "resume", "abandon", "enqueue"}
           \subseteq PlaceNames \ {"number", "insert", "supervise"}
      /\ {"execute", "cancel", "review", "finalize"} \subseteq TaskNames
      /\ NoJob \in Jobs \union {NoJob} /\ "number" \in PlaceNames
  BY DEF PlaceNames, TaskNames
<1>1. CASE RequestExecution(c) \/ RequestCancel(c)
  BY <1>1, <1>t, <1>p, MovesTyped, MovesCarryNothing DEF RequestExecution, RequestCancel
<1>2. CASE RequestFinalization(c)
  <2>1. Snapshot \in ReadValues
    BY DEF Snapshot, ReadValues, ExecInv, RecInv, RecTypeOK, Cause
  <2> QED
    BY <1>2, <1>t, <1>p, <2>1 DEF RequestFinalization, LocalsTyped, CarriesOn
<1>3. CASE ReadReview(c)
  <2>1. hold \in ReadValues
    BY DEF ReadValues, ExecInv, RecInv, RecTypeOK
  <2> QED
    BY <1>3, <1>t, <1>p, <2>1 DEF ReadReview, LocalsTyped, CarriesOn
<1>4. CASE ConfirmCancel(c) \/ Abandon(c)
  BY <1>4, <1>t, <1>p, MovesTyped, MovesCarryNothing DEF ConfirmCancel, Abandon
<1>5. CASE Resume(c)
  BY <1>5, <1>t, <1>p, MovesTyped, MovesCarryNothing DEF Resume
<1>6. CASE ExitUnconfirmed(c) \/ ResumeRefused(c) \/ EnqueueResumed(c) \/ EnqueueFails(c)
  BY <1>6, <1>t, MovesTyped, MovesCarryNothing
  DEF ExitUnconfirmed, ResumeRefused, EnqueueResumed, EnqueueFails
<1> QED
  BY <1>1, <1>2, <1>3, <1>4, <1>5, <1>6 DEF Route

(* The jobs keep their type, whoever submits, takes or settles them.        *)
LEMMA JobsStep ==
  ASSUME jobState \in [Jobs -> {"new", "open", "leased"} \union Leases!Settled],
         [ExecNext]_execVars
  PROVE  jobState' \in [Jobs -> {"new", "open", "leased"} \union Leases!Settled]
<1> USE DEF Leases!Settled
<1>1. ASSUME NEW j \in Jobs, Leases!Submit(j) \/ Leases!Lease(j) \/ Leases!Answer(j)
                             \/ Leases!Withdraw(j)
      PROVE  jobState' \in [Jobs -> {"new", "open", "leased"} \union Leases!Settled]
  BY <1>1 DEF Leases!Submit, Leases!Lease, Leases!Answer, Leases!Withdraw
<1>2. ASSUME NEW S, Leases!Expire(S)
      PROVE  jobState' \in [Jobs -> {"new", "open", "leased"} \union Leases!Settled]
  BY <1>2 DEF Leases!Expire
<1>3. CASE UNCHANGED jobVars
  BY <1>3 DEF jobVars
<1>4. ASSUME NEW p \in Procs, Execute(p) \/ Finalize(p)
      PROVE  jobState' \in [Jobs -> {"new", "open", "leased"} \union Leases!Settled]
  BY <1>1, <1>2, <1>3, <1>4
  DEF Execute, Finalize, EnterFails, Acquire, AcquireReplyLost, Deny, Start, NotQueued,
      PauseForApproval, PauseForDependency, Finish, FinishTooLate, WriteReplyLost, Throw,
      CatchFails, Release, ReleaseFails, ReadRun, ReadAttempt, Insert, InsertFails, Degrade,
      SuperviseRun, NotSupervised, NewJob
<1>5. ASSUME NEW w \in Workers, Loop(w)
      PROVE  jobState' \in [Jobs -> {"new", "open", "leased"} \union Leases!Settled]
  <2>1. CASE Leave(w) \/ LeaveFails(w)
    BY <2>1, <1>3 DEF Leave, LeaveFails, Leased, Leases!Answer
  <2>2. CASE FailJob(w) \/ FailJobFails(w)
    BY <2>2, <1>2, <1>3 DEF FailJob, FailJobFails
  <2> QED
    BY <2>1, <2>2, <1>1, <1>2, <1>3, <1>5
    DEF Loop, TakeJob, TakeJobReplyLost, Enter, Recover, RecoverFails, FinalizeOrphan, Sweep,
        Reclaim
<1>6. ASSUME NEW c \in Clients, Route(c)
      PROVE  jobState' \in [Jobs -> {"new", "open", "leased"} \union Leases!Settled]
  BY <1>1, <1>3, <1>6
  DEF Route, RequestExecution, RequestFinalization, RequestCancel, ConfirmCancel,
      ExitUnconfirmed, ReadReview, Resume, ResumeRefused, EnqueueResumed, EnqueueFails,
      Abandon, NewJob
<1>7. CASE Environment
  BY <1>1, <1>3, <1>7
  DEF Environment, EnqueueFirst, DependenciesEnd, CancelJob, Crash, NewJob
<1>8. CASE UNCHANGED execVars
  BY <1>8, <1>3 DEF execVars
<1> QED
  BY <1>4, <1>5, <1>6, <1>7, <1>8 DEF ExecNext

(* The execution lock has an owner and a job, whoever takes or drops it.    *)
LEMMA LockStep ==
  ASSUME ExecInv, [ExecNext]_execVars
  PROVE  lockBy' \in Procs \union {Nobody} /\ lockJob' \in Jobs \union {NoJob}
<1>t. /\ lockBy \in Procs \union {Nobody} /\ lockJob \in Jobs \union {NoJob}
      /\ job \in [Procs -> Jobs \union {NoJob}]
  BY DEF ExecInv, ExecTypeOK
<1> DEFINE Goal == lockBy' \in Procs \union {Nobody} /\ lockJob' \in Jobs \union {NoJob}
<1> USE DEF lockVars
<1>1. ASSUME NEW p \in Procs,
             Acquire(p) \/ AcquireReplyLost(p) \/ Release(p) \/ ReleaseFails(p)
      PROVE  Goal
  BY <1>1, <1>t DEF Acquire, AcquireReplyLost, Release, ReleaseFails
<1>2. ASSUME NEW p \in Procs, Execute(p) \/ Finalize(p),
             ~ (Acquire(p) \/ AcquireReplyLost(p) \/ Release(p) \/ ReleaseFails(p))
      PROVE  UNCHANGED lockVars
  BY <1>2
  DEF Execute, Finalize, EnterFails, Deny, Start, NotQueued, PauseForApproval,
      PauseForDependency, Finish, FinishTooLate, WriteReplyLost, Throw, CatchFails, ReadRun,
      ReadAttempt, Insert, InsertFails, Degrade, SuperviseRun, NotSupervised
<1>3. ASSUME NEW w \in Workers, Sweep(w) PROVE Goal
  BY <1>3, <1>t DEF Sweep
<1>4. ASSUME NEW w \in Workers, Loop(w), ~ Sweep(w) PROVE UNCHANGED lockVars
  BY <1>4
  DEF Loop, TakeJob, TakeJobReplyLost, Enter, Leave, LeaveFails, FailJob, FailJobFails,
      Recover, RecoverFails, FinalizeOrphan, Reclaim
<1>5. ASSUME NEW c \in Clients, Route(c) PROVE UNCHANGED lockVars
  BY <1>5
  DEF Route, RequestExecution, RequestFinalization, RequestCancel, ConfirmCancel,
      ExitUnconfirmed, ReadReview, Resume, ResumeRefused, EnqueueResumed, EnqueueFails,
      Abandon
<1>6. CASE Environment \/ UNCHANGED execVars
  BY <1>6, <1>t DEF Environment, EnqueueFirst, DependenciesEnd, CancelJob, Crash, execVars
<1> QED
  <2>1. CASE \E p \in Procs : Execute(p) \/ Finalize(p)
    BY <2>1, <1>t, <1>1, <1>2
  <2>2. CASE \E w \in Workers : Loop(w)
    BY <2>2, <1>t, <1>3, <1>4
  <2>3. CASE \E c \in Clients : Route(c)
    BY <2>3, <1>t, <1>5
  <2> QED
    BY <2>1, <2>2, <2>3, <1>t, <1>6 DEF ExecNext

(* What an execution leaves in the counters and the history.                *)
LEMMA CountsStep ==
  ASSUME ExecInv, [ExecNext]_execVars PROVE CountsTyped'
<1>t. CountsTyped /\ num \in [Procs -> 0..MaxRows]
  BY TypeParts DEF ExecInv, LocalsTyped
<1>f. Fault => faults' \in 0..MaxFaults
  BY <1>t, ExecutionAssumption, SMT DEF Fault, CountsTyped
<1> USE <1>t, <1>f DEF CountsTyped, restVars, historyVars
<1>1. ASSUME NEW p \in Procs, Execute(p) \/ Finalize(p) PROVE CountsTyped'
  <2>1. CASE CatchFails(p)
    BY <2>1 DEF CatchFails
  <2>2. CASE Release(p) \/ ReleaseFails(p)
    BY <2>2 DEF Release, ReleaseFails, EndInside
  <2>3. CASE AcquireReplyLost(p) \/ WriteReplyLost(p)
    BY <2>3 DEF AcquireReplyLost, WriteReplyLost
  <2> QED
    BY <1>1, <2>1, <2>2, <2>3
    DEF Execute, Finalize, EnterFails, Acquire, Deny, Start, NotQueued, PauseForApproval,
        PauseForDependency, Finish, FinishTooLate, Throw, ReadRun, ReadAttempt, Insert,
        InsertFails, Degrade, SuperviseRun, NotSupervised
<1>2. ASSUME NEW w \in Workers, Loop(w) PROVE CountsTyped'
  <2>1. CASE Sweep(w) \/ Reclaim(w)
    BY <2>1 DEF Sweep, Reclaim
  <2>2. CASE TakeJobReplyLost(w) \/ LeaveFails(w) \/ FailJobFails(w)
    BY <2>2 DEF TakeJobReplyLost, LeaveFails, FailJobFails
  <2> QED
    BY <1>2, <2>1, <2>2
    DEF Loop, TakeJob, Enter, Leave, FailJob, Recover, RecoverFails, FinalizeOrphan
<1>3. ASSUME NEW c \in Clients, Route(c) PROVE CountsTyped'
  BY <1>3
  DEF Route, RequestExecution, RequestFinalization, RequestCancel, ConfirmCancel,
      ExitUnconfirmed, ReadReview, Resume, ResumeRefused, EnqueueResumed, EnqueueFails,
      Abandon
<1>4. CASE Crash
  <2>1. crashes' \in 0..MaxCrashes
    BY <1>4, ExecutionAssumption, SMT DEF Crash
  <2> QED
    BY <1>4, <2>1 DEF Crash
<1>5. CASE (Environment /\ ~ Crash) \/ UNCHANGED execVars
  BY <1>5 DEF Environment, EnqueueFirst, DependenciesEnd, CancelJob, execVars
<1> QED
  BY <1>1, <1>2, <1>3, <1>4, <1>5 DEF ExecNext

(* A restart forgets every process, so nothing is carried across it.        *)
LEMMA CrashLocals ==
  ASSUME Crash
  PROVE  LocalsTyped' /\ \A p \in Procs : pc'[p] \notin {"number", "insert", "supervise"}
  BY BoundsAssumption, SMT DEF Crash, LocalsTyped, PlaceNames, TaskNames, ReadValues

(* One step of the system: the types of the processes, and the reasons they *)
(* carry.                                                                  *)
LEMMA LocalsStep ==
  ASSUME ExecInv, [ExecNext]_execVars PROVE LocalsTyped' /\ ReadsAreFailures'
<1>r. failures \subseteq failures' /\ (cause' # "none" => cause' \in failures')
  BY FailuresGrow, RecordStep DEF ExecInv, ReadsAreFailures
<1>s. Snapshot \in failures' \union {"ended"}
  BY <1>r DEF Snapshot, ExecInv, ReadsAreFailures
<1>t. LocalsTyped
  BY TypeParts DEF ExecInv
<1>1. ASSUME NEW p \in Procs, CarriesOn(p) PROVE ReadsAreFailures'
  BY <1>1, <1>r, <1>s DEF CarriesOn, ReadsAreFailures, ExecInv
<1>2. CASE \E p \in Procs : Execute(p) \/ Finalize(p)
  BY <1>2, <1>1, ExecuteLocals, FinalizeLocals
<1>3. CASE \E w \in Workers : Loop(w)
  BY <1>3, <1>1, LoopLocals DEF Procs
<1>4. CASE \E c \in Clients : Route(c)
  BY <1>4, <1>1, RouteLocals DEF Procs
<1>5. CASE Crash
  BY <1>5, <1>r, CrashLocals DEF ReadsAreFailures
<1>6. CASE (Environment /\ ~ Crash) \/ UNCHANGED execVars
  <2>1. UNCHANGED procVars
    BY <1>6 DEF Environment, EnqueueFirst, DependenciesEnd, CancelJob, execVars
  <2> QED
    BY <2>1, <1>r, <1>t DEF procVars, LocalsTyped, ReadsAreFailures, ExecInv
<1> QED
  BY <1>2, <1>3, <1>4, <1>5, <1>6 DEF ExecNext

(* Nothing runs and nothing is locked at first.                             *)
LEMMA ExecInitInv == ExecInit => ExecInv
<1> SUFFICES ASSUME ExecInit PROVE ExecInv
  OBVIOUS
<1>1. RecInv /\ ReadsAreFailures
  BY InitInv DEF ExecInit, ReadsAreFailures, RecInit
<1>2. SharedTyped
  BY ExecutionAssumption, SMT DEF ExecInit, SharedTyped, Leases!Init
<1>4. CountsTyped
  <2>1. crashes \in 0..MaxCrashes /\ faults \in 0..MaxFaults
    BY ExecutionAssumption, SMT DEF ExecInit
  <2> QED
    BY <2>1 DEF ExecInit, CountsTyped
<1>3. LocalsTyped
  BY BoundsAssumption, SMT DEF ExecInit, LocalsTyped, PlaceNames, TaskNames, ReadValues
<1> QED
  BY <1>1, <1>2, <1>3, <1>4, TypeParts DEF ExecInv, RecInv

(* One step of the system keeps every part.                                *)
LEMMA ExecInvStep == ExecInv /\ [ExecNext]_execVars => ExecInv'
<1> SUFFICES ASSUME ExecInv, [ExecNext]_execVars PROVE ExecInv'
  OBVIOUS
<1>1. RecInv'
  BY RecordStep, InvStep DEF ExecInv
<1>2. LocalsTyped' /\ ReadsAreFailures'
  BY LocalsStep
<1>3. SharedTyped' /\ CountsTyped'
  BY JobsStep, LockStep, CountsStep DEF SharedTyped, ExecInv, ExecTypeOK
<1>4. ExecTypeOK' <=> RecTypeOK' /\ SharedTyped' /\ LocalsTyped' /\ CountsTyped'
  BY TypeParts, PTL
<1> QED
  BY <1>1, <1>2, <1>3, <1>4 DEF ExecInv, RecInv

(* The invariant holds throughout, crashes included.                        *)
LEMMA ExecInvHolds == ExecSpec => []ExecInv
<1> QED
  BY ExecInitInv, ExecInvStep, PTL DEF ExecSpec

(* Type correctness of everything the processes keep and share: the locals *)
(* of executeRun, finalize and the routes, and run_execution_locks.        *)
THEOREM ExecutionTypeCorrect == ExecSpec => []ExecTypeOK
<1>1. ExecInv => ExecTypeOK
  BY DEF ExecInv
<1> QED
  BY <1>1, ExecInvHolds, PTL

(* The running system implements the records: whatever its processes do,    *)
(* crash or not, each step issues a statement RunRecords allows, or none.   *)
THEOREM ExecutionImplementsRecords == ExecSpec => RecSpec
<1>1. ExecInit => RecInit
  BY DEF ExecInit
<1>2. ExecInv /\ [ExecNext]_execVars => [RecNext]_recVars
  BY RecordStep
<1> QED
  BY <1>1, <1>2, ExecInvHolds, PTL DEF ExecSpec, RecSpec

(* The mirror holds of the running system, not only of the statements.      *)
THEOREM ExecutionMirrors == ExecSpec => []LatestAttemptMirrorsRun
<1> QED
  BY ExecutionImplementsRecords, Mirror, PTL

(* So does the cap on retries, however executions and finalizations         *)
(* overlap.                                                                *)
THEOREM ExecutionSupervisesSoundly == ExecSpec => []SupervisionIsRecorded
<1> QED
  BY ExecutionImplementsRecords, SupervisionIsSound, PTL

(* No process takes a run back from a terminal status without deciding its  *)
(* attempt.                                                                *)
THEOREM ExecutionDecidesReturns == ExecSpec => ReturnsAreDecided
<1> QED
  BY ExecutionImplementsRecords, DecidedReturns, PTL

(* Nothing a process does later revives a cancelled run.                    *)
THEOREM ExecutionKeepsCancelled == ExecSpec => CancelledIsFinal
<1> QED
  BY ExecutionImplementsRecords, CancelIsFinal, PTL

-----------------------------------------------------------------------------
(* What holds whatever dies and whatever reply is lost.  The parts hold one *)
(* another up: the lock lets one executor in, so that its run can only be  *)
(* cancelled under it; and the job of an executor is attended, so that a   *)
(* sweep takes the lock only from an executor without a job, which is what *)
(* overtaken records.                                                      *)

PlacesFit ==
  \A p \in Procs :
    /\ pc[p] \in {"boot", "orphans", "idle", "reclaim"} => task[p] = "none" /\ job[p] = NoJob
    /\ pc[p] \in {"enter", "lock", "locked", "working", "caught", "unlock", "degrade"}
         => Executing(p)
    /\ pc[p] \in {"confirm", "resume", "enqueue", "abandon"} => ~ Executing(p)
    /\ p \notin Workers => job[p] = NoJob

(* A run somebody works on is running, or was cancelled meanwhile: every    *)
(* other statement that could move it needs another status, and the        *)
(* recovery an older start.                                                *)
Guarded ==
  /\ status \in {"running", "cancelling", "cancelled"}
  /\ status = "cancelled" \/ started = "recent"

OwnTheirRun ==
  ~ overtaken => \A p \in Procs : pc[p] = "working" => Guarded /\ num[p] = last

RunSteady == OwnTheirRun /\ RunningRunsAreAttended

Steady == PlacesFit /\ LockFollowsExecutor /\ RunSteady

(* Behind the finally block: whatever happened to the lock, p has left it,   *)
(* and an execution that is still under way was overtaken before.          *)
LEMMA ReleaseKeepsLock ==
  ASSUME ExecInv, Steady, NEW p \in Procs, Release(p) \/ ReleaseFails(p)
  PROVE  PlacesFit' /\ LockFollowsExecutor'
<1>t. LocalsTyped
  BY TypeParts DEF ExecInv
<1>1. /\ pc[p] = "unlock" /\ EndInside(p)
      /\ Return(p) \/ ThrowOut(p)
  BY DEF Release, ReleaseFails
<1>2. PlacesFit'
  BY <1>t, <1>1
  DEF LocalsTyped, Steady, PlacesFit, Executing, Return, ThrowOut, Settle, Done, Forget
<1>3. \A q \in Procs : Inside(q)' => q # p /\ Inside(q)
  BY <1>t, <1>1
  DEF LocalsTyped, Inside, Executing, Return, ThrowOut, Settle, Done, Forget
<1>4. Inside(p)
  BY <1>1 DEF Steady, PlacesFit, Inside
<1>5. ASSUME NEW q \in Procs, Inside(q)' PROVE overtaken'
  <2>1. overtaken
    BY <1>3, <1>4, <1>5 DEF Steady, LockFollowsExecutor
  <2> QED
    BY <1>1, <1>3, <1>5, <2>1 DEF EndInside
<1> QED
  BY <1>2, <1>5 DEF LockFollowsExecutor

(* Who may enter where, and who holds the lock: executeRun.                 *)
LEMMA ExecuteKeepsLock ==
  ASSUME ExecInv, Steady, NEW p \in Procs, Execute(p)
  PROVE  PlacesFit' /\ LockFollowsExecutor'
<1>t. LocalsTyped
  BY TypeParts DEF ExecInv
<1>n. Nobody \notin Procs
  BY ExecutionAssumption DEF Procs
<1> USE <1>t, <1>n
    DEF LocalsTyped, Steady, PlacesFit, LockFollowsExecutor, Inside, Executing, Goto, Forget,
        Done, Return, ThrowOut, Settle, Unlock, lockVars, restVars, historyVars
<1>1. CASE EnterFails(p)
  BY <1>1 DEF EnterFails
<1>2. CASE Acquire(p)
  BY <1>2 DEF Acquire
<1>3. CASE Release(p) \/ ReleaseFails(p)
  BY <1>3, ReleaseKeepsLock
<1>4. CASE Deny(p)
  BY <1>4 DEF Deny
<1>5. CASE Start(p)
  BY <1>5 DEF Start
<1>6. CASE NotQueued(p)
  BY <1>6 DEF NotQueued
<1>7. CASE PauseForApproval(p)
  BY <1>7 DEF PauseForApproval
<1>8. CASE PauseForDependency(p)
  BY <1>8 DEF PauseForDependency
<1>9. CASE Finish(p)
  BY <1>9 DEF Finish
<1>10. CASE FinishTooLate(p)
  BY <1>10 DEF FinishTooLate
<1>11. CASE Throw(p)
  BY <1>11 DEF Throw
<1>12. CASE AcquireReplyLost(p)
  BY <1>12 DEF AcquireReplyLost
<1>13. CASE WriteReplyLost(p)
  BY <1>13 DEF WriteReplyLost
<1>14. CASE CatchFails(p)
  BY <1>14 DEF CatchFails
<1> QED
  BY <1>1, <1>2, <1>3, <1>4, <1>5, <1>6, <1>7, <1>8, <1>9, <1>10, <1>11, <1>12, <1>13, <1>14
  DEF Execute

(* finalize, for an executor, which keeps the lock, and for any other.      *)
LEMMA FinalizeKeepsLock ==
  ASSUME ExecInv, Steady, NEW p \in Procs, Finalize(p)
  PROVE  PlacesFit' /\ LockFollowsExecutor'
<1>t. LocalsTyped
  BY TypeParts DEF ExecInv
<1> USE <1>t
    DEF LocalsTyped, Steady, PlacesFit, LockFollowsExecutor, Inside, Executing, Goto, Forget,
        Done, Return, Settle, Unlock, AfterFinalize, FinalizationFails, lockVars, restVars,
        historyVars
<1>1. CASE ReadRun(p)
  BY <1>1 DEF ReadRun
<1>2. CASE ReadAttempt(p)
  BY <1>2 DEF ReadAttempt
<1>3. CASE Insert(p)
  BY <1>3 DEF Insert
<1>4. CASE InsertFails(p)
  BY <1>4 DEF InsertFails
<1>5. CASE Degrade(p)
  BY <1>5 DEF Degrade
<1>6. CASE SuperviseRun(p)
  BY <1>6 DEF SuperviseRun
<1>7. CASE NotSupervised(p)
  BY <1>7 DEF NotSupervised
<1> QED
  BY <1>1, <1>2, <1>3, <1>4, <1>5, <1>6, <1>7 DEF Finalize

(* A sweep spares the lock of an executor whose job is attended; from one   *)
(* without a job it takes it, and is remembered.                           *)
LEMMA SweepKeepsLock ==
  ASSUME ExecInv, Steady, NEW w \in Workers, Sweep(w)
  PROVE  PlacesFit' /\ LockFollowsExecutor'
<1>t. LocalsTyped /\ w \in Procs
  BY TypeParts DEF ExecInv, Procs
<1>1. PlacesFit' /\ \A p \in Procs : Inside(p)' = Inside(p)
  BY <1>t DEF Sweep, LocalsTyped, Steady, PlacesFit, Inside, Executing
<1>2. ASSUME NEW p \in Procs, Inside(p), ~ overtaken'
      PROVE  lockBy' = p /\ lockJob' = job'[p]
  <2>1. lockBy = p /\ lockJob = job[p]
    BY <1>2 DEF Sweep, Steady, LockFollowsExecutor
  <2>2. job[p] # NoJob => job[p] \in Attended
    BY <1>t DEF Steady, PlacesFit, Attended, Procs
  <2>3. lockJob = NoJob => ~ (lockBy # Nobody)
    BY <1>2, <2>1 DEF Sweep
  <2>4. UNCHANGED lockVars
    BY <1>2, <2>1, <2>2, <2>3 DEF Sweep
  <2> QED
    BY <2>1, <2>4 DEF Sweep, lockVars
<1> QED
  BY <1>1, <1>2 DEF LockFollowsExecutor

(* The rest of the worker's loop leaves the lock alone.                     *)
LEMMA LoopKeepsLock ==
  ASSUME ExecInv, Steady, NEW w \in Workers, Loop(w)
  PROVE  PlacesFit' /\ LockFollowsExecutor'
<1>t. LocalsTyped /\ w \in Procs
  BY TypeParts DEF ExecInv, Procs
<1>s. CASE Sweep(w)
  BY <1>s, SweepKeepsLock
<1> USE <1>t
    DEF LocalsTyped, Steady, PlacesFit, LockFollowsExecutor, Inside, Executing, Goto, Forget,
        Done, Return, ThrowOut, Settle, Begin, lockVars, restVars, historyVars, procVars
<1>1. CASE TakeJob(w)
  BY <1>1 DEF TakeJob
<1>2. CASE Enter(w)
  BY <1>2 DEF Enter
<1>3. CASE Leave(w) \/ FailJob(w)
  BY <1>3 DEF Leave, FailJob
<1>4. CASE LeaveFails(w) \/ FailJobFails(w)
  BY <1>4 DEF LeaveFails, FailJobFails
<1>5. CASE Recover(w) \/ RecoverFails(w)
  BY <1>5 DEF Recover, RecoverFails
<1>6. CASE FinalizeOrphan(w)
  BY <1>6 DEF FinalizeOrphan
<1>7. CASE Reclaim(w)
  BY <1>7 DEF Reclaim
<1>8. CASE TakeJobReplyLost(w)
  BY <1>8 DEF TakeJobReplyLost
<1> QED
  BY <1>s, <1>1, <1>2, <1>3, <1>4, <1>5, <1>6, <1>7, <1>8 DEF Loop

(* The routes never hold the lock, except the one that executes.            *)
LEMMA RouteKeepsLock ==
  ASSUME ExecInv, Steady, NEW c \in Clients, Route(c)
  PROVE  PlacesFit' /\ LockFollowsExecutor'
<1>t. LocalsTyped /\ c \in Procs
  BY TypeParts DEF ExecInv, Procs
<1> USE <1>t
    DEF LocalsTyped, Steady, PlacesFit, LockFollowsExecutor, Inside, Executing, Goto, Forget,
        Done, Return, Settle, Begin, lockVars, restVars, historyVars
<1>1. CASE RequestExecution(c)
  BY <1>1 DEF RequestExecution
<1>2. CASE RequestFinalization(c)
  BY <1>2 DEF RequestFinalization
<1>3. CASE RequestCancel(c)
  BY <1>3 DEF RequestCancel
<1>4. CASE ConfirmCancel(c)
  BY <1>4 DEF ConfirmCancel
<1>5. CASE ExitUnconfirmed(c)
  BY <1>5 DEF ExitUnconfirmed
<1>6. CASE ReadReview(c)
  BY <1>6 DEF ReadReview
<1>7. CASE Resume(c)
  BY <1>7 DEF Resume
<1>8. CASE ResumeRefused(c) \/ EnqueueResumed(c) \/ EnqueueFails(c)
  BY <1>8 DEF ResumeRefused, EnqueueResumed, EnqueueFails
<1>9. CASE Abandon(c)
  BY <1>9 DEF Abandon
<1> QED
  BY <1>1, <1>2, <1>3, <1>4, <1>5, <1>6, <1>7, <1>8, <1>9 DEF Route

(* At most one process works, and while it does nobody else is inside the   *)
(* lock.                                                                   *)
LEMMA OneInside ==
  ASSUME Steady, ~ overtaken, NEW p \in Procs, NEW q \in Procs,
         pc[p] \in {"locked", "working", "caught", "unlock"},
         pc[q] \in {"locked", "working", "caught", "unlock"}
  PROVE  p = q
<1>1. Inside(p) /\ Inside(q)
  BY DEF Steady, PlacesFit, Inside
<1> QED
  BY <1>1 DEF Steady, LockFollowsExecutor

(* What a statement does to the run under a working executor.               *)
Bystanding ==
  /\ Guarded => Guarded' /\ last' = last
  /\ status' = "running" => status = "running" /\ last' = last

(* Where the history goes on as it was, or an execution that was overtaken  *)
(* is over.                                                                *)
HistoryGoesOn ==
  /\ dropped' = dropped
  /\ overtaken' \/ ~ overtaken \/ \A q \in Procs : pc'[q] # "working"

(* A process that is not at work on the run does not disturb it.            *)
LEMMA BystandersKeepRun ==
  ASSUME LocalsTyped, Steady, Bystanding, HistoryGoesOn, NEW p \in Procs, pc[p] # "working",
         \A q \in Procs \ {p} : pc'[q] = pc[q] /\ num'[q] = num[q],
         pc'[p] # "working"
  PROVE  RunSteady'
<1>1. OwnTheirRun'
  BY DEF Steady, RunSteady, Bystanding, HistoryGoesOn, OwnTheirRun
<1>2. RunningRunsAreAttended'
  BY DEF Steady, RunSteady, Bystanding, HistoryGoesOn, RunningRunsAreAttended
<1> QED
  BY <1>1, <1>2 DEF RunSteady

(* A dispatch: nobody else is at work, unless it was overtaken.             *)
LEMMA StartKeepsRun ==
  ASSUME ExecInv, Steady, NEW p \in Procs, Start(p) PROVE RunSteady'
<1>t. LocalsTyped
  BY TypeParts DEF ExecInv
<1>1. /\ pc'[p] = "working" /\ num'[p] = last'
      /\ \A q \in Procs \ {p} : pc'[q] = pc[q] /\ num'[q] = num[q]
      /\ pc[p] = "locked" /\ overtaken' = overtaken
  BY <1>t DEF Start, LocalsTyped, restVars, historyVars
<1>2. status' = "running" /\ started' = "recent"
  BY DEF Start, MarkRunning, SetRun
<1>3. ~ overtaken => \A q \in Procs : pc'[q] = "working" => q = p
  BY <1>1, OneInside
<1> QED
  BY <1>1, <1>2, <1>3 DEF RunSteady, OwnTheirRun, RunningRunsAreAttended, Guarded

(* The one at work stops working: it has written an end or a pause, or      *)
(* found one, or its attempt is dropped.                                   *)
StopsWorking(p) ==
  /\ pc[p] \in {"locked", "working", "caught"} /\ pc'[p] # "working"
  /\ \A q \in Procs \ {p} : pc'[q] = pc[q] /\ num'[q] = num[q]
  /\ overtaken' = overtaken /\ dropped \subseteq dropped'
  /\ status' = "running" =>
       UNCHANGED recVars /\ (pc[p] = "working" => num[p] \in dropped')

(* Whoever stops leaves the run to nobody it did not have before.           *)
LEMMA StopKeepsRun ==
  ASSUME ExecInv, Steady, NEW p \in Procs, StopsWorking(p) PROVE RunSteady'
<1>1. OwnTheirRun'
  <2>1. ~ overtaken => \A q \in Procs : pc'[q] # "working"
    BY OneInside DEF StopsWorking
  <2> QED
    BY <2>1 DEF StopsWorking, OwnTheirRun
<1>2. RunningRunsAreAttended'
  BY DEF StopsWorking, Steady, RunSteady, RunningRunsAreAttended, recVars, runVars, attemptVars
<1> QED
  BY <1>1, <1>2 DEF RunSteady

(* executeRun: the one at work may pause or end its run, nobody else.       *)
LEMMA ExecuteKeepsRun ==
  ASSUME ExecInv, Steady, NEW p \in Procs, Execute(p) PROVE RunSteady'
<1>t. LocalsTyped
  BY TypeParts DEF ExecInv
<1>1. CASE EnterFails(p) \/ Acquire(p) \/ AcquireReplyLost(p) \/ NotQueued(p)
  <2>1. /\ \A q \in Procs \ {p} : pc'[q] = pc[q] /\ num'[q] = num[q]
        /\ pc[p] # "working" /\ pc'[p] # "working"
    BY <1>1, <1>t
    DEF EnterFails, Acquire, AcquireReplyLost, NotQueued, LocalsTyped, Goto, Forget, Done,
        Return, ThrowOut, Settle, Unlock
  <2>2. Bystanding /\ HistoryGoesOn
    BY <1>1
    DEF EnterFails, Acquire, AcquireReplyLost, NotQueued, Bystanding, Guarded, HistoryGoesOn,
        restVars, historyVars, recVars, runVars, attemptVars
  <2> QED
    BY <1>t, <2>1, <2>2, BystandersKeepRun
<1>2. CASE Release(p) \/ ReleaseFails(p)
  <2>1. /\ \A q \in Procs \ {p} : pc'[q] = pc[q] /\ num'[q] = num[q]
        /\ pc[p] # "working" /\ pc'[p] # "working"
    BY <1>2, <1>t
    DEF Release, ReleaseFails, LocalsTyped, Forget, Done, Return, ThrowOut, Settle
  <2>2. HistoryGoesOn
    BY <1>2, <2>1
    DEF Release, ReleaseFails, EndInside, HistoryGoesOn, Steady, PlacesFit, Inside
  <2>3. Bystanding
    BY <1>2
    DEF Release, ReleaseFails, Bystanding, Guarded, recVars, runVars, attemptVars
  <2> QED
    BY <1>t, <2>1, <2>2, <2>3, BystandersKeepRun
<1>3. CASE Start(p)
  BY <1>3, StartKeepsRun
<1>4. CASE \/ Deny(p) \/ PauseForApproval(p) \/ PauseForDependency(p) \/ Finish(p)
           \/ FinishTooLate(p) \/ Throw(p) \/ WriteReplyLost(p)
  <2>1. status' # "running"
    <3>1. ASSUME NEW st \in HardTerminal, NEW c \in Cause, MarkTerminal(st, c)
          PROVE  status' # "running"
      BY <3>1 DEF MarkTerminal, SetRun, HardTerminal
    <3>2. MarkWaitingForReview \/ MarkWaitingForDependency => status' # "running"
      BY DEF MarkWaitingForReview, MarkWaitingForDependency, SetRun
    <3>3. \A o \in Outcome : o[1] \in HardTerminal /\ o[2] \in Cause
      BY DEF Outcome, HardTerminal, Cause
    <3>4. (status # "running" \/ status \in HardTerminal) /\ UNCHANGED recVars
            => status' # "running"
      BY DEF HardTerminal, recVars, runVars
    <3>5. "failed" \in HardTerminal /\ {"retryable", "final"} \subseteq Cause
      BY DEF HardTerminal, Cause
    <3>6. CASE Deny(p) \/ Throw(p)
      BY <3>1, <3>4, <3>5, <3>6 DEF Deny, Throw
    <3>7. CASE PauseForApproval(p) \/ PauseForDependency(p)
      BY <3>2, <3>4, <3>7 DEF PauseForApproval, PauseForDependency
    <3>8. CASE Finish(p) \/ FinishTooLate(p)
      BY <3>1, <3>3, <3>4, <3>8 DEF Finish, FinishTooLate
    <3>9. CASE WriteReplyLost(p)
      BY <3>1, <3>2, <3>3, <3>5, <3>9 DEF WriteReplyLost
    <3> QED
      BY <1>4, <3>6, <3>7, <3>8, <3>9
  <2>2. /\ \A q \in Procs \ {p} : pc'[q] = pc[q] /\ num'[q] = num[q]
        /\ pc[p] \in {"locked", "working", "caught"} /\ pc'[p] # "working"
        /\ UNCHANGED historyVars
    <3> USE <1>t DEF LocalsTyped, Goto, Forget, Unlock, restVars
    <3>1. CASE Deny(p)
      BY <3>1 DEF Deny
    <3>2. CASE PauseForApproval(p) \/ PauseForDependency(p)
      BY <3>2 DEF PauseForApproval, PauseForDependency
    <3>3. CASE Finish(p) \/ FinishTooLate(p)
      BY <3>3 DEF Finish, FinishTooLate
    <3>4. CASE Throw(p) \/ WriteReplyLost(p)
      BY <3>4 DEF Throw, WriteReplyLost
    <3> QED
      BY <1>4, <3>1, <3>2, <3>3, <3>4
  <2> QED
    BY <2>1, <2>2, StopKeepsRun DEF StopsWorking, historyVars
<1>5. CASE CatchFails(p)
  <2>1. status' = "running" => UNCHANGED recVars
    BY <1>5 DEF CatchFails, MarkTerminal, MarkWaitingForReview, SetRun
  <2>2. dropped \subseteq dropped'
        /\ (UNCHANGED recVars /\ pc[p] = "working" => num[p] \in dropped')
    BY <1>5 DEF CatchFails
  <2>3. StopsWorking(p)
    BY <1>5, <1>t, <2>1, <2>2 DEF CatchFails, StopsWorking, Forget, LocalsTyped
  <2> QED
    BY <2>3, StopKeepsRun
<1> QED
  BY <1>1, <1>2, <1>3, <1>4, <1>5 DEF Execute

(* finalize: a decision is about a run that has ended.                      *)
LEMMA FinalizeKeepsRun ==
  ASSUME ExecInv, Steady, NEW p \in Procs, Finalize(p) PROVE RunSteady'
<1>t. LocalsTyped
  BY TypeParts DEF ExecInv
<1>1. Bystanding
  <2> USE DEF Bystanding, Guarded, SetRun, Supervisable, HardTerminal
  <2>1. CASE Degrade(p)
    BY <2>1 DEF Degrade, MarkDegraded, recVars, runVars, attemptVars
  <2>2. CASE SuperviseRun(p)
    BY <2>2 DEF SuperviseRun, Retry, Review, SetLatest, attemptVars
  <2>3. CASE Insert(p)
    BY <2>3 DEF Insert, InsertFinalization, runVars, attemptVars
  <2>4. CASE ReadRun(p) \/ ReadAttempt(p) \/ InsertFails(p) \/ NotSupervised(p)
    BY <2>4 DEF ReadRun, ReadAttempt, InsertFails, NotSupervised, recVars, runVars, attemptVars
  <2> QED
    BY <2>1, <2>2, <2>3, <2>4 DEF Finalize
<1>2. /\ \A q \in Procs \ {p} : pc'[q] = pc[q] /\ num'[q] = num[q]
      /\ pc[p] # "working" /\ pc'[p] # "working"
      /\ UNCHANGED historyVars
  <2> USE <1>t DEF LocalsTyped, Goto, Forget, Done, Return, Settle, Unlock, AfterFinalize,
                   FinalizationFails, restVars
  <2>1. CASE ReadRun(p) \/ ReadAttempt(p)
    BY <2>1 DEF ReadRun, ReadAttempt
  <2>2. CASE Insert(p) \/ InsertFails(p)
    BY <2>2 DEF Insert, InsertFails
  <2>3. CASE Degrade(p) \/ SuperviseRun(p) \/ NotSupervised(p)
    BY <2>3 DEF Degrade, SuperviseRun, NotSupervised
  <2> QED
    BY <2>1, <2>2, <2>3 DEF Finalize
<1> QED
  BY <1>t, <1>1, <1>2, BystandersKeepRun DEF HistoryGoesOn, historyVars

(* The worker's loop: a run under work is too young to be recovered; what   *)
(* fails it is the reclaim of a stuck job, which is remembered.            *)
LEMMA LoopKeepsRun ==
  ASSUME ExecInv, Steady, NEW w \in Workers, Loop(w) PROVE RunSteady'
<1>t. LocalsTyped /\ w \in Procs
  BY TypeParts DEF ExecInv, Procs
<1>1. CASE Reclaim(w)
  <2>1. pc'[w] = "idle" /\ \A q \in Procs \ {w} : pc'[q] = pc[q]
    BY <1>1, <1>t DEF Reclaim, LocalsTyped
  <2>2. pc[w] = "reclaim" /\ num' = num /\ dropped' = dropped
    BY <1>1 DEF Reclaim
  <2>3. CASE UNCHANGED <<recVars, overtaken>>
    BY <1>t, <2>1, <2>2, <2>3, BystandersKeepRun
    DEF Bystanding, HistoryGoesOn, Guarded, recVars, runVars, attemptVars
  <2>4. CASE /\ FailWithJob
             /\ overtaken' = (overtaken \/ \E p \in Procs : pc[p] = "working")
    <3>1. status' = "failed"
      BY <2>4 DEF FailWithJob, SetRun
    <3>2. ~ overtaken' => \A q \in Procs : pc'[q] # "working"
      BY <2>1, <2>4
    <3> QED
      BY <3>1, <3>2 DEF RunSteady, OwnTheirRun, RunningRunsAreAttended
  <2> QED
    BY <1>1, <2>3, <2>4 DEF Reclaim
<1>2. CASE ~ Reclaim(w)
  <2>1. Bystanding
    <3>1. CASE Recover(w)
      BY <3>1
      DEF Recover, RecoverStale, SetRun, Bystanding, Guarded, recVars, runVars, attemptVars
    <3>2. CASE ~ Recover(w)
      BY <1>2, <3>2
      DEF Loop, TakeJob, TakeJobReplyLost, Enter, Leave, LeaveFails, FailJob, FailJobFails,
          RecoverFails, FinalizeOrphan, Sweep, Bystanding, Guarded, recVars, runVars,
          attemptVars
    <3> QED
      BY <3>1, <3>2
  <2>2. /\ \A q \in Procs \ {w} : pc'[q] = pc[q] /\ num'[q] = num[q]
        /\ pc[w] # "working" /\ pc'[w] # "working"
        /\ dropped' = dropped /\ (overtaken' \/ ~ overtaken)
    <3> USE <1>t DEF LocalsTyped, Goto, Begin, Forget, Done, Return, ThrowOut, Settle, restVars,
                     historyVars, procVars
    <3>1. CASE TakeJob(w) \/ TakeJobReplyLost(w) \/ Enter(w)
      BY <3>1 DEF TakeJob, TakeJobReplyLost, Enter
    <3>2. CASE Recover(w) \/ RecoverFails(w) \/ FinalizeOrphan(w)
      BY <3>2 DEF Recover, RecoverFails, FinalizeOrphan
    <3>3. CASE Sweep(w)
      BY <3>3 DEF Sweep
    <3>4. CASE Leave(w) \/ LeaveFails(w) \/ FailJob(w) \/ FailJobFails(w)
      BY <3>4 DEF Leave, LeaveFails, FailJob, FailJobFails
    <3> QED
      BY <1>2, <3>1, <3>2, <3>3, <3>4 DEF Loop
  <2> QED
    BY <1>t, <2>1, <2>2, BystandersKeepRun DEF HistoryGoesOn
<1> QED
  BY <1>1, <1>2

(* The routes: a run under work can be cancelled, and only that.            *)
LEMMA RouteKeepsRun ==
  ASSUME ExecInv, Steady, NEW c \in Clients, Route(c) PROVE RunSteady'
<1>t. LocalsTyped /\ c \in Procs
  BY TypeParts DEF ExecInv, Procs
<1>1. Bystanding
  <2> USE DEF Bystanding, Guarded, SetRun, SetLatest, HardTerminal, recVars, runVars,
              attemptVars
  <2>1. CASE RequestCancel(c)
    BY <2>1 DEF RequestCancel, MarkCancelling
  <2>2. CASE ConfirmCancel(c) \/ Abandon(c)
    BY <2>2 DEF ConfirmCancel, Abandon, MarkTerminal
  <2>3. CASE Resume(c)
    BY <2>3 DEF Resume, ResumeAfterReview, GrantApproval
  <2>4. CASE \/ RequestExecution(c) \/ RequestFinalization(c) \/ ExitUnconfirmed(c)
             \/ ReadReview(c) \/ ResumeRefused(c) \/ EnqueueResumed(c) \/ EnqueueFails(c)
    BY <2>4 DEF RequestExecution, RequestFinalization, ExitUnconfirmed, ReadReview,
                ResumeRefused, EnqueueResumed, EnqueueFails
  <2> QED
    BY <2>1, <2>2, <2>3, <2>4 DEF Route
<1>2. /\ \A q \in Procs \ {c} : pc'[q] = pc[q] /\ num'[q] = num[q]
      /\ pc[c] # "working" /\ pc'[c] # "working"
      /\ UNCHANGED historyVars
  <2> USE <1>t DEF LocalsTyped, Goto, Begin, Forget, Done, Return, Settle, restVars
  <2>1. CASE RequestExecution(c) \/ RequestFinalization(c) \/ RequestCancel(c) \/ ReadReview(c)
    BY <2>1 DEF RequestExecution, RequestFinalization, RequestCancel, ReadReview
  <2>2. CASE ConfirmCancel(c) \/ Abandon(c)
    BY <2>2 DEF ConfirmCancel, Abandon
  <2>3. CASE Resume(c) \/ ExitUnconfirmed(c) \/ ResumeRefused(c) \/ EnqueueResumed(c)
             \/ EnqueueFails(c)
    BY <2>3 DEF Resume, ExitUnconfirmed, ResumeRefused, EnqueueResumed, EnqueueFails
  <2> QED
    BY <2>1, <2>2, <2>3 DEF Route
<1> QED
  BY <1>t, <1>1, <1>2, BystandersKeepRun DEF HistoryGoesOn, historyVars

(* A crash leaves nobody at work, and drops the attempts that were worked on. *)
LEMMA CrashKeepsSteady ==
  ASSUME ExecInv, Steady, Crash PROVE Steady'
<1>1. \A p \in Procs : /\ pc'[p] \in {"boot", "idle"} /\ task'[p] = "none"
                       /\ job'[p] = NoJob
  BY DEF Crash
<1>2. PlacesFit' /\ LockFollowsExecutor' /\ OwnTheirRun'
  BY <1>1 DEF PlacesFit, LockFollowsExecutor, OwnTheirRun, Inside, Executing
<1>3. status' = status /\ last' = last
  BY DEF Crash, Age, recVars, runVars, attemptVars
<1>4. RunningRunsAreAttended'
  BY <1>3 DEF Crash, Steady, RunSteady, RunningRunsAreAttended
<1> QED
  BY <1>2, <1>4 DEF Steady, RunSteady

(* The rest of the environment: jobs come and are cancelled, and a run      *)
(* somebody works on is not waiting for a dependency.                      *)
LEMMA EnvironmentKeepsSteady ==
  ASSUME ExecInv, Steady, Environment, ~ Crash PROVE Steady'
<1>1. UNCHANGED <<lockVars, procVars, historyVars>>
  BY DEF Environment, EnqueueFirst, DependenciesEnd, CancelJob, restVars
<1>2. Bystanding
  BY DEF Environment, EnqueueFirst, DependenciesEnd, CancelJob, RequeueWaitingDependency,
         CancelWithJob, SetRun, Bystanding, Guarded, recVars, runVars, attemptVars
<1>3. PlacesFit' /\ LockFollowsExecutor'
  BY <1>1 DEF Steady, procVars, lockVars, historyVars, PlacesFit, Executing,
              LockFollowsExecutor, Inside
<1>4. OwnTheirRun' /\ RunningRunsAreAttended'
  BY <1>1, <1>2 DEF Steady, RunSteady, procVars, historyVars, Bystanding, OwnTheirRun,
                    RunningRunsAreAttended
<1> QED
  BY <1>3, <1>4 DEF Steady, RunSteady

(* Nothing is executed at first.                                            *)
LEMMA SteadyInit == ExecInit => Steady
<1> SUFFICES ASSUME ExecInit PROVE Steady
  OBVIOUS
<1>1. RunningRunsAreAttended
  BY DEF ExecInit, RecInit, RunningRunsAreAttended
<1>2. PlacesFit /\ OwnTheirRun /\ LockFollowsExecutor
  BY DEF ExecInit, PlacesFit, OwnTheirRun, LockFollowsExecutor, Inside, Executing
<1> QED
  BY <1>1, <1>2 DEF Steady, RunSteady

(* Every step keeps every part.                                             *)
LEMMA SteadyStep ==
  ASSUME ExecInv, Steady, [ExecNext]_execVars PROVE Steady'
<1>1. ASSUME NEW p \in Procs, Execute(p) \/ Finalize(p) PROVE Steady'
  BY <1>1, ExecuteKeepsLock, FinalizeKeepsLock, ExecuteKeepsRun, FinalizeKeepsRun DEF Steady
<1>2. ASSUME NEW w \in Workers, Loop(w) PROVE Steady'
  BY <1>2, LoopKeepsLock, LoopKeepsRun DEF Steady
<1>3. ASSUME NEW c \in Clients, Route(c) PROVE Steady'
  BY <1>3, RouteKeepsLock, RouteKeepsRun DEF Steady
<1>4. CASE Environment
  BY <1>4, CrashKeepsSteady, EnvironmentKeepsSteady
<1>5. CASE UNCHANGED execVars
  <2> USE <1>5 DEF execVars, recVars, runVars, attemptVars, lockVars, procVars, restVars,
                   historyVars
  <2>1. PlacesFit' /\ LockFollowsExecutor'
    BY DEF Steady, PlacesFit, Executing, LockFollowsExecutor, Inside
  <2>2. OwnTheirRun' /\ RunningRunsAreAttended'
    BY DEF Steady, RunSteady, OwnTheirRun, Guarded, RunningRunsAreAttended
  <2> QED
    BY <2>1, <2>2 DEF Steady, RunSteady
<1> QED
  BY <1>1, <1>2, <1>3, <1>4, <1>5 DEF ExecNext

(* It holds throughout, crashes and faults included.                        *)
LEMMA SteadyHolds == ExecSpec => []Steady
<1>1. ExecInit => Steady
  BY SteadyInit
<1>2. ExecInv /\ Steady /\ [ExecNext]_execVars => Steady'
  BY SteadyStep
<1> QED
  BY <1>1, <1>2, ExecInvHolds, PTL DEF ExecSpec

(* "Run is already being executed by another worker": however many servers  *)
(* and requests compete for a run, and whatever crashes and lost replies    *)
(* leave behind, the lock has at most one executor inside; only the sweep   *)
(* of a job-less lock under its executor breaks it.                        *)
THEOREM LockIsExclusive == ExecSpec => []LockFollowsExecutor
<1>1. Steady => LockFollowsExecutor
  BY DEF Steady
<1> QED
  BY <1>1, SteadyHolds, PTL

(* An executor's result belongs to the attempt it is written to: no retry,  *)
(* resume or backfill gets in between while it works, unless the clean-up   *)
(* of a stuck job took its lock or its run.                                *)
THEOREM ResultsAreOnTime == ExecSpec => []ResultsLandOnTheirAttempt
<1>1. Steady => ResultsLandOnTheirAttempt
  BY DEF Steady, RunSteady, OwnTheirRun, ResultsLandOnTheirAttempt
<1> QED
  BY <1>1, SteadyHolds, PTL

(* A running run has an executor on its latest attempt, unless that very    *)
(* executor died or could not write how it ended.                          *)
THEOREM RunningIsAttended == ExecSpec => []RunningRunsAreAttended
<1>1. Steady => RunningRunsAreAttended
  BY DEF Steady, RunSteady
<1> QED
  BY <1>1, SteadyHolds, PTL

=============================================================================
