---------------------------- MODULE RunExecution ----------------------------
(***************************************************************************)
(* The processes that drive one execution run: the job worker of each      *)
(* server, HTTP requests that execute, cancel, finalize, resume or abandon  *)
(* it, the start-up recovery, the reclaim of abandoned jobs and the end of  *)
(* a dependency pause.  They meet in the run's records (RunRecords), in the *)
(* run's execution lock and in its agent_run jobs, which are leased work:   *)
(* JobQueue is shown to implement LeasedWork, so the queue is used here     *)
(* through that promise.                                                   *)
(*                                                                         *)
(* Each action is one statement or one transaction, with the branch the     *)
(* code takes on its result; what a process read earlier it keeps in read  *)
(* and num.  A worker's heartbeat is assumed to arrive in time while it    *)
(* lives, so only jobs nobody attends to are ever reclaimed.  A fault is a  *)
(* crash, or a statement that throws where the code has nothing to catch   *)
(* it, applied or not: a lost reply leaves rows nobody answers for.         *)
(***************************************************************************)
EXTENDS RunRecords, FiniteSets

CONSTANTS
  Workers,       \* job worker loops, one per server process
  Clients,       \* concurrent HTTP requests about the run
  Jobs,          \* agent_run jobs the run may get (bound on retries and resumes)
  JobMaxAttempts,\* jobs.max_attempts of each
  MaxCrashes,    \* bound on server crashes
  MaxFaults,     \* bound on faults, crashes included
  Nobody,        \* no row in run_execution_locks
  NoJob          \* NULL job_id, and a process without a job

ASSUME ExecutionAssumption ==
  /\ Workers \intersect Clients = {}
  /\ Nobody \notin Workers \union Clients /\ NoJob \notin Jobs
  /\ JobMaxAttempts \in [Jobs -> Nat \ {0}] /\ MaxCrashes \in Nat
  /\ MaxFaults \in Nat

VARIABLES
  jobState,      \* the agent_run jobs, as LeasedWork describes them
  tries,
  answer,
  lockBy,        \* who inserted the row of run_execution_locks
  lockJob,       \* its job_id
  pc,            \* where each process is
  task,          \* what it is doing: the route, or the fate of the execution
  job,           \* the job a worker holds
  read,          \* what it read from the run row
  num,           \* the attempt it dispatched, or is finalizing
  swept,         \* the jobs a worker's reclaim found stuck
  crashes,       \* crashes so far
  faults,        \* faults so far
  overtaken,     \* history: the clean-up of a stuck job has taken the lock or the
                 \* run from an execution that was under way and has not ended
  dropped        \* history: the attempts whose executor died, or failed to write
                 \* how they ended

jobVars == <<jobState, tries, answer>>
lockVars == <<lockBy, lockJob>>
procVars == <<pc, task, job, read, num, swept>>
historyVars == <<overtaken, dropped>>
restVars == <<crashes, faults, historyVars>>
execVars == <<recVars, jobVars, lockVars, procVars, restVars>>

Procs == Workers \union Clients

Leases == INSTANCE LeasedWork WITH
  MaxAttempts <- JobMaxAttempts, state <- jobState

ExecInit ==
  /\ RecInit
  /\ Leases!Init
  /\ lockBy = Nobody /\ lockJob = NoJob
  /\ pc = [p \in Procs |-> IF p \in Workers THEN "boot" ELSE "idle"]
  /\ task = [p \in Procs |-> "none"]
  /\ job = [p \in Procs |-> NoJob]
  /\ read = [p \in Procs |-> "none"]
  /\ num = [p \in Procs |-> 0]
  /\ swept = [p \in Procs |-> {}]
  /\ crashes = 0 /\ faults = 0 /\ overtaken = FALSE /\ dropped = {}

-----------------------------------------------------------------------------
(* Moves of one process that leave its other locals alone.                 *)

Goto(p, to) ==
  /\ pc' = [pc EXCEPT ![p] = to]
  /\ UNCHANGED <<task, job, read, num, swept>>

Begin(p, to, t, j) ==
  /\ pc' = [pc EXCEPT ![p] = to]
  /\ task' = [task EXCEPT ![p] = t]
  /\ job' = [job EXCEPT ![p] = j]
  /\ UNCHANGED <<read, num, swept>>

(* What was read is forgotten where the code no longer uses it.            *)
Forget(p, to) ==
  /\ pc' = [pc EXCEPT ![p] = to]
  /\ read' = [read EXCEPT ![p] = "none"]
  /\ num' = [num EXCEPT ![p] = 0]

(* A request ends, or a worker returns to its loop ...                     *)
Done(p) ==
  /\ Forget(p, "idle")
  /\ task' = [task EXCEPT ![p] = "none"]
  /\ job' = [job EXCEPT ![p] = NoJob]
  /\ UNCHANGED swept

(* ... which it does after settling its job, if it holds one: as completed  *)
(* when the handler returns, as failed when it throws.                     *)
Settle(p, to) ==
  IF job[p] = NoJob THEN Done(p)
                    ELSE Forget(p, to) /\ UNCHANGED <<task, job, swept>>

Return(p) == Settle(p, "leave")
ThrowOut(p) == Settle(p, "fail")

Fault == faults < MaxFaults /\ faults' = faults + 1

Leased == {j \in Jobs : jobState[j] = "leased"}
Attended == {job[w] : w \in Workers}
NewJob == \E j \in Jobs : Leases!Submit(j)

Executing(p) == task[p] \in {"execute", "succeed", "throw"}

(* An executor between acquiring and releasing the lock.                   *)
Inside(p) == Executing(p) /\ pc[p] \notin {"enter", "lock", "leave", "fail"}

Unlock(p) == Forget(p, "unlock") /\ UNCHANGED <<task, job, swept>>

(* An executor unlocks after its finalization; any other caller is done.   *)
AfterFinalize(p) == IF Executing(p) THEN Unlock(p) ELSE Return(p)

(* What a finalization that failed leads to: the executor that wrote a     *)
(* success degrades it.                                                    *)
FinalizationFails(p) ==
  IF task[p] = "succeed" THEN Forget(p, "degrade") /\ UNCHANGED <<task, job, swept>>
                         ELSE AfterFinalize(p)

-----------------------------------------------------------------------------
(* executeRun, for a job or for an HTTP request.                           *)

TakeJob(w) ==
  /\ pc[w] = "idle"
  /\ \E j \in Jobs : Leases!Lease(j) /\ Begin(w, "enter", "execute", j)
  /\ UNCHANGED <<recVars, lockVars, restVars>>

(* The claim is applied and its reply lost: the job is leased, and no       *)
(* worker knows.                                                           *)
TakeJobReplyLost(w) ==
  /\ pc[w] = "idle" /\ Fault
  /\ \E j \in Jobs : Leases!Lease(j)
  /\ UNCHANGED <<recVars, lockVars, procVars, crashes, historyVars>>

Executable == status \notin HardTerminal \union {"waiting_for_review",
                                                "waiting_for_dependency"}

RequestExecution(c) ==
  /\ pc[c] = "idle" /\ Executable
  /\ Begin(c, "lock", "execute", NoJob)
  /\ UNCHANGED <<recVars, jobVars, lockVars, restVars>>

Enter(w) ==
  /\ pc[w] = "enter"
  /\ IF Executable THEN Goto(w, "lock") ELSE Return(w)
  /\ UNCHANGED <<recVars, jobVars, lockVars, restVars>>

(* A statement before the try block throws: the job fails, the run is left. *)
EnterFails(p) ==
  /\ pc[p] \in {"enter", "lock"}
  /\ ThrowOut(p)
  /\ UNCHANGED <<recVars, jobVars, lockVars, restVars>>

(* tryAcquireExecutionLock inserts the row and loses the reply.            *)
AcquireReplyLost(p) ==
  /\ pc[p] = "lock" /\ lockBy = Nobody /\ Fault
  /\ lockBy' = p /\ lockJob' = job[p]
  /\ ThrowOut(p)
  /\ UNCHANGED <<recVars, jobVars, crashes, historyVars>>

(* A definition X_Slip is a mutant of X, as in RunRecords.                   *)
Acquire_Unchecked(p) ==
  /\ pc[p] = "lock"
  /\ lockBy' = p /\ lockJob' = job[p]
  /\ Goto(p, "locked")
  /\ UNCHANGED <<recVars, jobVars, restVars>>

Acquire(p) ==
  /\ pc[p] = "lock"
  /\ IF lockBy = Nobody
       THEN lockBy' = p /\ lockJob' = job[p] /\ Goto(p, "locked")
       ELSE UNCHANGED lockVars /\ Return(p)
  /\ UNCHANGED <<recVars, jobVars, restVars>>

(* The contract rejects the dispatch, or preparing it throws: the run fails *)
(* and is finalized, whatever the terminal write did.                      *)
Deny(p) ==
  /\ pc[p] = "locked"
  /\ \/ MarkTerminal("failed", "final")
     \/ status \in HardTerminal /\ UNCHANGED recVars
  /\ Goto(p, "read")
  /\ UNCHANGED <<jobVars, lockVars, restVars>>

Start(p) ==
  /\ pc[p] = "locked"
  /\ MarkRunning
  /\ pc' = [pc EXCEPT ![p] = "working"]
  /\ num' = [num EXCEPT ![p] = last']
  /\ UNCHANGED <<task, job, read, swept, jobVars, lockVars, restVars>>

NotQueued_StartsAnyway(p) ==
  /\ pc[p] = "locked" /\ status # "queued"
  /\ pc' = [pc EXCEPT ![p] = "working"]
  /\ num' = [num EXCEPT ![p] = last]
  /\ UNCHANGED <<recVars, task, job, read, swept, jobVars, lockVars, restVars>>

NotQueued(p) ==
  /\ pc[p] = "locked" /\ status # "queued"
  /\ Unlock(p)
  /\ UNCHANGED <<recVars, jobVars, lockVars, restVars>>

PauseForApproval(p) ==
  /\ pc[p] = "working"
  /\ MarkWaitingForReview \/ (status # "running" /\ UNCHANGED recVars)
  /\ Unlock(p)
  /\ UNCHANGED <<jobVars, lockVars, restVars>>

PauseForDependency(p) ==
  /\ pc[p] = "working"
  /\ MarkWaitingForDependency \/ (status # "running" /\ UNCHANGED recVars)
  /\ Unlock(p)
  /\ UNCHANGED <<jobVars, lockVars, restVars>>

(* The adapter returns: its outcome is written unless the run has ended.   *)
Finish(p) ==
  /\ pc[p] = "working"
  /\ \E o \in Outcome :
       /\ MarkTerminal(o[1], o[2])
       /\ task' = [task EXCEPT ![p] = IF o[1] = "succeeded" THEN "succeed" ELSE @]
  /\ Forget(p, "read")
  /\ UNCHANGED <<job, swept, jobVars, lockVars, restVars>>

FinishTooLate(p) ==
  /\ pc[p] = "working" /\ status \in HardTerminal
  /\ Unlock(p)
  /\ UNCHANGED <<recVars, jobVars, lockVars, restVars>>

Throw_Unwritten(p) ==
  /\ pc[p] = "working"
  /\ Forget(p, "read")
  /\ UNCHANGED <<recVars, task, job, swept, jobVars, lockVars, restVars>>

(* The denial, the pause or the outcome is written and its reply lost: it   *)
(* is the catch block that goes on.                                        *)
WriteReplyLost(p) ==
  /\ Fault
  /\ \/ pc[p] = "locked" /\ MarkTerminal("failed", "final")
     \/ pc[p] = "working" /\ MarkWaitingForDependency
     \/ pc[p] = "working" /\ \E o \in Outcome : MarkTerminal(o[1], o[2])
  /\ Forget(p, "caught")
  /\ UNCHANGED <<task, job, swept, jobVars, lockVars, crashes, historyVars>>

(* The adapter or the preparation throws; finalization follows either way.  *)
Throw(p) ==
  /\ pc[p] \in {"working", "caught"}
  /\ \/ \E c \in {"retryable", "final"} : MarkTerminal("failed", c)
     \/ status \in HardTerminal /\ UNCHANGED recVars
  /\ Forget(p, "read")
  /\ UNCHANGED <<task, job, swept, jobVars, lockVars, restVars>>

(* The catch block's own statement throws, applied or not: no finalization  *)
(* follows, the finally block releases the lock, and the exception leaves   *)
(* executeRun.                                                             *)
CatchFails(p) ==
  /\ pc[p] \in {"locked", "working", "caught"} /\ Fault
  /\ \/ UNCHANGED recVars
     \/ \E c \in {"retryable", "final"} : MarkTerminal("failed", c)
     \/ pc[p] = "working" /\ MarkWaitingForReview
  /\ dropped' = IF pc[p] = "working" /\ UNCHANGED recVars THEN dropped \union {num[p]}
                                                           ELSE dropped
  /\ task' = [task EXCEPT ![p] = "throw"]
  /\ Forget(p, "unlock")
  /\ UNCHANGED <<job, swept, jobVars, lockVars, crashes, overtaken>>

(* The finally block is behind p: what overtook an execution is over when   *)
(* the last one ends.                                                      *)
EndInside(p) == overtaken' = (overtaken /\ \E q \in Procs \ {p} : Inside(q))

(* releaseExecutionLock deletes the row whoever inserted it.               *)
Release(p) ==
  /\ pc[p] = "unlock"
  /\ lockBy' = Nobody /\ lockJob' = NoJob
  /\ IF task[p] = "throw" THEN ThrowOut(p) ELSE Return(p)
  /\ EndInside(p)
  /\ UNCHANGED <<recVars, jobVars, crashes, faults, dropped>>

(* The finally block throws, before the release or with it.                *)
ReleaseFails(p) ==
  /\ pc[p] = "unlock" /\ Fault
  /\ UNCHANGED lockVars \/ (lockBy' = Nobody /\ lockJob' = NoJob)
  /\ ThrowOut(p) /\ EndInside(p)
  /\ UNCHANGED <<recVars, jobVars, crashes, dropped>>

(* The handler returns: a job that is still leased is completed.           *)
Leave(w) ==
  /\ pc[w] = "leave"
  /\ IF job[w] \in Leased THEN Leases!Answer(job[w]) ELSE UNCHANGED jobVars
  /\ Done(w)
  /\ UNCHANGED <<recVars, lockVars, restVars>>

(* completeJob throws, applied or not, and the catch block fails the job.   *)
LeaveFails(w) ==
  /\ pc[w] = "leave" /\ Fault
  /\ (job[w] \in Leased /\ Leases!Answer(job[w])) \/ UNCHANGED jobVars
  /\ ThrowOut(w)
  /\ UNCHANGED <<recVars, lockVars, crashes, historyVars>>

(* The handler throws: a job that is still leased goes back or is failed.   *)
FailJob(w) ==
  /\ pc[w] = "fail"
  /\ IF job[w] \in Leased THEN Leases!Expire({job[w]}) ELSE UNCHANGED jobVars
  /\ Done(w)
  /\ UNCHANGED <<recVars, lockVars, restVars>>

(* failJob itself throws unapplied: the job stays leased.                  *)
FailJobFails(w) ==
  /\ pc[w] = "fail" /\ Fault
  /\ Done(w)
  /\ UNCHANGED <<recVars, jobVars, lockVars, crashes, historyVars>>

-----------------------------------------------------------------------------
(* PostRunFinalizationService.finalize, for any caller.                    *)

Snapshot_Status == status

Snapshot == IF cause = "none" THEN "ended" ELSE cause

RequestFinalization(c) ==
  /\ pc[c] = "idle" /\ status \in HardTerminal
  /\ pc' = [pc EXCEPT ![c] = "number"]
  /\ task' = [task EXCEPT ![c] = "finalize"]
  /\ read' = [read EXCEPT ![c] = Snapshot]
  /\ UNCHANGED <<recVars, job, num, swept, jobVars, lockVars, restVars>>

ReadRun(p) ==
  /\ pc[p] = "read"
  /\ IF status \in HardTerminal
       THEN /\ pc' = [pc EXCEPT ![p] = "number"]
            /\ read' = [read EXCEPT ![p] = Snapshot]
            /\ UNCHANGED <<task, job, num, swept>>
       ELSE FinalizationFails(p)
  /\ UNCHANGED <<recVars, jobVars, lockVars, restVars>>

(* The attempt is read after the run; a finalization it already has sends   *)
(* the caller straight to the supervisor.                                  *)
ReadAttempt(p) ==
  /\ pc[p] = "number"
  /\ num' = [num EXCEPT ![p] = last]
  /\ pc' = [pc EXCEPT ![p] = IF last \in finalized THEN "supervise" ELSE "insert"]
  /\ UNCHANGED <<recVars, task, job, read, swept, jobVars, lockVars, restVars>>

Insert(p) ==
  /\ pc[p] = "insert"
  /\ InsertFinalization(num[p])
  /\ Goto(p, "supervise")
  /\ UNCHANGED <<jobVars, lockVars, restVars>>

(* Somebody else finalized the attempt first, or the evaluation throws.     *)
InsertFails(p) ==
  /\ pc[p] = "insert"
  /\ FinalizationFails(p)
  /\ UNCHANGED <<recVars, jobVars, lockVars, restVars>>

(* Best effort: the run may have moved on, or the statement throws.         *)
Degrade(p) ==
  /\ pc[p] = "degrade"
  /\ MarkDegraded \/ UNCHANGED recVars
  /\ AfterFinalize(p)
  /\ UNCHANGED <<jobVars, lockVars, restVars>>

SuperviseRun(p) ==
  /\ pc[p] = "supervise" /\ read[p] # "ended"
  /\ (Retry(read[p]) /\ NewJob) \/ (Review(read[p]) /\ UNCHANGED jobVars)
  /\ AfterFinalize(p)
  /\ UNCHANGED <<lockVars, restVars>>

(* Nothing to supervise, a decision exists, or the transaction fails; the   *)
(* read after it may throw.                                                *)
NotSupervised(p) ==
  /\ pc[p] = "supervise"
  /\ AfterFinalize(p) \/ FinalizationFails(p)
  /\ UNCHANGED <<recVars, jobVars, lockVars, restVars>>

-----------------------------------------------------------------------------
(* cancelRun: two statements around the wait for the process to exit.      *)

RequestCancel(c) ==
  /\ pc[c] = "idle"
  /\ MarkCancelling
  /\ Begin(c, "confirm", "cancel", NoJob)
  /\ UNCHANGED <<jobVars, lockVars, restVars>>

ConfirmCancel_Overwrites(c) ==
  /\ pc[c] = "confirm"
  /\ SetRun("cancelled", "none", "none") /\ SetLatest("cancelled")
  /\ Goto(c, "read")
  /\ UNCHANGED <<started, decision, finalized, jobVars, lockVars, restVars>>

ConfirmCancel(c) ==
  /\ pc[c] = "confirm"
  /\ \/ MarkTerminal("cancelled", "none") /\ Goto(c, "read")
     \/ status \in HardTerminal /\ UNCHANGED recVars /\ Return(c)
  /\ UNCHANGED <<jobVars, lockVars, restVars>>

ExitUnconfirmed(c) ==
  /\ pc[c] = "confirm"
  /\ Return(c)
  /\ UNCHANGED <<recVars, jobVars, lockVars, restVars>>

-----------------------------------------------------------------------------
(* The review routes read the run, then resume or abandon it.              *)

ReadReview(c) ==
  /\ pc[c] = "idle" /\ status = "waiting_for_review"
  /\ \E to \in {"resume", "abandon"} : pc' = [pc EXCEPT ![c] = to]
  /\ task' = [task EXCEPT ![c] = "review"]
  /\ read' = [read EXCEPT ![c] = hold]
  /\ UNCHANGED <<recVars, job, num, swept, jobVars, lockVars, restVars>>

Resume(c) ==
  /\ pc[c] = "resume"
  /\ IF read[c] = "supervisor" THEN ResumeAfterReview ELSE GrantApproval
  /\ Goto(c, "enqueue")
  /\ UNCHANGED <<jobVars, lockVars, restVars>>

(* The run is no longer held as it was read, or the statement throws.       *)
ResumeRefused(c) ==
  /\ pc[c] = "resume"
  /\ Return(c)
  /\ UNCHANGED <<recVars, jobVars, lockVars, restVars>>

EnqueueResumed(c) ==
  /\ pc[c] = "enqueue"
  /\ NewJob
  /\ Return(c)
  /\ UNCHANGED <<recVars, lockVars, restVars>>

(* The enqueue is a second statement; when it throws the run stays queued.  *)
EnqueueFails(c) ==
  /\ pc[c] = "enqueue"
  /\ Return(c)
  /\ UNCHANGED <<recVars, jobVars, lockVars, restVars>>

(* The run has ended meanwhile, or the statement throws.                    *)
Abandon(c) ==
  /\ pc[c] = "abandon"
  /\ \/ MarkTerminal("cancelled", "none") /\ Goto(c, "read")
     \/ UNCHANGED recVars /\ Return(c)
  /\ UNCHANGED <<jobVars, lockVars, restVars>>

-----------------------------------------------------------------------------
(* The rest of the server.                                                 *)

(* Whoever created the run enqueues its first job, if it is to run as one.  *)
EnqueueFirst ==
  /\ status = "queued" /\ last = 1 /\ started = "null"
  /\ \A j \in Jobs : jobState[j] = "new"
  /\ NewJob
  /\ UNCHANGED <<recVars, lockVars, procVars, restVars>>

(* The last dependency ends: requeue and enqueue are one transaction.      *)
DependenciesEnd ==
  /\ RequeueWaitingDependency /\ NewJob
  /\ UNCHANGED <<lockVars, procVars, restVars>>

(* cancelJob withdraws the job and cancels a run that has not ended.       *)
CancelJob(j) ==
  /\ Leases!Withdraw(j)
  /\ IF NotEnded THEN CancelWithJob ELSE UNCHANGED recVars
  /\ UNCHANGED <<lockVars, procVars, restVars>>

Recover(w) ==
  /\ pc[w] = "boot"
  /\ \/ RecoverStale
     \/ ~ (status \in {"running", "cancelling"} /\ started = "old") /\ UNCHANGED recVars
  /\ Goto(w, "orphans")
  /\ UNCHANGED <<jobVars, lockVars, restVars>>

(* Either half of the recovery throws: the loop starts without it.          *)
RecoverFails(w) ==
  /\ pc[w] \in {"boot", "orphans"}
  /\ Goto(w, "idle")
  /\ UNCHANGED <<recVars, jobVars, lockVars, restVars>>

FinalizeOrphan(w) ==
  /\ pc[w] = "orphans"
  /\ IF status = "orphaned" THEN Begin(w, "read", "recover", NoJob) ELSE Goto(w, "idle")
  /\ UNCHANGED <<recVars, jobVars, lockVars, restVars>>

(* reclaimStuckJobs: first the locks of stuck jobs go, and a lock without  *)
(* a job when any job of the run is stuck ...                              *)
Sweep(w) ==
  /\ pc[w] \in {"idle", "reclaim"}
  /\ Leased \ Attended # {}
  /\ swept' = [swept EXCEPT ![w] = Leased \ Attended]
  /\ IF lockBy # Nobody /\ lockJob \in (Leased \ Attended) \union {NoJob}
       THEN /\ lockBy' = Nobody /\ lockJob' = NoJob
            /\ overtaken' = (overtaken \/ (lockJob = NoJob /\ Inside(lockBy)))
       ELSE UNCHANGED <<lockVars, overtaken>>
  /\ pc' = [pc EXCEPT ![w] = "reclaim"]
  /\ UNCHANGED <<recVars, task, job, read, num, jobVars, crashes, faults, dropped>>

(* ... then the jobs; one whose attempts are used up fails its run.  When   *)
(* the statement throws, the loop comes round to the sweep again.          *)
Reclaim(w) ==
  LET S == swept[w] \intersect Leased IN
  /\ pc[w] = "reclaim"
  /\ Leases!Expire(S)
  /\ IF NotEnded /\ \E j \in S : tries[j] >= JobMaxAttempts[j]
       THEN /\ FailWithJob
            /\ overtaken' = (overtaken \/ \E p \in Procs : pc[p] = "working")
       ELSE UNCHANGED <<recVars, overtaken>>
  /\ swept' = [swept EXCEPT ![w] = {}]
  /\ pc' = [pc EXCEPT ![w] = "idle"]
  /\ UNCHANGED <<task, job, read, num, lockVars, crashes, faults, dropped>>

(* The server dies and starts again: rows stay, requests are gone.  The     *)
(* hour of recoverStaleRuns may have passed since the run started; only a   *)
(* recovery, the first thing a worker does, can tell.                      *)
Crash ==
  /\ crashes < MaxCrashes /\ Fault
  /\ crashes' = crashes + 1
  /\ pc' = [p \in Procs |-> IF p \in Workers THEN "boot" ELSE "idle"]
  /\ task' = [p \in Procs |-> "none"]
  /\ job' = [p \in Procs |-> NoJob]
  /\ read' = [p \in Procs |-> "none"]
  /\ num' = [p \in Procs |-> 0]
  /\ swept' = [p \in Procs |-> {}]
  /\ Age \/ UNCHANGED recVars
  /\ overtaken' = FALSE
  /\ dropped' = dropped \union {num[p] : p \in {q \in Procs : pc[q] = "working"}}
  /\ UNCHANGED <<jobVars, lockVars>>

-----------------------------------------------------------------------------
Execute(p) ==
  \/ EnterFails(p) \/ Acquire(p) \/ AcquireReplyLost(p) \/ Deny(p) \/ Start(p) \/ NotQueued(p)
  \/ PauseForApproval(p) \/ PauseForDependency(p)
  \/ Finish(p) \/ FinishTooLate(p) \/ WriteReplyLost(p) \/ Throw(p) \/ CatchFails(p)
  \/ Release(p) \/ ReleaseFails(p)

Finalize(p) ==
  \/ ReadRun(p) \/ ReadAttempt(p) \/ Insert(p) \/ InsertFails(p)
  \/ Degrade(p) \/ SuperviseRun(p) \/ NotSupervised(p)

Loop(w) ==
  \/ TakeJob(w) \/ TakeJobReplyLost(w) \/ Enter(w)
  \/ Leave(w) \/ LeaveFails(w) \/ FailJob(w) \/ FailJobFails(w)
  \/ Recover(w) \/ RecoverFails(w) \/ FinalizeOrphan(w)
  \/ Sweep(w) \/ Reclaim(w)

Route(c) ==
  \/ RequestExecution(c) \/ RequestFinalization(c)
  \/ RequestCancel(c) \/ ConfirmCancel(c) \/ ExitUnconfirmed(c)
  \/ ReadReview(c) \/ Resume(c) \/ ResumeRefused(c) \/ EnqueueResumed(c)
  \/ EnqueueFails(c) \/ Abandon(c)

Environment ==
  EnqueueFirst \/ DependenciesEnd \/ (\E j \in Jobs : CancelJob(j)) \/ Crash

ExecNext ==
  \/ \E p \in Procs : Execute(p) \/ Finalize(p)
  \/ \E w \in Workers : Loop(w)
  \/ \E c \in Clients : Route(c)
  \/ Environment

ExecSpec == ExecInit /\ [][ExecNext]_execVars

-----------------------------------------------------------------------------
(* Every variable has its type (the locals of executeRun, finalize and the *)
(* routes, the row of run_execution_locks).                                *)
ExecTypeOK ==
  /\ RecTypeOK
  /\ jobState \in [Jobs -> {"new", "open", "leased"} \union Leases!Settled]
  /\ lockBy \in Procs \union {Nobody} /\ lockJob \in Jobs \union {NoJob}
  /\ pc \in [Procs -> {"boot", "orphans", "idle", "reclaim", "enter", "lock", "locked",
                       "working", "caught", "unlock", "leave", "fail", "read", "number",
                       "insert", "supervise", "degrade", "confirm", "resume", "enqueue", "abandon"}]
  /\ task \in [Procs -> {"none", "execute", "succeed", "throw", "finalize", "cancel", "review",
                         "recover"}]
  /\ job \in [Procs -> Jobs \union {NoJob}]
  /\ read \in [Procs -> {"none", "ended", "retryable", "final", "policy", "supervisor"}]
  /\ num \in [Procs -> 0..MaxRows]
  /\ swept \in [Procs -> SUBSET Jobs]
  /\ crashes \in 0..MaxCrashes /\ faults \in 0..MaxFaults
  /\ overtaken \in BOOLEAN /\ dropped \subseteq 0..MaxRows

(* Whoever executes the run holds its lock, through crashes, lost replies,  *)
(* locks left behind and locks somebody else releases: "Run is already     *)
(* being executed by another worker" is answered to everybody else.  What   *)
(* breaks this is one thing alone: a sweep that meets a stuck job of the run *)
(* while an execution without a job is under way.                          *)
LockFollowsExecutor ==
  ~ overtaken => \A p \in Procs : Inside(p) => lockBy = p /\ lockJob = job[p]

(* A run that is running has an executor, which will end or pause it,      *)
(* whatever cancels, finalizations, resumes, sweeps and reclaims happen     *)
(* around it, unless the executor of this very attempt died or could not   *)
(* write how it ended.                                                     *)
RunningRunsAreAttended ==
  status = "running" => \/ \E p \in Procs : pc[p] = "working" /\ num[p] = last
                        \/ last \in dropped

(* The result an executor is about to write is written to the attempt it   *)
(* dispatched: no newer attempt is current while it works, unless the       *)
(* clean-up of a stuck job has overtaken it.  (Once its write has lost its  *)
(* reply it works no longer: the failure the catch block then writes may    *)
(* meet the next attempt.)                                                 *)
ResultsLandOnTheirAttempt ==
  \A p \in Procs :
    pc[p] = "working" /\ status \notin HardTerminal /\ ~ overtaken => num[p] = last

(* runOrchestrationService.test.ts: the lock "prevents duplicate execution  *)
(* before adapter invocation", so that one adapter at a time works for the  *)
(* run.                                                                    *)
OneAdapterAtATime ==
  \A p, q \in Procs : pc[p] = "working" /\ pc[q] = "working" => p = q

(* RUNS_AND_OUTPUTS: a retry writes a decision row "and queues the next     *)
(* attempt": while the retried run is queued, a job or a process is on the  *)
(* way to dispatch it, or a failed job tells why not.                      *)
RetriesAreOnTheirWay ==
  status = "queued" /\ origin[last] = "retry" =>
    \/ \E j \in Jobs : jobState[j] \in {"open", "leased", "failed"}
    \/ \E p \in Procs : pc[p] \in {"enter", "lock", "locked"}

=============================================================================
