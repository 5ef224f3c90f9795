----------------------------- MODULE RunRecords -----------------------------
(***************************************************************************)
(* The durable records of one execution run (modules/runs): its row in     *)
(* runs, its rows in run_attempts, the supervisor's decisions and the      *)
(* finalizations.  Every action is one SQL statement (or, for Supervise,   *)
(* one transaction) and any caller may issue it whenever its WHERE clause   *)
(* lets it take effect: what holds here holds whoever calls the statements  *)
(* and in whatever order.  RunExecution restricts the callers to the ones  *)
(* the code has.                                                           *)
(*                                                                         *)
(* The run is an ordinary execution run (not a coordinator, not a managed  *)
(* fail-fast one): the supervisor ignores those two kinds.  Error codes are *)
(* reduced to what the supervisor tells apart, "retryable" and "final".    *)
(***************************************************************************)
EXTENDS Naturals

CONSTANTS
  MaxAttempts,   \* the contract's max_attempts (1 to 10)
  MaxRows        \* bound on the attempt rows of a run

ASSUME BoundsAssumption ==
  /\ MaxAttempts \in Nat \ {0} /\ MaxRows \in Nat \ {0}

VARIABLES
  status,        \* runs.status
  hold,          \* what runs.error_json says of a pause: "none", "policy", "supervisor"
  cause,         \* class of runs.error_json.error_code in a failed run, else "none"
  started,       \* runs.started_at: "null", "recent", or "old" (before the cutoff)
  last,          \* max(attempt_number)
  attempt,       \* run_attempts.status of each attempt, "absent" before its insert
  origin,        \* what inserted each attempt
  decision,      \* run_supervisor_decisions.decision for each attempt
  finalized,     \* attempts with a row in run_finalizations
  failures       \* the causes the run has failed with so far

runVars == <<status, hold, cause, started>>
attemptVars == <<last, attempt, origin>>
recVars == <<runVars, attemptVars, decision, finalized, failures>>

Attempts == 1..MaxRows
HardTerminal == {"succeeded", "failed", "degraded", "cancelled", "orphaned"}
Supervisable == {"failed", "degraded", "orphaned"}
AttemptStatus == HardTerminal \union
  {"absent", "queued", "running", "waiting_for_review", "cancelling"}
RunStatus == (AttemptStatus \ {"absent"}) \union {"waiting_for_dependency"}
Cause == {"none", "retryable", "final"}
Origin == {"none", "created", "retry", "resumed", "backfilled"}

(* createQueuedRun inserts the run and its first attempt in one transaction. *)
RecInit ==
  /\ status = "queued" /\ hold = "none" /\ cause = "none" /\ started = "null"
  /\ last = 1
  /\ attempt = [n \in Attempts |-> IF n = 1 THEN "queued" ELSE "absent"]
  /\ origin = [n \in Attempts |-> IF n = 1 THEN "created" ELSE "none"]
  /\ decision = [n \in Attempts |-> "none"]
  /\ finalized = {} /\ failures = {}

-----------------------------------------------------------------------------
(* Effects several statements share.                                       *)

SetRun(s, h, c) ==
  /\ status' = s /\ hold' = h /\ cause' = c
  /\ failures' = failures \union ({c} \ {"none"})

SetLatest(s) ==
  /\ attempt' = [attempt EXCEPT ![last] = s]
  /\ UNCHANGED <<last, origin>>

AddAttempt(s, o) ==
  /\ last + 1 \in Attempts
  /\ last' = last + 1
  /\ attempt' = [attempt EXCEPT ![last + 1] = s]
  /\ origin' = [origin EXCEPT ![last + 1] = o]

Keep == UNCHANGED <<decision, finalized>>

(* markRunRunning reuses a queued latest attempt and inserts one otherwise. *)
MarkRunning ==
  /\ status = "queued"
  /\ SetRun("running", hold, "none")
  /\ started' = "recent"
  /\ IF attempt[last] = "queued" THEN SetLatest("running")
                                 ELSE AddAttempt("running", "backfilled")
  /\ Keep

MarkTerminal(s, c) ==
  /\ status \notin HardTerminal
  /\ SetRun(s, "none", c)
  /\ SetLatest(s)
  /\ UNCHANGED started /\ Keep

MarkCancelling ==
  /\ status \in {"queued", "running", "waiting_for_review",
                 "waiting_for_dependency", "cancelling"}
  /\ SetRun("cancelling", "none", "none")
  /\ SetLatest("cancelling")
  /\ UNCHANGED started /\ Keep

(* A definition X_Slip is a mutant of X: how X would read with a plausible  *)
(* bug, named by the slip, in the code.  Only the mutation checks that      *)
(* PROJECT.json lists use them.                                            *)
MarkWaitingForReview_RunOnly ==
  /\ status = "running"
  /\ SetRun("waiting_for_review", "policy", "none")
  /\ UNCHANGED <<started, attemptVars>> /\ Keep

MarkWaitingForReview ==
  /\ status = "running"
  /\ SetRun("waiting_for_review", "policy", "none")
  /\ SetLatest("waiting_for_review")
  /\ UNCHANGED started /\ Keep

MarkWaitingForDependency ==
  /\ status = "running"
  /\ SetRun("waiting_for_dependency", "none", "none")
  /\ UNCHANGED <<started, attemptVars>> /\ Keep

RequeueWaitingDependency ==
  /\ status = "waiting_for_dependency"
  /\ SetRun("queued", hold, "none")
  /\ UNCHANGED <<started, attemptVars>> /\ Keep

(* grantRunApprovalAndRequeue does not look at what the pause is for.      *)
GrantApproval ==
  /\ status = "waiting_for_review"
  /\ SetRun("queued", "none", "none")
  /\ IF attempt[last] = "waiting_for_review" THEN SetLatest("queued")
                                             ELSE UNCHANGED attemptVars
  /\ UNCHANGED started /\ Keep

ResumeAfterReview ==
  /\ status = "waiting_for_review" /\ hold = "supervisor"
  /\ SetRun("queued", "none", "none")
  /\ AddAttempt("queued", "resumed")
  /\ UNCHANGED started /\ Keep

MarkDegraded ==
  /\ status = "succeeded"
  /\ SetRun("degraded", hold, "final")
  /\ UNCHANGED <<started, attemptVars>> /\ Keep

(* recoverStaleRuns, at the start of a server; "orphaned" is retryable.    *)
RecoverStale ==
  /\ status \in {"running", "cancelling"} /\ started = "old"
  /\ SetRun("orphaned", "none", "retryable")
  /\ SetLatest("orphaned")
  /\ UNCHANGED started /\ Keep

(* The job queue writes runs as well, and only runs: cancelJob, and the    *)
(* reclaim of a job that has used up its attempts (error "run_abandoned"). *)
NotEnded_NotCancelled == status \notin (HardTerminal \ {"cancelled"}) \union {"waiting_for_review"}
NotEnded == status \notin HardTerminal \union {"waiting_for_review"}

CancelWithJob ==
  /\ NotEnded
  /\ SetRun("cancelled", "none", "none")
  /\ UNCHANGED <<started, attemptVars>> /\ Keep

FailWithJob ==
  /\ NotEnded
  /\ SetRun("failed", "none", "final")
  /\ UNCHANGED <<started, attemptVars>> /\ Keep

InsertFinalization(n) ==
  /\ n \in 1..last /\ n \notin finalized
  /\ finalized' = finalized \union {n}
  /\ UNCHANGED <<runVars, attemptVars, decision, failures>>

Retry_CapPlusOne(c) ==
  /\ decision[last] = "none"
  /\ c = "retryable" /\ last <= MaxAttempts
  /\ status \in Supervisable
  /\ decision' = [decision EXCEPT ![last] = "retry"]
  /\ SetRun("queued", "none", "none")
  /\ started' = "null"
  /\ AddAttempt("queued", "retry")
  /\ UNCHANGED finalized

Retry_Redecides(c) ==
  /\ c = "retryable" /\ last < MaxAttempts
  /\ status \in Supervisable
  /\ decision' = [decision EXCEPT ![last] = "retry"]
  /\ SetRun("queued", "none", "none")
  /\ started' = "null"
  /\ AddAttempt("queued", "retry")
  /\ UNCHANGED finalized

(* supervise works from an earlier read of the failed run, with cause c, but *)
(* on the attempt that is the latest by now; a second decision for it is a  *)
(* no-op.  A retry that finds the run no longer failed throws and rolls     *)
(* back; a review is recorded either way.  Whether the cost cap is reached  *)
(* or the run has no user to retry as is left open: both lead to a review.  *)
Retry(c) ==
  /\ decision[last] = "none"
  /\ c = "retryable" /\ last < MaxAttempts
  /\ status \in Supervisable
  /\ decision' = [decision EXCEPT ![last] = "retry"]
  /\ SetRun("queued", "none", "none")
  /\ started' = "null"
  /\ AddAttempt("queued", "retry")
  /\ UNCHANGED finalized

Review(c) ==
  /\ decision[last] = "none"
  /\ c # "none"
  /\ decision' = [decision EXCEPT ![last] = "review"]
  /\ IF status \in Supervisable
       THEN SetRun("waiting_for_review", "supervisor", "none")
            /\ SetLatest("waiting_for_review")
       ELSE UNCHANGED <<status, hold, cause, failures, attemptVars>>
  /\ UNCHANGED <<started, finalized>>

Supervise(c) == Retry(c) \/ Review(c)

(* started_at falls behind the cutoff of recoverStaleRuns.                 *)
Age ==
  /\ started = "recent"
  /\ started' = "old"
  /\ UNCHANGED <<status, hold, cause, attemptVars, decision, finalized, failures>>

-----------------------------------------------------------------------------
(* Outcomes markRunTerminal is called with.                                *)
Outcome ==
  {<<"succeeded", "none">>, <<"cancelled", "none">>, <<"failed", "retryable">>,
   <<"failed", "final">>, <<"degraded", "final">>}

Progress ==
  \/ MarkRunning
  \/ \E o \in Outcome : MarkTerminal(o[1], o[2])
  \/ MarkWaitingForReview \/ MarkWaitingForDependency \/ RequeueWaitingDependency
  \/ MarkDegraded

Interference ==
  \/ MarkCancelling \/ GrantApproval \/ ResumeAfterReview
  \/ CancelWithJob \/ FailWithJob \/ RecoverStale \/ Age

AfterEnd ==
  \/ \E n \in Attempts : InsertFinalization(n)
  \/ \E c \in failures : Supervise(c)

RecNext == Progress \/ Interference \/ AfterEnd

RecSpec == RecInit /\ [][RecNext]_recVars

-----------------------------------------------------------------------------
(* Every variable has its type, and attempts are numbered 1 to last.       *)
RecTypeOK ==
  /\ status \in RunStatus
  /\ hold \in {"none", "policy", "supervisor"}
  /\ cause \in Cause
  /\ started \in {"null", "recent", "old"}
  /\ last \in Attempts
  /\ attempt \in [Attempts -> AttemptStatus]
  /\ origin \in [Attempts -> Origin]
  /\ decision \in [Attempts -> {"none", "retry", "review"}]
  /\ finalized \in SUBSET Attempts
  /\ failures \in SUBSET (Cause \ {"none"})
  /\ \A n \in Attempts : attempt[n] = "absent" <=> n > last

(* The run and its latest attempt agree, whatever the order of dispatches,  *)
(* pauses, cancels, retries, resumes, recoveries and job clean-ups, except *)
(* where a statement writes the run alone: the dependency pause and its    *)
(* end, markRunDegraded, cancelJob and the reclaim of an exhausted job.    *)
LatestAttemptMirrorsRun ==
  \/ attempt[last] = status
  \/ /\ status \in {"waiting_for_dependency", "queued"}
     /\ attempt[last] = "running"
  \/ status = "degraded" /\ attempt[last] = "succeeded"
  \/ /\ status \in {"cancelled", "failed"}
     /\ attempt[last] \in {"queued", "running", "cancelling"}

(* An attempt past the contract's cap exists only because a human resumed  *)
(* the run or a dependency pause ended, and an attempt is a supervisor     *)
(* retry exactly when the decision on its predecessor says so.             *)
RetriesAreDecidedAndCapped ==
  \A n \in Attempts :
    /\ n > MaxAttempts => origin[n] \in {"none", "resumed", "backfilled"}
                          \/ n = 1
    /\ decision[n] = "retry" <=> n < last /\ origin[n + 1] = "retry"

(* A run held for review by the supervisor has a review decision for the   *)
(* attempt it is held on.                                                  *)
HoldsAreDecided ==
  hold = "supervisor" =>
    status = "waiting_for_review" /\ decision[last] = "review"

(* What the supervisor did to a run can be read off its decisions.          *)
SupervisionIsRecorded == RetriesAreDecidedAndCapped /\ HoldsAreDecided

(* A run comes back from a terminal status only in the step that records    *)
(* the supervisor's decision for its latest attempt.                       *)
ReturnsAreDecided ==
  [][(status \in HardTerminal /\ status' \notin HardTerminal) =>
       decision[last] = "none" /\ decision'[last] # "none"]_recVars

(* A cancelled run stays cancelled and starts no further attempt, whatever *)
(* finalizers, supervisors, recoveries or resumes are still under way.      *)
CancelledIsFinal ==
  [][status = "cancelled" => status' = "cancelled" /\ last' = last]_recVars

=============================================================================
