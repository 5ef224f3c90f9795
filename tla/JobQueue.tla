------------------------------ MODULE JobQueue ------------------------------
(***************************************************************************)
(* The PostgreSQL job queue (modules/jobs): the rows of the jobs table, the *)
(* worker processes that claim, run and reclaim them, and the cancel route. *)
(*                                                                         *)
(* Every action on a row is one SQL statement of PgJobQueueRepository, so   *)
(* it is atomic; everything a worker does between two statements           *)
(* interleaves with the other workers, with the cancel route, with time    *)
(* (GoStale) and with crashes.  A worker process has a fresh random id, so *)
(* a process that died never comes back under its id.                      *)
(*                                                                         *)
(* A job whose scheduled_at lies ahead is one that is not enqueued yet; the *)
(* order in which claimable jobs are taken is left open, since SKIP LOCKED  *)
(* may pass over any row another statement holds.                          *)
(***************************************************************************)
EXTENDS Naturals, FiniteSets

CONSTANTS
  Jobs,          \* jobs that may be enqueued (bound on the table)
  Workers,       \* worker process ids that may ever be used (bound on restarts)
  MaxAttempts,   \* jobs.max_attempts
  NoWorker,      \* NULL in jobs.claimed_by
  NoJob          \* a worker that holds no job

ASSUME MaxAttemptsAssumption == MaxAttempts \in [Jobs -> Nat \ {0}]
ASSUME NullAssumption == NoWorker \notin Workers /\ NoJob \notin Jobs

VARIABLES
  status,        \* jobs.status, "absent" before the row is inserted
  claimedBy,     \* jobs.claimed_by
  attempts,      \* jobs.attempts
  stale,         \* COALESCE(heartbeat_at, updated_at) is older than the cutoff
  result,        \* jobs.result_json: the claim whose handler produced it, 0 for NULL
  pc,            \* where each worker process is in its loop
  held,          \* the job in the worker's local variable
  claim,         \* attempts in the row claimNext returned to the worker
  toAlert,       \* permanently failed jobs the worker is about to alert on
  alerted,       \* jobs an operational alert was emitted for
  cancelling     \* cancel requests that passed the route's status check

rowVars == <<status, claimedBy, attempts, stale, result>>
workerVars == <<pc, held, claim, toAlert>>
vars == <<rowVars, workerVars, alerted, cancelling>>

JobStatus == {"absent", "pending", "claimed", "running",
              "completed", "failed", "cancelled"}
Active == {"claimed", "running"}
Terminal == {"completed", "failed", "cancelled"}

WorkerPC == {"off", "overdue", "idle", "sweeping", "polling", "claimed", "handling",
             "returned", "threw", "alerting", "dead"}
Holding == {"claimed", "handling", "returned", "threw"}

(* A definition X_Slip is a mutant of X: how X would read with a plausible  *)
(* bug, named by the slip, in the code.  Only the mutation checks that      *)
(* PROJECT.json lists use them.                                            *)
Owns_AnyStatus(w, j) == claimedBy[j] = w
Owns_AnyWorker(w, j) == status[j] \in Active

Owns(w, j) == status[j] \in Active /\ claimedBy[j] = w
Claimable(j) == status[j] = "pending" /\ attempts[j] < MaxAttempts[j]

Init ==
  /\ status = [j \in Jobs |-> "absent"]
  /\ claimedBy = [j \in Jobs |-> NoWorker]
  /\ attempts = [j \in Jobs |-> 0]
  /\ stale = [j \in Jobs |-> FALSE]
  /\ result = [j \in Jobs |-> 0]
  /\ pc = [w \in Workers |-> "off"]
  /\ held = [w \in Workers |-> NoJob]
  /\ claim = [w \in Workers |-> 0]
  /\ toAlert = [w \in Workers |-> {}]
  /\ alerted = {}
  /\ cancelling = {}

-----------------------------------------------------------------------------
(* The statements of PgJobQueueRepository, as effects on the rows.         *)

ClaimRow(w, j) ==
  /\ Claimable(j)
  /\ status' = [status EXCEPT ![j] = "claimed"]
  /\ claimedBy' = [claimedBy EXCEPT ![j] = w]
  /\ attempts' = [attempts EXCEPT ![j] = @ + 1]
  /\ stale' = [stale EXCEPT ![j] = FALSE]
  /\ UNCHANGED result

StartRow_Counts(w, j) ==
  /\ status[j] = "claimed" /\ claimedBy[j] = w
  /\ status' = [status EXCEPT ![j] = "running"]
  /\ attempts' = [attempts EXCEPT ![j] = @ + 1]
  /\ stale' = [stale EXCEPT ![j] = FALSE]
  /\ UNCHANGED <<claimedBy, result>>

StartRow(w, j) ==
  /\ status[j] = "claimed" /\ claimedBy[j] = w
  /\ status' = [status EXCEPT ![j] = "running"]
  /\ stale' = [stale EXCEPT ![j] = FALSE]
  /\ UNCHANGED <<claimedBy, attempts, result>>

CompleteRow_RunStatus(w, j) ==
  /\ Owns(w, j)
  /\ status' = [status EXCEPT ![j] = "succeeded"]
  /\ result' = [result EXCEPT ![j] = claim[w]]
  /\ UNCHANGED <<claimedBy, attempts, stale>>

CompleteRow(w, j) ==
  /\ Owns(w, j)
  /\ status' = [status EXCEPT ![j] = "completed"]
  /\ result' = [result EXCEPT ![j] = claim[w]]
  /\ stale' = [stale EXCEPT ![j] = FALSE]
  /\ UNCHANGED <<claimedBy, attempts>>

FailRow_AlwaysRetries(w, j) ==
  /\ Owns(w, j)
  /\ status' = [status EXCEPT ![j] = "pending"]
  /\ claimedBy' = [claimedBy EXCEPT ![j] = NoWorker]
  /\ stale' = [stale EXCEPT ![j] = FALSE]
  /\ UNCHANGED <<attempts, result>>

FailRow(w, j) ==
  LET retry == attempts[j] < MaxAttempts[j] IN
  /\ Owns(w, j)
  /\ status' = [status EXCEPT ![j] = IF retry THEN "pending" ELSE "failed"]
  /\ claimedBy' = [claimedBy EXCEPT ![j] = IF retry THEN NoWorker ELSE @]
  /\ stale' = [stale EXCEPT ![j] = FALSE]
  /\ UNCHANGED <<attempts, result>>

Stuck_RunningOnly == {j \in Jobs : status[j] = "running" /\ stale[j]}
Stuck == {j \in Jobs : status[j] \in Active /\ stale[j]}
Exhausted == {j \in Stuck : attempts[j] >= MaxAttempts[j]}

(* reclaimStuckJobs, its second statement: every stale active row goes back *)
(* to pending, or fails when its attempts are used up.                     *)
ReclaimRows ==
  /\ status' = [j \in Jobs |-> IF j \in Exhausted THEN "failed"
                               ELSE IF j \in Stuck THEN "pending" ELSE status[j]]
  /\ claimedBy' = [j \in Jobs |-> IF j \in Stuck THEN NoWorker ELSE claimedBy[j]]
  /\ stale' = [j \in Jobs |-> IF j \in Stuck THEN FALSE ELSE stale[j]]
  /\ UNCHANGED <<attempts, result>>

-----------------------------------------------------------------------------
(* Clients: any part of the server enqueues; users cancel over the API.    *)

Enqueue(j) ==
  /\ status[j] = "absent"
  /\ status' = [status EXCEPT ![j] = "pending"]
  /\ UNCHANGED <<claimedBy, attempts, stale, result, workerVars, alerted, cancelling>>

(* The cancel route reads the row and refuses any status but pending or    *)
(* claimed ...                                                             *)
RequestCancel(j) ==
  /\ status[j] \in {"pending", "claimed"}
  /\ cancelling' = cancelling \union {j}
  /\ UNCHANGED <<rowVars, workerVars, alerted>>

(* ... and then runs cancelJob, which also takes a running row.            *)
CancelJob(j) ==
  /\ j \in cancelling
  /\ cancelling' = cancelling \ {j}
  /\ IF status[j] \in {"pending"} \union Active
       THEN /\ status' = [status EXCEPT ![j] = "cancelled"]
            /\ stale' = [stale EXCEPT ![j] = FALSE]
       ELSE UNCHANGED <<status, stale>>
  /\ UNCHANGED <<claimedBy, attempts, result, workerVars, alerted>>

(* More than STUCK_AFTER_SECONDS pass since the row's last heartbeat.      *)
GoStale(j) ==
  /\ status[j] \in Active /\ ~stale[j]
  /\ stale' = [stale EXCEPT ![j] = TRUE]
  /\ UNCHANGED <<status, claimedBy, attempts, result, workerVars, alerted, cancelling>>

-----------------------------------------------------------------------------
(* One worker process.                                                     *)

Release(w, to) ==
  /\ pc' = [pc EXCEPT ![w] = to]
  /\ held' = [held EXCEPT ![w] = NoJob]
  /\ claim' = [claim EXCEPT ![w] = 0]

(* lastReclaim starts at 0, so a new process reclaims before it polls.      *)
Boot(w) ==
  /\ pc[w] = "off"
  /\ pc' = [pc EXCEPT ![w] = "overdue"]
  /\ UNCHANGED <<rowVars, held, claim, toAlert, alerted, cancelling>>

(* RECLAIM_INTERVAL_MS has passed: the first statement of reclaimStuckJobs  *)
(* (the run locks it deletes belong to RunExecution).                      *)
Sweep(w) ==
  /\ pc[w] \in {"idle", "overdue"}
  /\ pc' = [pc EXCEPT ![w] = "sweeping"]
  /\ UNCHANGED <<rowVars, held, claim, toAlert, alerted, cancelling>>

Reclaim(w) ==
  /\ pc[w] = "sweeping"
  /\ ReclaimRows
  /\ toAlert' = [toAlert EXCEPT ![w] = Exhausted]
  /\ pc' = [pc EXCEPT ![w] = IF Exhausted = {} THEN "polling" ELSE "alerting"]
  /\ UNCHANGED <<held, claim, alerted, cancelling>>

(* The reclaim statement throws after it was applied: nobody is told which  *)
(* jobs were exhausted, lastReclaim keeps its value, and the loop tries the *)
(* reclaim again before it polls.                                          *)
ReclaimReplyLost(w) ==
  /\ pc[w] = "sweeping"
  /\ ReclaimRows
  /\ pc' = [pc EXCEPT ![w] = "overdue"]
  /\ UNCHANGED <<held, claim, toAlert, alerted, cancelling>>

(* After a reclaim the loop always polls once before it may reclaim again. *)
Claim(w) ==
  /\ pc[w] \in {"idle", "polling"}
  /\ \E j \in Jobs :
       /\ ClaimRow(w, j)
       /\ held' = [held EXCEPT ![w] = j]
       /\ claim' = [claim EXCEPT ![w] = attempts'[j]]
  /\ pc' = [pc EXCEPT ![w] = "claimed"]
  /\ UNCHANGED <<toAlert, alerted, cancelling>>

ClaimReplyLost(w) ==
  /\ pc[w] \in {"idle", "polling"}
  /\ \E j \in Jobs : ClaimRow(w, j)
  /\ pc' = [pc EXCEPT ![w] = "idle"]
  /\ UNCHANGED <<held, claim, toAlert, alerted, cancelling>>

PollNothing(w) ==
  /\ pc[w] = "polling"
  /\ ~ \E j \in Jobs : Claimable(j)
  /\ pc' = [pc EXCEPT ![w] = "idle"]
  /\ UNCHANGED <<rowVars, held, claim, toAlert, alerted, cancelling>>

Start(w) ==
  /\ pc[w] = "claimed"
  /\ StartRow(w, held[w])
  /\ pc' = [pc EXCEPT ![w] = "handling"]
  /\ UNCHANGED <<held, claim, toAlert, alerted, cancelling>>

StartSkipped(w) ==
  /\ pc[w] = "claimed"
  /\ ~ (status[held[w]] = "claimed" /\ claimedBy[held[w]] = w)
  /\ Release(w, "idle")
  /\ UNCHANGED <<rowVars, toAlert, alerted, cancelling>>

(* startJob throws, whether or not its update was applied.                 *)
StartFails(w) ==
  /\ pc[w] = "claimed"
  /\ StartRow(w, held[w]) \/ UNCHANGED rowVars
  /\ pc' = [pc EXCEPT ![w] = "threw"]
  /\ UNCHANGED <<held, claim, toAlert, alerted, cancelling>>

(* The interval timer runs until the finally block of processOne.          *)
Heartbeat(w) ==
  /\ pc[w] \in {"handling", "returned", "threw"}
  /\ Owns(w, held[w]) /\ stale[held[w]]
  /\ stale' = [stale EXCEPT ![held[w]] = FALSE]
  /\ UNCHANGED <<status, claimedBy, attempts, result, workerVars, alerted, cancelling>>

HandlerReturns(w) ==
  /\ pc[w] = "handling"
  /\ pc' = [pc EXCEPT ![w] = "returned"]
  /\ UNCHANGED <<rowVars, held, claim, toAlert, alerted, cancelling>>

HandlerThrows(w) ==
  /\ pc[w] = "handling"
  /\ pc' = [pc EXCEPT ![w] = "threw"]
  /\ UNCHANGED <<rowVars, held, claim, toAlert, alerted, cancelling>>

Complete(w) ==
  /\ pc[w] = "returned"
  /\ CompleteRow(w, held[w]) \/ (~Owns(w, held[w]) /\ UNCHANGED rowVars)
  /\ Release(w, "idle")
  /\ UNCHANGED <<toAlert, alerted, cancelling>>

(* completeJob throws, whether or not it was applied, and control goes to  *)
(* the catch block.                                                        *)
CompleteFails(w) ==
  /\ pc[w] = "returned"
  /\ CompleteRow(w, held[w]) \/ UNCHANGED rowVars
  /\ pc' = [pc EXCEPT ![w] = "threw"]
  /\ UNCHANGED <<held, claim, toAlert, alerted, cancelling>>

Fail(w) ==
  LET j == held[w] IN
  /\ pc[w] = "threw"
  /\ FailRow(w, j) \/ (~Owns(w, j) /\ UNCHANGED rowVars)
  /\ IF Owns(w, j) /\ status'[j] = "failed"
       THEN Release(w, "alerting") /\ toAlert' = [toAlert EXCEPT ![w] = {j}]
       ELSE Release(w, "idle") /\ UNCHANGED toAlert
  /\ UNCHANGED <<alerted, cancelling>>

(* failJob itself throws: the exception leaves processOne.                 *)
FailFails(w) ==
  /\ pc[w] = "threw"
  /\ FailRow(w, held[w]) \/ UNCHANGED rowVars
  /\ Release(w, "idle")
  /\ UNCHANGED <<toAlert, alerted, cancelling>>

Alert(w) ==
  /\ pc[w] = "alerting"
  /\ alerted' = alerted \union toAlert[w]
  /\ toAlert' = [toAlert EXCEPT ![w] = {}]
  /\ pc' = [pc EXCEPT ![w] = "polling"]
  /\ UNCHANGED <<rowVars, held, claim, cancelling>>

(* The process dies: its local state and its timer are gone, its rows stay. *)
(* The last id never dies, which bounds the number of restarts.            *)
Crash(w) ==
  /\ pc[w] \notin {"off", "dead"}
  /\ \E v \in Workers \ {w} : pc[v] # "dead"
  /\ Release(w, "dead")
  /\ toAlert' = [toAlert EXCEPT ![w] = {}]
  /\ UNCHANGED <<rowVars, alerted, cancelling>>

-----------------------------------------------------------------------------
Work(w) ==
  \/ Boot(w) \/ Sweep(w) \/ Reclaim(w) \/ ReclaimReplyLost(w)
  \/ Claim(w) \/ ClaimReplyLost(w) \/ PollNothing(w)
  \/ Start(w) \/ StartSkipped(w) \/ StartFails(w) \/ Heartbeat(w)
  \/ HandlerReturns(w) \/ HandlerThrows(w)
  \/ Complete(w) \/ CompleteFails(w) \/ Fail(w) \/ FailFails(w) \/ Alert(w)

Client(j) == Enqueue(j) \/ RequestCancel(j) \/ CancelJob(j) \/ GoStale(j)

Next ==
  \/ \E w \in Workers : Work(w) \/ Crash(w)
  \/ \E j \in Jobs : Client(j)

Spec == Init /\ [][Next]_vars

(* No live worker is handling j, so nothing refreshes its heartbeat.       *)
Unattended(j) == \A w \in Workers : pc[w] \in Holding => held[w] # j

(* Scheduling the code relies on: the process supervisor restarts the       *)
(* server, the event loop keeps running each worker's loop, handlers return *)
(* or throw (adapters carry timeouts), statements eventually succeed, and   *)
(* time passes for rows nobody attends to.  The reclaim needs strong        *)
(* fairness: each failed one sends the loop back to it before it may poll.  *)
Fairness ==
  /\ \A w \in Workers :
       /\ WF_vars(Boot(w)) /\ WF_vars(Sweep(w)) /\ SF_vars(Reclaim(w))
       /\ WF_vars(Claim(w)) /\ WF_vars(PollNothing(w))
       /\ WF_vars(Start(w) \/ StartSkipped(w))
       /\ WF_vars(HandlerReturns(w) \/ HandlerThrows(w))
       /\ WF_vars(Complete(w)) /\ WF_vars(Fail(w)) /\ WF_vars(Alert(w))
  /\ \A j \in Jobs : WF_vars(GoStale(j) /\ Unattended(j))

FairSpec == Spec /\ Fairness

-----------------------------------------------------------------------------
(* Every variable has its type (the columns of jobs, the locals of a       *)
(* worker).                                                                *)
TypeOK ==
  /\ status \in [Jobs -> JobStatus]
  /\ claimedBy \in [Jobs -> Workers \union {NoWorker}]
  /\ attempts \in [Jobs -> Nat]
  /\ stale \in [Jobs -> BOOLEAN]
  /\ result \in [Jobs -> Nat]
  /\ pc \in [Workers -> WorkerPC]
  /\ held \in [Workers -> Jobs \union {NoJob}]
  /\ claim \in [Workers -> Nat]
  /\ toAlert \in [Workers -> SUBSET Jobs]
  /\ alerted \in SUBSET Jobs
  /\ cancelling \in SUBSET Jobs

(* claimNext only takes rows with attempts < max_attempts, so a pending row *)
(* that has used them all up would wait for ever: no failure, reclaim or   *)
(* crash may leave one.                                                    *)
NoUnclaimablePending ==
  \A j \in Jobs : status[j] = "pending" => Claimable(j)

(* Owning a row means holding the claim that is current: a worker that was *)
(* reclaimed and comes back late cannot own it through an earlier claim.    *)
OwnerHoldsCurrentClaim ==
  \A w \in Workers : \A j \in Jobs :
    pc[w] \in Holding /\ held[w] = j /\ Owns(w, j) => claim[w] = attempts[j]

(* A permanent-failure alert is only sent for a job that really failed for *)
(* good with its attempts used up, whoever else touched the row meanwhile. *)
AlertsOnlyExhausted ==
  \A j \in Jobs : j \in alerted =>
    status[j] = "failed" /\ attempts[j] = MaxAttempts[j]

(* What counts as used up is the same for the claim, the failure, the      *)
(* reclaim and the alert: no comparison with max_attempts is one off.       *)
ExhaustionIsSound == NoUnclaimablePending /\ AlertsOnlyExhausted

(* Two workers never both hold a claim of the same number on one job, so   *)
(* no claim is handed out twice and the handler runs at most once per      *)
(* attempt, crashes, lost replies and reclaims included.                   *)
ClaimsAreDistinct ==
  \A v, w \in Workers :
    /\ v # w /\ pc[v] \in Holding /\ pc[w] \in Holding
    /\ held[v] = held[w]
    => claim[v] # claim[w]

(* A row in a terminal status keeps it, and a completed row keeps the       *)
(* result of its last claim, whatever late worker or cancel arrives.        *)
SettledIsFinal ==
  [][\A j \in Jobs : status[j] \in Terminal =>
       status'[j] = status[j] /\ result'[j] = result[j]]_vars

(* Under the stated fairness every job that is enqueued is settled in the  *)
(* end: attempts bound the retries, and every abandoned claim is reclaimed. *)
EveryJobSettles ==
  \A j \in Jobs : (status[j] = "pending") ~> (status[j] \in Terminal)

(* The queue implements leased work: its claims are the leases, and the     *)
(* answer kept is the answer of the current lease.                         *)
LeaseState ==
  [j \in Jobs |-> CASE status[j] = "absent" -> "new"
                    [] status[j] = "pending" -> "open"
                    [] status[j] \in Active -> "leased"
                    [] OTHER -> status[j]]

Leases == INSTANCE LeasedWork WITH
  state <- LeaseState, tries <- attempts, answer <- result

ImplementsLeases == Leases!Spec

=============================================================================
