------------------------------ MODULE AgentGroup ------------------------------
(***************************************************************************)
(* One agent group (a room, modules/agentGroups): its status, its runs, the *)
(* delegations between them, and the wait of a run for the results of       *)
(* others (agent.wait_for_results), which ends when the lifecycle projector *)
(* reports the end of the last of them.                                    *)
(*                                                                         *)
(* A report is a transaction that reads the runs and writes later what it   *)
(* found, without locking them, so it is two actions; every other action   *)
(* is a statement or a transaction that holds the rows it decides by.      *)
(* Any number of runs execute at once, for jobs or for HTTP requests, but   *)
(* the execution lock (RunExecution) keeps each run to one executor until   *)
(* its report is done.  Of the attempts of a run only the current one is   *)
(* here; whether a retry is allowed is left open, RunRecords has the rules. *)
(***************************************************************************)
EXTENDS Naturals, FiniteSets

CONSTANTS
  Runs, NoRun,
  MaxDepth, MaxFanout, MaxConcurrency,  \* delegationBudgetLimits of the group
  MaxTurn,                              \* recipients of a message
  MaxExecutors,                         \* executions at once: jobs and requests
  MaxIncidents                          \* bound on what disturbs: see Incident

ASSUME GroupAssumption ==
  /\ NoRun \notin Runs /\ IsFiniteSet(Runs)
  /\ {MaxDepth, MaxFanout, MaxConcurrency, MaxTurn, MaxExecutors,
      MaxIncidents} \subseteq Nat

Nothing == [status |-> "none", ready |-> {}]

VARIABLES
  group,         \* agent_run_groups.status
  status,        \* runs.status; degraded and orphaned count as failed
  parent,        \* runs.parent_run_id
  delegation,    \* run_delegations.status of a delegated run
  rows,          \* the run_delegations rows of each parent, denied ones too
  depends,       \* depends_on_run_ids of a waiting run
  pc,            \* where the executor of each run is
  want,          \* what the wait tool read, until the run is parked
  confirming,    \* runs whose cancel request waits for the process to exit
  due,           \* ended runs that somebody is about to report
  draft,         \* the open report of each run: what it has read
  crashed,       \* the server has died and started again
  incidents,     \* how often Incident was taken
  ended,         \* history: the runs that have ended once
  silent,        \* history: ended runs whose end nobody reports
  missed         \* history: waiting runs that a report passed over, or that
                 \*   were parked after everything they wait for had ended

vars == <<group, status, parent, delegation, rows, depends, pc, want, confirming,
          due, draft, crashed, incidents, ended, silent, missed>>
treeVars == <<parent, delegation, rows>>
incidentVars == <<crashed, incidents>>

Ended == {"succeeded", "failed", "cancelled"}
Cancellable == {"queued", "running", "review", "waiting", "cancelling"}
(* What a quiet day would not bring: cancels, failures, reviews, crashes.    *)
(* The weight of an incident only serves to bound the exploration.          *)
Weigh(n) ==
  /\ incidents + n <= MaxIncidents
  /\ incidents' = incidents + n

Incident == Weigh(1) /\ UNCHANGED crashed
Accident == Weigh(2) /\ UNCHANGED crashed

Delegated == {r \in Runs : delegation[r] # "none"}
Exists(r) == status[r] # "absent"

Init ==
  /\ group = "active"
  /\ status = [r \in Runs |-> "absent"]
  /\ parent = [r \in Runs |-> NoRun]
  /\ delegation = [r \in Runs |-> "none"]
  /\ rows = [r \in Runs |-> 0]
  /\ depends = [r \in Runs |-> {}]
  /\ pc = [r \in Runs |-> "idle"]
  /\ want = [r \in Runs |-> {}]
  /\ confirming = {} /\ due = {} /\ draft = [r \in Runs |-> Nothing]
  /\ crashed = FALSE /\ incidents = 0
  /\ ended = {} /\ silent = {} /\ missed = {}

-----------------------------------------------------------------------------
(* The group: messages, status, delegations.                               *)

(* sendUserMessage creates a run for every recipient; the first run of the  *)
(* group is its root, the others hang below it without a delegation.       *)
SendMessage(S) ==
  /\ group = "active"
  /\ S # {} /\ Cardinality(S) <= MaxTurn /\ \A r \in S : ~ Exists(r)
  /\ status' = [r \in Runs |-> IF r \in S THEN "queued" ELSE status[r]]
  /\ \E root \in {r \in Runs : Exists(r) /\ parent[r] = NoRun} \union
                 {r \in S : \A x \in Runs : ~ Exists(x)} :
       parent' = [r \in Runs |-> IF r \in S \ {root} THEN root ELSE parent[r]]
  /\ UNCHANGED <<group, delegation, rows, depends, pc, want, confirming, due, draft,
                 incidentVars, ended, silent, missed>>

ChangeStatus(s) ==
  /\ group \in {"active", "paused"}
  /\ group' = s /\ Incident
  /\ UNCHANGED <<status, treeVars, depends, pc, want, confirming, due, draft,
                 ended, silent, missed>>

(* runDepth: the length of the run's lineage.                              *)
Depth[r \in Runs] == IF parent[r] = NoRun THEN 0 ELSE Depth[parent[r]] + 1

Active == {r \in Delegated : status[r] \in {"queued", "running", "review"}}

WithinBudget_ParentDepth(p) ==
  /\ Depth[p] <= MaxDepth
  /\ rows[p] <= MaxFanout
  /\ Cardinality(Active) <= MaxConcurrency

WithinBudget_AnyFanout(p) ==
  /\ Depth[p] + 1 <= MaxDepth
  /\ Cardinality(Active) <= MaxConcurrency

(* What enforceSpawnPolicy asks of the budget; the new run counts for the   *)
(* depth, but neither for the fan-out nor for the concurrency.              *)
WithinBudget(p) ==
  /\ Depth[p] + 1 <= MaxDepth
  /\ rows[p] <= MaxFanout
  /\ Cardinality(Active) <= MaxConcurrency

CreateChild(p, c) ==
  /\ ~ Exists(c)
  /\ status' = [status EXCEPT ![c] = "queued"]
  /\ parent' = [parent EXCEPT ![c] = p]
  /\ delegation' = [delegation EXCEPT ![c] = "queued"]
  /\ rows' = [rows EXCEPT ![p] = @ + 1]

(* agent.delegate: the policy is asked in a transaction of its own ...      *)
Preflight(p) ==
  /\ pc[p] = "working" /\ group = "active" /\ WithinBudget(p)
  /\ pc' = [pc EXCEPT ![p] = "allowed"]
  /\ UNCHANGED <<group, status, treeVars, depends, want, confirming, due, draft,
                 incidentVars, ended, silent, missed>>

(* ... and its answer used in the next, which looks at the group again.     *)
Spawn(p) ==
  /\ pc[p] = "allowed"
  /\ pc' = [pc EXCEPT ![p] = "working"]
  /\ \/ group = "active" /\ \E c \in Runs : CreateChild(p, c)
     \/ group # "active" /\ UNCHANGED <<status, treeVars>>
  /\ UNCHANGED <<group, depends, want, confirming, due, draft, incidentVars, ended,
                 silent, missed>>

(* A delegation in the run's output is decided and made in one transaction, *)
(* by the executor before it writes the end of the run.                    *)
Materialize(p) ==
  /\ pc[p] = "working" /\ group = "active" /\ WithinBudget(p)
  /\ \E c \in Runs : CreateChild(p, c)
  /\ UNCHANGED <<group, depends, pc, want, confirming, due, draft, incidentVars, ended,
                 silent, missed>>

(* One that is denied, for the budget or for a reason that is not here      *)
(* (members, authority), leaves its row; beyond MaxFanout one row more makes *)
(* no difference.                                                          *)
Deny(p) ==
  /\ pc[p] = "working" /\ group = "active" /\ rows[p] <= MaxFanout
  /\ rows' = [rows EXCEPT ![p] = @ + 1] /\ Accident
  /\ UNCHANGED <<group, status, parent, delegation, depends, pc, want, confirming, due,
                 draft, ended, silent, missed>>

-----------------------------------------------------------------------------
(* A run's execution, as far as the group can tell.                        *)

(* The run ends; by told, somebody is about to report it.                   *)
End(r, s, told) ==
  /\ status' = [status EXCEPT ![r] = s]
  /\ ended' = ended \union {r}
  /\ silent' = IF told THEN silent \ {r} ELSE silent \union {r}

(* Somebody is on the way to report the end of r.                          *)
Reporting(r) == r \in due \/ draft[r] # Nothing

Free(r) == pc[r] = "idle" /\ ~ Reporting(r)

Start(r) ==
  /\ status[r] = "queued" /\ Free(r)
  /\ Cardinality({x \in Runs : pc[x] # "idle"}) < MaxExecutors
  /\ status' = [status EXCEPT ![r] = "running"]
  /\ pc' = [pc EXCEPT ![r] = IF r \in Delegated THEN "starting" ELSE "working"]
  /\ UNCHANGED <<group, treeVars, depends, want, confirming, due, draft, incidentVars,
                 ended, silent, missed>>

(* The dispatch contract rejects the run: it is finalized, never reported.  *)
Reject(r) ==
  /\ status[r] = "queued" /\ Free(r)
  /\ End(r, "failed", FALSE) /\ Accident
  /\ UNCHANGED <<group, treeVars, depends, pc, want, confirming, due, draft, missed>>

TellStarted_Unguarded(r) ==
  /\ pc[r] = "starting"
  /\ pc' = [pc EXCEPT ![r] = "working"]
  /\ delegation' = [delegation EXCEPT ![r] = "running"]
  /\ UNCHANGED <<group, status, parent, rows, depends, want, confirming, due, draft,
                 incidentVars, ended, silent, missed>>

(* markDelegatedRunRunning; by now the run may have ended.                  *)
TellStarted(r) ==
  /\ pc[r] = "starting"
  /\ pc' = [pc EXCEPT ![r] = "working"]
  /\ delegation' = [delegation EXCEPT ![r] = IF @ = "queued" THEN "running" ELSE @]
  /\ UNCHANGED <<group, status, parent, rows, depends, want, confirming, due, draft,
                 incidentVars, ended, silent, missed>>

(* Nobody minds when it fails.                                             *)
TellStartedFails(r) ==
  /\ pc[r] = "starting"
  /\ pc' = [pc EXCEPT ![r] = "working"] /\ Accident
  /\ UNCHANGED <<group, status, treeVars, depends, want, confirming, due, draft, ended,
                 silent, missed>>

(* agent.wait_for_results: the delegated runs, those of the turn, or any     *)
(* runs of the group the model names; the tool suspends the run when one of  *)
(* them has not ended.                                                     *)
Wait(r) ==
  /\ pc[r] = "working"
  /\ \E D \in SUBSET {x \in Runs \ {r} : Exists(x)} :
       /\ \E d \in D : status[d] \notin Ended
       /\ want' = [want EXCEPT ![r] = D]
  /\ pc' = [pc EXCEPT ![r] = "suspended"]
  /\ UNCHANGED <<group, status, treeVars, depends, confirming, due, draft, incidentVars,
                 ended, silent, missed>>

(* markRunWaitingForDependency; nobody looks again at what it waits for.    *)
Park(r) ==
  /\ pc[r] = "suspended"
  /\ IF status[r] = "running"
       THEN /\ status' = [status EXCEPT ![r] = "waiting"]
            /\ depends' = [depends EXCEPT ![r] = want[r]]
            /\ missed' = IF \A d \in want[r] : status[d] \in Ended
                           THEN missed \union {r} ELSE missed \ {r}
       ELSE UNCHANGED <<status, depends, missed>>
  /\ want' = [want EXCEPT ![r] = {}]
  /\ pc' = [pc EXCEPT ![r] = "idle"]
  /\ UNCHANGED <<group, treeVars, confirming, due, draft, incidentVars, ended, silent>>

PauseForReview(r) ==
  /\ pc[r] = "working"
  /\ status' = [status EXCEPT ![r] = IF @ = "running" THEN "review" ELSE @]
  /\ pc' = [pc EXCEPT ![r] = "idle"] /\ Incident
  /\ UNCHANGED <<group, treeVars, depends, want, confirming, due, draft, ended, silent,
                 missed>>

(* The adapter returns or throws.  The executor finalizes and then reports; *)
(* a success that is degraded because finalizing it failed counts as failed *)
(* from the start.                                                         *)
Finish(r) ==
  /\ pc[r] = "working" /\ status[r] \notin Ended
  /\ pc' = [pc EXCEPT ![r] = "idle"]
  /\ due' = due \union {r}
  /\ \/ End(r, "succeeded", TRUE) /\ UNCHANGED incidentVars
     \/ End(r, "failed", TRUE) /\ Incident
  /\ UNCHANGED <<group, treeVars, depends, want, confirming, draft, missed>>

(* A run that was cancelled stays so.                                      *)
FinishTooLate(r) ==
  /\ pc[r] = "working" /\ status[r] \in Ended
  /\ pc' = [pc EXCEPT ![r] = "idle"]
  /\ UNCHANGED <<group, status, treeVars, depends, want, confirming, due, draft,
                 incidentVars, ended, silent, missed>>

(* The supervisor puts a failed run back or on hold, for the executor or for *)
(* whoever else finalizes it, at any time.                                 *)
Supervise(r) ==
  /\ status[r] = "failed"
  /\ \E s \in {"queued", "review"} : status' = [status EXCEPT ![r] = s]
  /\ silent' = silent \ {r}
  /\ UNCHANGED <<group, treeVars, depends, pc, want, confirming, due, draft,
                 incidentVars, ended, missed>>

-----------------------------------------------------------------------------
(* markDelegatedRunTerminal: the report of a run's end.                     *)

Waiting(r) == {w \in Runs : status[w] = "waiting" /\ r \in depends[w]}
AllEnded(w) == \A d \in depends[w] : status[d] \in Ended

Ready_Any(r) == {w \in Waiting(r) : \E d \in depends[w] : status[d] \in Ended}
Ready_ParentOnly(r) == {w \in Waiting(r) : AllEnded(w) /\ w = parent[r]}
Ready(r) == {w \in Waiting(r) : AllEnded(w)}

(* It stops when the run is no longer ended or its delegation already is;    *)
(* otherwise it takes down the waiting runs that are ready, unless the group *)
(* is not active.                                                          *)
Collect(r) ==
  /\ r \in due /\ draft[r] = Nothing
  /\ due' = due \ {r}
  /\ IF /\ status[r] \in Ended
        /\ delegation[r] \in {"none", "queued", "running"}
       THEN /\ draft' = [draft EXCEPT ![r] =
                 [status |-> status[r],
                  ready |-> IF group = "active"
                              THEN {[run |-> w, on |-> depends[w]] : w \in Ready(r)}
                              ELSE {}]]
            /\ missed' = IF group = "active" THEN missed ELSE missed \union Ready(r)
       ELSE /\ missed' = IF status[r] \in Ended THEN missed \union Ready(r) ELSE missed
            /\ UNCHANGED draft
  /\ UNCHANGED <<group, status, treeVars, depends, pc, want, confirming, incidentVars,
                 ended, silent>>

(* It commits: the delegation ends, and what is still waiting is queued.    *)
Report(r) ==
  LET W == {w \in Runs : status[w] = "waiting" /\ \E x \in draft[r].ready : x.run = w} IN
  /\ draft[r] # Nothing
  /\ status' = [w \in Runs |-> IF w \in W THEN "queued" ELSE status[w]]
  /\ delegation' = IF delegation[r] \in {"queued", "running"}
                     THEN [delegation EXCEPT ![r] = draft[r].status] ELSE delegation
  /\ depends' = [w \in Runs |-> IF w \in W THEN {} ELSE depends[w]]
  /\ missed' = missed \ W
  /\ draft' = [draft EXCEPT ![r] = Nothing]
  /\ UNCHANGED <<group, parent, rows, pc, want, confirming, due, incidentVars,
                 ended, silent>>

(* The transaction fails; the caller goes on without.                      *)
ReportFails(r) ==
  /\ draft[r] # Nothing
  /\ draft' = [draft EXCEPT ![r] = Nothing]
  /\ silent' = IF status[r] \in Ended /\ r \notin due THEN silent \union {r} ELSE silent
  /\ Accident
  /\ UNCHANGED <<group, status, treeVars, depends, pc, want, confirming, due, ended,
                 missed>>

-----------------------------------------------------------------------------
(* What else ends, resumes or loses runs.                                  *)

RequestCancel(r) ==
  /\ status[r] \in Cancellable
  /\ status' = [status EXCEPT ![r] = "cancelling"]
  /\ depends' = [depends EXCEPT ![r] = {}] /\ missed' = missed \ {r}
  /\ confirming' = confirming \union {r} /\ Incident
  /\ UNCHANGED <<group, treeVars, pc, want, due, draft, ended, silent>>

ConfirmCancel_Silent(r) ==
  /\ r \in confirming
  /\ confirming' = confirming \ {r}
  /\ IF status[r] \in Ended
       THEN UNCHANGED <<status, ended, silent>>
       ELSE End(r, "cancelled", TRUE)
  /\ UNCHANGED <<group, treeVars, depends, pc, want, due, draft, incidentVars, missed>>

(* The process has exited; unless the run has ended meanwhile it is          *)
(* cancelled, finalized (which does nothing more to it) and reported.       *)
ConfirmCancel(r) ==
  /\ r \in confirming
  /\ confirming' = confirming \ {r}
  /\ IF status[r] \in Ended
       THEN UNCHANGED <<status, due, ended, silent>>
       ELSE End(r, "cancelled", TRUE) /\ due' = due \union {r}
  /\ UNCHANGED <<group, treeVars, depends, pc, want, draft, incidentVars, missed>>

ExitUnconfirmed(r) ==
  /\ r \in confirming
  /\ confirming' = confirming \ {r}
  /\ UNCHANGED <<group, status, treeVars, depends, pc, want, due, draft, incidentVars, ended,
                 silent, missed>>

(* cancelJob ends a run that has a job, and reports nothing.               *)
CancelWithJob(r) ==
  /\ status[r] \in {"queued", "running", "cancelling"}
  /\ End(r, "cancelled", FALSE) /\ Accident
  /\ UNCHANGED <<group, treeVars, depends, pc, want, confirming, due, draft, missed>>

(* A held run is resumed, or abandoned, which reports nothing either.       *)
Resume(r) ==
  /\ status[r] = "review"
  /\ status' = [status EXCEPT ![r] = "queued"]
  /\ UNCHANGED <<group, treeVars, depends, pc, want, confirming, due, draft, incidentVars,
                 ended, silent, missed>>

Abandon(r) ==
  /\ status[r] = "review"
  /\ End(r, "cancelled", FALSE)
  /\ UNCHANGED <<group, treeVars, depends, pc, want, confirming, due, draft, incidentVars,
                 missed>>

Crash ==
  /\ Weigh(2) /\ crashed' = TRUE
  /\ silent' = silent \union {r \in Runs : status[r] \in Ended /\ Reporting(r)}
  /\ pc' = [r \in Runs |-> "idle"] /\ want' = [r \in Runs |-> {}]
  /\ confirming' = {} /\ due' = {} /\ draft' = [r \in Runs |-> Nothing]
  /\ UNCHANGED <<group, status, treeVars, depends, ended, missed>>

(* After a crash recoverStaleRuns, or the reclaim of the run's job when its  *)
(* attempts are used up, ends the run that lost its executor, unreported.   *)
Recover(r) ==
  /\ crashed /\ pc[r] = "idle" /\ status[r] \in {"running", "cancelling"}
  /\ End(r, "failed", FALSE)
  /\ UNCHANGED <<group, treeVars, depends, pc, want, confirming, due, draft,
                 incidentVars, missed>>

-----------------------------------------------------------------------------
Delegate(p) == Preflight(p) \/ Spawn(p) \/ Materialize(p) \/ Deny(p)

Execute(r) ==
  \/ Start(r) \/ Reject(r) \/ TellStarted(r) \/ TellStartedFails(r)
  \/ Wait(r) \/ Park(r)
  \/ PauseForReview(r) \/ Finish(r) \/ FinishTooLate(r) \/ Supervise(r)

Project(r) == Collect(r) \/ Report(r) \/ ReportFails(r)

Interfere(r) ==
  \/ RequestCancel(r) \/ ConfirmCancel(r) \/ ExitUnconfirmed(r) \/ CancelWithJob(r)
  \/ Resume(r) \/ Abandon(r) \/ Recover(r)

Next ==
  \/ \E S \in SUBSET Runs : SendMessage(S)
  \/ \E s \in {"active", "paused", "cancelled"} : ChangeStatus(s)
  \/ \E r \in Runs : Delegate(r) \/ Execute(r) \/ Project(r) \/ Interfere(r)
  \/ Crash

Spec == Init /\ [][Next]_vars

-----------------------------------------------------------------------------
(* Every variable has its type (rows of agent_run_groups, runs and           *)
(* run_delegations, the locals of executor, canceller and projector).      *)
GroupTypeOK ==
  /\ group \in {"active", "paused", "cancelled"}
  /\ status \in [Runs -> Cancellable \union Ended \union {"absent"}]
  /\ parent \in [Runs -> Runs \union {NoRun}]
  /\ delegation \in [Runs -> {"none", "queued", "running"} \union Ended]
  /\ rows \in [Runs -> 0..MaxFanout + 1]
  /\ depends \in [Runs -> SUBSET Runs] /\ want \in [Runs -> SUBSET Runs]
  /\ pc \in [Runs -> {"idle", "starting", "working", "allowed", "suspended"}]
  /\ \A r \in Runs : /\ draft[r].status \in Ended \union {"none"}
                     /\ draft[r].ready \subseteq [run : Runs, on : SUBSET Runs]
  /\ confirming \union due \union ended \union silent \union missed \subseteq Runs
  /\ crashed \in BOOLEAN /\ incidents \in 0..MaxIncidents

(* RUNS_AND_OUTPUTS: a waiting run "is requeued as the same run after all    *)
(* declared dependency runs are terminal": while everything it waits for    *)
(* has ended, a report is on the way, whatever cancels, retries and other   *)
(* reports happen at the same time.  Only an end that nobody reports, a     *)
(* report that met an inactive group or a delegation already ended, or a    *)
(* park that came too late leaves it waiting.                              *)
WaitersAreWoken ==
  \A w \in Runs : status[w] = "waiting" /\ AllEnded(w) =>
    w \in missed \/ \E d \in depends[w] : d \in silent \/ Reporting(d)

(* A run comes back from its wait only when each run it waits for has ended  *)
(* once, even if one of them is retried in the meantime; or when a report   *)
(* collected it for an earlier wait and it was parked again before the     *)
(* report was committed.                                                   *)
WakeUpsAreEarned ==
  [][\A w \in Runs : status[w] = "waiting" /\ status'[w] = "queued" =>
       \/ depends[w] \subseteq ended
       \/ \E r \in Runs : \E x \in draft[r].ready :
            x.run = w /\ x.on # depends[w] /\ x.on \subseteq ended]_vars

(* A delegation says what became of its run: success and cancellation are    *)
(* only written for a run that succeeded or was cancelled and stays so, and *)
(* the delegation of an ended run is open only until its report or when     *)
(* nobody reports it, whenever the late news of its start arrives.          *)
DelegationsFollowTheirRuns ==
  \A r \in Delegated :
    /\ delegation[r] \in {"succeeded", "cancelled"} => status[r] = delegation[r]
    /\ status[r] \in Ended /\ delegation[r] \in {"queued", "running"} =>
         r \in silent \/ Reporting(r)

(* The delegation budget bounds the tree: no delegated run is deeper than    *)
(* max_depth and no run delegates to more than max_fanout others and one    *)
(* more, although the policy's answer is used in a later transaction and    *)
(* runs are retried, cancelled and restarted in between.                   *)
TreeIsBounded ==
  \A r \in Runs :
    /\ r \in Delegated => Depth[r] <= MaxDepth
    /\ Cardinality({c \in Delegated : parent[c] = r}) <= MaxFanout + 1

=============================================================================
