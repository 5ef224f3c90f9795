------------------------------ MODULE NodeRuns ------------------------------
(***************************************************************************)
(* The nodes of an execution graph and the child run each task node gets,  *)
(* as plans and workflow executions share them: modules/execution keeps    *)
(* the status rules of the graph, and both graph services project the      *)
(* latest run of each node and schedule the nodes that are ready with the  *)
(* same statements.                                                        *)
(*                                                                         *)
(* A child run is followed as far as a graph can tell: its status, its     *)
(* attempts, its latest evaluation and how far the finalizer of its latest *)
(* attempt has come.  RunRecords has the rest.  Each action is one         *)
(* statement or one transaction on the run; a finalizer that crashes and a *)
(* finalize request show as these steps being taken late, by someone else, *)
(* or never.  A queued run may lose its job, and a running one its         *)
(* executor: RunExecution shows how.                                       *)
(***************************************************************************)
EXTENDS Naturals, FiniteSets

CONSTANTS
  Nodes,         \* the nodes of the graph
  Deps,          \* Deps[n]: the nodes n depends on; the graph has no cycle
  Kind,          \* the kind of each node; "leaf" and "exploratory" are "task"
  MaxAttempts,   \* the supervisor's cap on physical attempts
  MaxRows,       \* bound on the attempts of a run, a human's resumes included
  Reconcilers,   \* transactions that may reconcile the graph at once
  NoDraft        \* the transaction is not open

ASSUME GraphAssumption ==
  /\ IsFiniteSet(Nodes) /\ Nodes # {}
  /\ Deps \in [Nodes -> SUBSET Nodes]
  /\ Kind \in [Nodes -> {"task", "checkpoint", "integration"}]
  /\ MaxAttempts \in Nat \ {0} /\ MaxRows \in Nat \ {0}

VARIABLES
  node,          \* the status of each node
  proposal,      \* the proposal of each checkpoint
  links,         \* rows that link a run to the node
  run,           \* runs.status of the latest linked run, "none" without one:
                 \* "lost" is queued with no job on its way, "stale" is
                 \* running with no executor, "review" waits for a human
  attempt,       \* its latest attempt number
  verdict,       \* outcome_status of its latest evaluation, of whatever attempt
  passed,        \* the nodes with a run_evaluations row that says "passed"
  stage,         \* how far the latest attempt is finalized
  draft          \* what each open reconcile transaction has made of node

childVars == <<run, attempt, verdict, passed, stage>>
graphVars == <<node, proposal, links, childVars, draft>>

NodeStatus == {"inbox", "in_progress", "waiting_for_review", "done", "failed", "blocked"}
LiveNode == {"inbox", "in_progress", "waiting_for_review"}
NodeStates == [Nodes -> NodeStatus]
LiveRun == {"queued", "lost", "running", "stale", "review"}
EndedRun == {"succeeded", "degraded", "failed", "cancelled"}
RunStatus == {"none"} \union LiveRun \union EndedRun
Proposal == {"none", "pending", "accepted", "rejected"}
ASSUME NoDraftAssumption == NoDraft \notin NodeStates
NoDrafts == [p \in Reconcilers |-> NoDraft]

GraphInit ==
  /\ node = [n \in Nodes |-> "inbox"]
  /\ proposal = [n \in Nodes |-> "none"]
  /\ links = [n \in Nodes |-> 0]
  /\ run = [n \in Nodes |-> "none"]
  /\ attempt = [n \in Nodes |-> 0]
  /\ verdict = [n \in Nodes |-> "none"] /\ passed = {}
  /\ stage = [n \in Nodes |-> "open"]
  /\ draft = NoDrafts

-----------------------------------------------------------------------------
(* The rules of ExecutionGraphScheduler.                                   *)

(* A definition X_Slip is a mutant of X: how X would read with a plausible  *)
(* bug, named by the slip, in the code.  Only the mutation checks that      *)
(* PROJECT.json lists use them.                                            *)
ReadyNodes_AnyDep(st) ==
  {n \in Nodes : st[n] = "inbox" /\ (Deps[n] = {} \/ \E d \in Deps[n] : st[d] = "done")}

ReadyNodes(st) ==
  {n \in Nodes : st[n] = "inbox" /\ \A d \in Deps[n] : st[d] = "done"}

HasFailedNode(st) == \E n \in Nodes : st[n] = "failed"

IsComplete(st) == \A n \in Nodes : st[n] = "done"

ProjectRunOutcome_AnyVerdict(n, s) ==
  CASE run[n] \in {"failed", "cancelled"} -> "failed"
    [] run[n] \in {"succeeded", "degraded"} -> "done"
    [] OTHER -> s

ProjectRunOutcome_NotCancelled(n, s) ==
  CASE run[n] = "failed" -> "failed"
    [] run[n] \in {"succeeded", "degraded"} /\ verdict[n] = "passed" -> "done"
    [] run[n] \in {"succeeded", "degraded"} /\ verdict[n] # "none" -> "failed"
    [] OTHER -> s

(* What the latest run of n and its latest evaluation make of status s: an *)
(* orphaned run is a failed one, and a success counts when it has passed.  *)
ProjectRunOutcome(n, s) ==
  CASE run[n] \in {"failed", "cancelled"} -> "failed"
    [] run[n] \in {"succeeded", "degraded"} /\ verdict[n] = "passed" -> "done"
    [] run[n] \in {"succeeded", "degraded"} /\ verdict[n] # "none" -> "failed"
    [] OTHER -> s

ProjectLatestRuns(st) == [n \in Nodes |-> ProjectRunOutcome(n, st[n])]

-----------------------------------------------------------------------------
(* Scheduling.  R is what is ready in st, of which the inputs of the tasks *)
(* in U cannot be resolved and the integrations in F fail verification.    *)

Tasks == {n \in Nodes : Kind[n] = "task"}
Checkpoints == {n \in Nodes : Kind[n] = "checkpoint"}

StartRuns(S) ==
  /\ links' = [n \in Nodes |-> IF n \in S THEN links[n] + 1 ELSE links[n]]
  /\ run' = [n \in Nodes |-> IF n \in S THEN "queued" ELSE run[n]]
  /\ attempt' = [n \in Nodes |-> IF n \in S THEN 1 ELSE attempt[n]]
  /\ verdict' = [n \in Nodes |-> IF n \in S THEN "none" ELSE verdict[n]]
  /\ passed' = passed \ S
  /\ stage' = [n \in Nodes |-> IF n \in S THEN "open" ELSE stage[n]]

ScheduledStatus_Ready(n, U, F) ==
  CASE Kind[n] = "checkpoint" -> "waiting_for_review"
    [] Kind[n] = "integration" -> IF n \in F THEN "failed" ELSE "done"
    [] OTHER -> IF n \in U THEN "failed" ELSE "ready"

ScheduledStatus(n, U, F) ==
  CASE Kind[n] = "checkpoint" -> "waiting_for_review"
    [] Kind[n] = "integration" -> IF n \in F THEN "failed" ELSE "done"
    [] OTHER -> IF n \in U THEN "failed" ELSE "in_progress"

(* Only a task with dependencies has inputs to resolve.                    *)
ScheduleReadyNodes(st, opened, F) ==
  LET R == ReadyNodes(st) IN
  \E U \in SUBSET {n \in R \intersect Tasks : Deps[n] # {}} :
    /\ node' = [n \in Nodes |-> IF n \in R THEN ScheduledStatus(n, U, F) ELSE st[n]]
    /\ proposal' = [n \in Nodes |-> IF n \in R \intersect Checkpoints
                                    THEN "pending" ELSE opened[n]]
    /\ StartRuns((R \intersect Tasks) \ U)

-----------------------------------------------------------------------------
(* The reconcile transaction.  It locks the aggregate, projects the runs   *)
(* and reads the nodes back; later it ends the graph or schedules from     *)
(* what it read.  A checkpoint approved in the same transaction is done    *)
(* in the draft.                                                           *)

Unlocked == draft = NoDrafts

OpenDraft_NoLock(p, st) ==
  /\ draft[p] = NoDraft
  /\ draft' = [draft EXCEPT ![p] = ProjectLatestRuns(st)]

OpenDraft(p, st) ==
  /\ Unlocked
  /\ draft' = [draft EXCEPT ![p] = ProjectLatestRuns(st)]

CloseDraft(p) == draft' = [draft EXCEPT ![p] = NoDraft]

(* The proposals as they are when the draft of p commits.                  *)
Opened(p) ==
  [n \in Nodes |->
     IF n \in Checkpoints /\ proposal[n] = "pending" /\ draft[p][n] = "done"
     THEN "accepted" ELSE proposal[n]]

(* A statement fails, a deadlock is broken, or the server dies.            *)
RollBack(p) ==
  /\ draft[p] # NoDraft
  /\ CloseDraft(p)
  /\ UNCHANGED <<node, proposal, links, childVars>>

Awaiting(n) ==
  n \in Checkpoints /\ node[n] = "waiting_for_review" /\ proposal[n] = "pending"

(* Its row is locked while it is being approved.                           *)
Approving(n) == \E p \in Reconcilers : draft[p] # NoDraft /\ draft[p][n] = "done"

RejectCheckpoint(n) ==
  /\ proposal[n] = "pending" /\ ~Approving(n)
  /\ proposal' = [proposal EXCEPT ![n] = "rejected"]
  /\ UNCHANGED <<node, links, childVars, draft>>

-----------------------------------------------------------------------------
(* The child run of n.                                                     *)

SetRun(n, s) == run' = [run EXCEPT ![n] = s]
KeepGraph == UNCHANGED <<node, proposal, links, draft>>

StartRun(n) ==
  /\ run[n] = "queued" /\ SetRun(n, "running")
  /\ KeepGraph /\ UNCHANGED <<attempt, verdict, passed, stage>>

(* The job ends without starting the run (duplicate_execution, a throw     *)
(* before the attempt) or a resume or a grant commits and dies before its  *)
(* enqueue: then only a request can start the run.                         *)
LoseJob(n) ==
  /\ run[n] = "queued" /\ SetRun(n, "lost")
  /\ KeepGraph /\ UNCHANGED <<attempt, verdict, passed, stage>>

StartLostRun(n) ==
  /\ run[n] = "lost" /\ SetRun(n, "running")
  /\ KeepGraph /\ UNCHANGED <<attempt, verdict, passed, stage>>

(* The executor dies, or the write in its catch block fails.  The next     *)
(* start of the server takes the run for orphaned if it is an hour old.    *)
LoseExecutor(n) ==
  /\ run[n] = "running" /\ SetRun(n, "stale")
  /\ KeepGraph /\ UNCHANGED <<attempt, verdict, passed, stage>>

RecoverRun(n) ==
  /\ run[n] = "stale" /\ SetRun(n, "failed")
  /\ KeepGraph /\ UNCHANGED <<attempt, verdict, passed, stage>>

EndRun(n) ==
  /\ run[n] = "running"
  /\ \E s \in {"succeeded", "degraded", "failed"} : SetRun(n, s)
  /\ KeepGraph /\ UNCHANGED <<attempt, verdict, passed, stage>>

PauseRun(n) ==
  /\ run[n] = "running" /\ SetRun(n, "review")
  /\ KeepGraph /\ UNCHANGED <<attempt, verdict, passed, stage>>

(* A policy pause is granted: the attempt goes on.                         *)
GrantRun(n) ==
  /\ run[n] = "review" /\ stage[n] # "decided" /\ SetRun(n, "queued")
  /\ KeepGraph /\ UNCHANGED <<attempt, verdict, passed, stage>>

(* A user cancels the run or its job, or abandons it in review.            *)
CancelRun(n) ==
  /\ run[n] \in LiveRun /\ SetRun(n, "cancelled")
  /\ KeepGraph /\ UNCHANGED <<attempt, verdict, passed, stage>>

(* The evaluation is inserted before the finalization of the attempt; when *)
(* it is repeated it finds the same evidence.                              *)
Evaluate(n) ==
  /\ run[n] \in EndedRun /\ stage[n] \in {"open", "evaluated"}
  /\ \E v \in {"passed", "other"} :
       /\ v = "passed" => run[n] = "succeeded"
       /\ run[n] = "succeeded" /\ stage[n] = "evaluated" => v = verdict[n]
       /\ verdict' = [verdict EXCEPT ![n] = v]
       /\ passed' = IF v = "passed" THEN passed \union {n} ELSE passed
  /\ stage' = [stage EXCEPT ![n] = "evaluated"]
  /\ KeepGraph /\ UNCHANGED <<run, attempt>>

InsertFinalization(n) ==
  /\ run[n] \in EndedRun /\ stage[n] = "evaluated"
  /\ stage' = [stage EXCEPT ![n] = "finalized"]
  /\ KeepGraph /\ UNCHANGED <<run, attempt, verdict, passed>>

(* The worker's own finalization of a success failed.                      *)
DegradeRun(n) ==
  /\ run[n] = "succeeded" /\ stage[n] \in {"open", "evaluated"} /\ SetRun(n, "degraded")
  /\ KeepGraph /\ UNCHANGED <<attempt, verdict, passed, stage>>

NewAttempt(n) ==
  /\ attempt' = [attempt EXCEPT ![n] = @ + 1]
  /\ stage' = [stage EXCEPT ![n] = "open"]
  /\ SetRun(n, "queued")
  /\ KeepGraph /\ UNCHANGED <<verdict, passed>>

SuperviseRetry(n) ==
  /\ run[n] \in {"failed", "degraded"} /\ stage[n] = "finalized"
  /\ attempt[n] < MaxAttempts
  /\ NewAttempt(n)

SuperviseReview(n) ==
  /\ run[n] \in {"failed", "degraded"} /\ stage[n] = "finalized"
  /\ SetRun(n, "review")
  /\ stage' = [stage EXCEPT ![n] = "decided"]
  /\ KeepGraph /\ UNCHANGED <<attempt, verdict, passed>>

ResumeRun(n) ==
  /\ run[n] = "review" /\ stage[n] = "decided"
  /\ attempt[n] < MaxRows
  /\ NewAttempt(n)

RunStep(n) ==
  \/ StartRun(n) \/ LoseJob(n) \/ StartLostRun(n)
  \/ LoseExecutor(n) \/ RecoverRun(n)
  \/ EndRun(n) \/ PauseRun(n) \/ GrantRun(n) \/ CancelRun(n)
  \/ Evaluate(n) \/ InsertFinalization(n) \/ DegradeRun(n)
  \/ SuperviseRetry(n) \/ SuperviseReview(n) \/ ResumeRun(n)

(* A finalizer of the run of some node may be about to reconcile the graph: *)
(* that of its latest attempt, or of an earlier one that is late.          *)
FinalizerDue == \E n \in Nodes : stage[n] \in {"finalized", "decided"} \/ attempt[n] > 1

(* Project archive cancels whatever run is not over.                       *)
CancelLiveRuns ==
  run' = [n \in Nodes |-> IF run[n] \in LiveRun THEN "cancelled" ELSE run[n]]

-----------------------------------------------------------------------------
GraphTypeOK ==
  /\ node \in NodeStates
  /\ proposal \in [Nodes -> Proposal]
  /\ links \in [Nodes -> Nat]
  /\ run \in [Nodes -> RunStatus]
  /\ attempt \in [Nodes -> Nat]
  /\ verdict \in [Nodes -> {"none", "passed", "other"}]
  /\ passed \in SUBSET Nodes
  /\ stage \in [Nodes -> {"open", "evaluated", "finalized", "decided"}]
  /\ draft \in [Reconcilers -> NodeStates \union {NoDraft}]

(* However many finalizers, approvals and recovery passes reconcile the     *)
(* graph at once, a node gets at most one run.                             *)
OneRunPerNode == \A n \in Nodes : links[n] <= 1

(* PLAN_GRAPH_EXECUTION: "a terminal adapter success without a passed       *)
(* evaluation does not complete a node".  A node is dispatched or put to    *)
(* review, and is done, only on evaluations that passed, proposals that     *)
(* were accepted and integrations made for it, whatever retries, resumes   *)
(* and re-evaluations the runs go through meanwhile.                       *)
SignedOff(n) ==
  CASE Kind[n] = "task" -> n \in passed
    [] Kind[n] = "checkpoint" -> proposal[n] = "accepted"
    [] OTHER -> node[n] = "done"
NothingIsSkipped ==
  \A n \in Nodes :
    /\ node[n] = "done" => SignedOff(n)
    /\ links[n] > 0 \/ proposal[n] # "none" \/ node[n] = "done" =>
         \A d \in Deps[n] : SignedOff(d)

=============================================================================
