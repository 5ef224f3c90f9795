-------------------------- MODULE WorkflowExecution --------------------------
(***************************************************************************)
(* One fixed workflow execution of an automation that belongs to a project *)
(* (modules/automations/workflowExecutionService): the execution, its       *)
(* coordinator run, its nodes and their child runs, reconciled after every  *)
(* finalization, on the approval of a checkpoint and by the recovery loop, *)
(* while the project is archived and the automation paused around it.      *)
(*                                                                         *)
(* A reconcile transaction holds the locks of the project, the execution    *)
(* and the automation from OpenDraft to CloseDraft; every other writer of  *)
(* those rows waits for it.  The runs are not locked.                      *)
(***************************************************************************)
EXTENDS NodeRuns

VARIABLES
  exec,          \* workflow_executions.status, "none" before the start
  root,          \* the coordinator run
  project,       \* projects.status
  automation,    \* automations.status
  crowded        \* the recovery loop's batch is full of older executions

execVars == <<exec, root, project, automation, crowded>>
wfVars == <<graphVars, execVars>>

EndedExec == {"completed", "failed", "cancelled"}
LiveRoot == {"waiting", "cancelling"}

Init ==
  /\ GraphInit
  /\ exec = "none" /\ root = "none"
  /\ project = "active" /\ automation = "active" /\ crowded = FALSE

-----------------------------------------------------------------------------
(* The transaction of the automation's fire: the execution, its coordinator *)
(* and its nodes are inserted and the first nodes scheduled.               *)
Start ==
  /\ exec = "none" /\ Unlocked /\ project = "active"
  /\ exec' = "running" /\ root' = "waiting"
  /\ ScheduleReadyNodes(node, proposal, {})
  /\ UNCHANGED <<draft, project, automation, crowded>>

Reconcilable == project = "active" /\ exec = "running" /\ automation = "active"

(* reconcileForRun, at the end of a finalization.                          *)
BeginForRun(p) ==
  /\ FinalizerDue /\ Reconcilable
  /\ OpenDraft(p, node)
  /\ UNCHANGED <<node, proposal, links, childVars, execVars>>

(* Fifty executions whose coordinators wait stand before this one, oldest   *)
(* first, or no longer do.  None moves back by being reconciled.           *)
Crowd ==
  /\ exec = "running" /\ crowded' = ~crowded
  /\ UNCHANGED <<graphVars, exec, root, project, automation>>

(* reconcileActive takes the executions whose coordinator still waits.     *)
BeginRecovery(p) ==
  /\ root = "waiting" /\ ~crowded /\ Reconcilable
  /\ OpenDraft(p, node)
  /\ UNCHANGED <<node, proposal, links, childVars, execVars>>

(* applyWorkflowExecutionCheckpoint, inside the transaction of the proposal. *)
BeginApproval(p, n) ==
  /\ Awaiting(n) /\ Reconcilable
  /\ OpenDraft(p, [node EXCEPT ![n] = "done"])
  /\ UNCHANGED <<node, proposal, links, childVars, execVars>>

(* The same when the reconcile inside it finds nothing to do.              *)
ApproveOnly(n) ==
  /\ Awaiting(n) /\ project = "active" /\ ~Reconcilable /\ Unlocked
  /\ node' = [node EXCEPT ![n] = "done"]
  /\ proposal' = [proposal EXCEPT ![n] = "accepted"]
  /\ UNCHANGED <<links, childVars, draft, execVars>>

MarkRootTerminal(s) == root' = IF root \in LiveRoot THEN s ELSE root

FinishWorkflowExecution_ExecOnly(p, e, s) ==
  /\ exec' = e
  /\ node' = draft[p] /\ proposal' = Opened(p)
  /\ UNCHANGED <<root, links, childVars>>

FinishWorkflowExecution(p, e, s) ==
  /\ exec' = e /\ MarkRootTerminal(s)
  /\ node' = draft[p] /\ proposal' = Opened(p)
  /\ UNCHANGED <<links, childVars>>

(* The rest of reconcileLocked, from the nodes it read back.               *)
Commit(p) ==
  /\ draft[p] # NoDraft
  /\ CASE HasFailedNode(draft[p]) -> FinishWorkflowExecution(p, "failed", "failed")
       [] ~HasFailedNode(draft[p]) /\ IsComplete(draft[p]) ->
            FinishWorkflowExecution(p, "completed", "succeeded")
       [] OTHER -> /\ ScheduleReadyNodes(draft[p], Opened(p), {})
                   /\ UNCHANGED <<exec, root>>
  /\ CloseDraft(p)
  /\ UNCHANGED <<project, automation, crowded>>

-----------------------------------------------------------------------------
(* cancelRun on the coordinator: two statements, no process to wait for.    *)
CancelRoot ==
  /\ root = "waiting" /\ root' = "cancelling"
  /\ UNCHANGED <<graphVars, exec, project, automation, crowded>>

ConfirmCancelRoot ==
  /\ root = "cancelling" /\ root' = "cancelled"
  /\ UNCHANGED <<graphVars, exec, project, automation, crowded>>

(* updateInCurrentUnit, under the project's lock.                          *)
PatchAutomation(s) ==
  /\ project = "active" /\ Unlocked
  /\ automation' = s
  /\ UNCHANGED <<graphVars, exec, root, project, crowded>>

Archive_KeepsRuns ==
  /\ Unlocked
  /\ project' = "archived" /\ automation' = "paused"
  /\ exec' = IF exec = "running" THEN "cancelled" ELSE exec
  /\ MarkRootTerminal("cancelled") /\ UNCHANGED run
  /\ node' = [n \in Nodes |-> IF exec # "none" /\ node[n] \in LiveNode
                              THEN "blocked" ELSE node[n]]
  /\ UNCHANGED <<proposal, links, attempt, verdict, passed, stage, draft, crowded>>

(* pauseArchivedProjectActivity; a proposal stays as it is.                *)
Archive ==
  /\ Unlocked
  /\ project' = "archived" /\ automation' = "paused"
  /\ exec' = IF exec = "running" THEN "cancelled" ELSE exec
  /\ MarkRootTerminal("cancelled") /\ CancelLiveRuns
  /\ node' = [n \in Nodes |-> IF exec # "none" /\ node[n] \in LiveNode
                              THEN "blocked" ELSE node[n]]
  /\ UNCHANGED <<proposal, links, attempt, verdict, passed, stage, draft, crowded>>

Reactivate ==
  /\ project = "archived" /\ project' = "active"
  /\ UNCHANGED <<graphVars, exec, root, automation, crowded>>

Reconcile(p) ==
  \/ BeginForRun(p) \/ BeginRecovery(p)
  \/ \E n \in Nodes : BeginApproval(p, n)
  \/ Commit(p)
  \/ RollBack(p) /\ UNCHANGED execVars

Child(n) == (RunStep(n) \/ RejectCheckpoint(n)) /\ UNCHANGED execVars

Next ==
  \/ Start \/ CancelRoot \/ ConfirmCancelRoot \/ Archive \/ Reactivate \/ Crowd
  \/ \E s \in {"active", "paused"} : PatchAutomation(s)
  \/ \E p \in Reconcilers : Reconcile(p)
  \/ \E n \in Nodes : Child(n) \/ ApproveOnly(n)

Spec == Init /\ [][Next]_wfVars

(* A job on its way is taken, an executor that lives ends its run, the      *)
(* recovery loop comes round to the executions of its batch, and its        *)
(* transaction does not fail for ever.  Nobody is obliged to review or to   *)
(* start a run that lost its job, and neither a finalizer that crashes nor *)
(* a server that dies is obliged to come back.                             *)
Fairness ==
  /\ \A n \in Nodes : WF_wfVars(StartRun(n) /\ UNCHANGED execVars)
                      /\ WF_wfVars(EndRun(n) /\ UNCHANGED execVars)
  /\ \A p \in Reconcilers : SF_wfVars(BeginRecovery(p)) /\ SF_wfVars(Commit(p))

FairSpec == Spec /\ Fairness

-----------------------------------------------------------------------------
(* Every variable has its type (the rows of workflow_executions,           *)
(* workflow_execution_nodes and _node_runs, and the runs they name).       *)
WorkflowTypeOK ==
  /\ GraphTypeOK
  /\ exec \in {"none", "running"} \union EndedExec
  /\ root \in {"none", "succeeded", "failed", "cancelled"} \union LiveRoot
  /\ project \in {"active", "archived"}
  /\ automation \in {"active", "paused"}
  /\ crowded \in BOOLEAN

(* The execution and its coordinator agree on how they ended, whoever      *)
(* cancels the coordinator or archives the project in between.             *)
EndsAgree ==
  /\ exec \in EndedExec => root \notin LiveRoot
  /\ root = "succeeded" => exec = "completed"
  /\ root = "failed" => exec = "failed"
  /\ exec = "completed" => \A n \in Nodes : node[n] = "done"

(* Nothing is dispatched and no checkpoint opened once the execution has   *)
(* ended, although its runs go on being finalized and retried.             *)
NothingIsDispatchedAfterTheEnd ==
  [][(exec \in EndedExec) =>
       /\ exec' = exec /\ links' = links
       /\ \A n \in Nodes : proposal[n] = "none" => proposal'[n] = "none"]_wfVars

(* Archiving leaves no node open and no run under way, except a run that    *)
(* had failed by then and that the supervisor took up again.               *)
ArchivedIsQuiet ==
  exec = "cancelled" => \A n \in Nodes :
    /\ node[n] \notin LiveNode
    /\ run[n] \in LiveRun => attempt[n] > 1 \/ stage[n] = "decided"

(* An execution under way comes to an end, or again and again waits for    *)
(* somebody: its automation is paused, its coordinator was cancelled, the   *)
(* recovery loop is kept busy by older executions, a run or a checkpoint   *)
(* waits for review, a run lost its job or its executor, or it ended and    *)
(* its evaluation was lost.  Nothing else holds it up: no reconcile that    *)
(* failed, came too early or met another one.                              *)
WaitsForSomebody ==
  \/ automation # "active" \/ root # "waiting" \/ crowded
  \/ \E n \in Nodes :
       \/ node[n] = "waiting_for_review" \/ run[n] \in {"review", "lost", "stale"}
       \/ run[n] \in {"succeeded", "degraded"} /\ verdict[n] = "none"
ExecutionsEnd == []<>(exec # "running" \/ WaitsForSomebody)

-----------------------------------------------------------------------------
(* The execution implements DependencyGraph.                               *)
Phase(s) ==
  CASE s = "inbox" -> "waiting"
    [] s \in {"in_progress", "waiting_for_review"} -> "active"
    [] s = "blocked" -> "stopped"
    [] OTHER -> s

Graph == INSTANCE DependencyGraph
  WITH phase <- [n \in Nodes |-> Phase(node[n])], graph <- exec

(* Its nodes and its status move as the abstract graph's do, however its    *)
(* runs are retried and whoever reconciles it.                             *)
ImplementsGraph == Graph!Spec

(* PROJECTS: archiving "prevents delayed proposals, retries, or schedulers *)
(* from restarting work after the archive transaction commits", so no run  *)
(* of an archived project is queued again.                                 *)
ArchivedProjectsRestartNothing ==
  [][project = "archived" =>
       \A n \in Nodes : run[n] \notin LiveRun => run'[n] \notin LiveRun]_wfVars

=============================================================================
