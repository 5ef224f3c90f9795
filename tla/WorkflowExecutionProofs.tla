----------------------- MODULE WorkflowExecutionProofs -----------------------
(***************************************************************************)
(* For every graph, every bound on attempts and any number of reconcilers: *)
(* type correctness, at most one run per node, no node before what it      *)
(* depends on, the agreement of the execution with its coordinator, what   *)
(* the end and an archive stop, and that the execution implements          *)
(* DependencyGraph.                                                        *)
(***************************************************************************)
EXTENDS WorkflowExecution, NodeRunsProofs

(* The coordinator follows the execution, and a running execution has no   *)
(* node that failed with its run; only a running one is reconciled.        *)
ExecOK ==
  /\ exec = "none" <=> root = "none"
  /\ exec = "none" => node = [n \in Nodes |-> "inbox"]
  /\ exec = "running" => root \in LiveRoot \union {"cancelled"}
  /\ exec = "running" => \A n \in Nodes :
       node[n] # "blocked" /\ (node[n] = "failed" => links[n] = 0)
  /\ \A p \in Reconcilers : draft[p] # NoDraft => exec = "running"

IInv == WorkflowTypeOK /\ GraphInv /\ EndsAgree /\ ArchivedIsQuiet /\ ExecOK

(* There is no execution and no coordinator at first.                       *)
LEMMA InitIInv == ASSUME Init PROVE IInv
<1>1. GraphInv
  BY GraphStart DEF Init
<1>2. WorkflowTypeOK
  BY <1>1 DEF Init, WorkflowTypeOK, GraphInv
<1>3. EndsAgree /\ ArchivedIsQuiet /\ ExecOK
  BY DEF Init, GraphInit, NoDrafts, EndsAgree, ArchivedIsQuiet, ExecOK, EndedExec
<1> QED
  BY <1>1, <1>2, <1>3 DEF IInv

(* A step that leaves the nodes and the execution alone.                    *)
LEMMA ExecKept ==
  ASSUME IInv, GraphInv', UNCHANGED <<node, links, execVars>>, ArchivedIsQuiet',
         \A p \in Reconcilers : draft'[p] # NoDraft => exec = "running"
  PROVE  IInv'
<1> USE DEF execVars
<1>1. WorkflowTypeOK'
  BY DEF IInv, WorkflowTypeOK, GraphInv
<1>2. EndsAgree' /\ ExecOK'
  BY DEF IInv, EndsAgree, ExecOK
<1> QED
  BY <1>1, <1>2 DEF IInv

-----------------------------------------------------------------------------
(* The reconcile transactions.                                             *)

(* A draft is opened by a finalizer, a recovery pass or an approval.        *)
LEMMA BeginStep ==
  ASSUME IInv, NEW p \in Reconcilers,
         BeginForRun(p) \/ BeginRecovery(p) \/ \E n \in Nodes : BeginApproval(p, n)
  PROVE  IInv'
<1>1. node \in NodeStates
  BY DEF IInv, WorkflowTypeOK, GraphTypeOK
<1>2. PICK st \in NodeStates :
        /\ \A n \in Nodes : st[n] = node[n] \/ (Awaiting(n) /\ st[n] = "done")
        /\ OpenDraft(p, st)
        /\ exec = "running" /\ UNCHANGED <<node, proposal, links, childVars, execVars>>
  <2>1. CASE BeginForRun(p) \/ BeginRecovery(p)
    BY <1>1, <2>1 DEF BeginForRun, BeginRecovery, Reconcilable
  <2>2. CASE \E n \in Nodes : BeginApproval(p, n)
    <3> PICK n \in Nodes : BeginApproval(p, n)
      BY <2>2
    <3> PICK st : st = [node EXCEPT ![n] = "done"]
      OBVIOUS
    <3>1. st \in NodeStates /\ Awaiting(n)
          /\ \A m \in Nodes : st[m] = node[m] \/ (Awaiting(m) /\ st[m] = "done")
      BY <1>1 DEF BeginApproval, NodeStates, NodeStatus
    <3> QED
      BY <3>1 DEF BeginApproval, Reconcilable
  <2> QED
    BY <2>1, <2>2
<1>3. GraphInv'
  BY <1>2, OpenDraftStep DEF IInv
<1>4. ArchivedIsQuiet'
  BY <1>2 DEF IInv, ArchivedIsQuiet, childVars, execVars
<1> QED
  BY <1>2, <1>3, <1>4, ExecKept

(* The execution ends on the draft.                                        *)
LEMMA FinishStep ==
  ASSUME IInv, NEW p \in Reconcilers, draft[p] # NoDraft, CloseDraft(p),
         NEW e, NEW s, FinishWorkflowExecution(p, e, s), UNCHANGED <<project, automation, crowded>>,
         \/ e = "failed" /\ s = "failed"
         \/ e = "completed" /\ s = "succeeded" /\ IsComplete(draft[p])
  PROVE  IInv'
<1>1. /\ exec = "running" /\ draft' = NoDrafts
  BY DraftFacts DEF IInv, ExecOK
<1>2. /\ node' = draft[p] /\ proposal' = Opened(p) /\ exec' = e
      /\ root' = IF root \in LiveRoot THEN s ELSE root
      /\ UNCHANGED <<links, childVars>>
  BY DEF FinishWorkflowExecution, MarkRootTerminal
<1>3. GraphInv'
  BY <1>2, CloseStep DEF IInv
<1>4. EndsAgree /\ ExecOK /\ WorkflowTypeOK
  BY DEF IInv
<1>5. WorkflowTypeOK'
  BY <1>1, <1>2, <1>3, <1>4 DEF WorkflowTypeOK, GraphInv, EndedExec, LiveRoot
<1>6. EndsAgree'
  BY <1>1, <1>2, <1>4 DEF EndsAgree, ExecOK, EndedExec, LiveRoot, IsComplete
<1>7. ArchivedIsQuiet' /\ ExecOK'
  BY <1>1, <1>2, <1>4 DEF ArchivedIsQuiet, ExecOK, LiveRoot, NoDrafts
<1> QED
  BY <1>3, <1>5, <1>6, <1>7 DEF IInv

(* The draft is committed: the execution ends, or what is ready starts.     *)
LEMMA CommitStep ==
  ASSUME IInv, NEW p \in Reconcilers, Commit(p)
  PROVE  IInv'
<1> PICK st : st = draft[p]
  OBVIOUS
<1> PICK op : op = Opened(p)
  OBVIOUS
<1>0. draft[p] # NoDraft /\ CloseDraft(p) /\ UNCHANGED <<project, automation, crowded>>
  BY DEF Commit
<1>1. /\ exec = "running" /\ st \in NodeStates /\ op \in [Nodes -> Proposal]
      /\ \A n \in Nodes : TakenIn(st, op, n)
      /\ draft' = NoDrafts
  BY <1>0, DraftFacts DEF IInv, ExecOK
<1>2. CASE HasFailedNode(st)
  <2>1. FinishWorkflowExecution(p, "failed", "failed")
    BY <1>2 DEF Commit
  <2> QED
    BY <1>0, <2>1, FinishStep
<1>3. CASE ~HasFailedNode(st) /\ IsComplete(st)
  <2>1. FinishWorkflowExecution(p, "completed", "succeeded")
    BY <1>3 DEF Commit
  <2> QED
    BY <1>0, <1>3, <2>1, FinishStep
<1>4. CASE ~HasFailedNode(st) /\ ~IsComplete(st)
  <2>1. ScheduleReadyNodes(st, op, {}) /\ UNCHANGED <<exec, root>>
    BY <1>4 DEF Commit
  <2>2. PICK U : Schedules(st, op, ReadyNodes(st), U, {})
    BY <2>1 DEF ScheduleReadyNodes, Schedules
  <2>3. /\ GraphInv'
        /\ \A n \in Nodes : /\ node'[n] = "failed" /\ st[n] # "failed" => links'[n] = 0
                            /\ node'[n] = "blocked" => st[n] = "blocked"
    BY <1>1, <2>2, ScheduleStep DEF IInv
  <2>4. WorkflowTypeOK'
    BY <1>0, <2>1, <2>3 DEF IInv, WorkflowTypeOK, GraphInv
  <2>5. EndsAgree' /\ ArchivedIsQuiet'
    BY <1>1, <2>1 DEF IInv, EndsAgree, ArchivedIsQuiet, ExecOK, EndedExec, LiveRoot
  <2>6. \A n \in Nodes : st[n] # "failed" /\ st[n] # "blocked"
    BY <1>1, <1>4 DEF HasFailedNode, TakenIn, IInv, ExecOK
  <2>7. ExecOK'
    BY <1>1, <2>1, <2>3, <2>6 DEF IInv, ExecOK, NoDrafts
  <2> QED
    BY <2>3, <2>4, <2>5, <2>7 DEF IInv
<1> QED
  BY <1>2, <1>3, <1>4

(* The execution starts, and with it the nodes that depend on nothing.      *)
LEMMA StartStep == ASSUME IInv, Start PROVE IInv'
<1> PICK st : st = node
  OBVIOUS
<1> PICK op : op = proposal
  OBVIOUS
<1>1. /\ exec = "none" /\ draft = NoDrafts /\ exec' = "running" /\ root' = "waiting"
      /\ UNCHANGED <<draft, project, automation, crowded>>
      /\ ScheduleReadyNodes(st, op, {})
  BY DEF Start, Unlocked
<1>2. /\ st \in NodeStates /\ op \in [Nodes -> Proposal]
      /\ \A n \in Nodes : st[n] = "inbox"
  BY <1>1 DEF IInv, WorkflowTypeOK, GraphTypeOK, ExecOK
<1>3. \A n \in Nodes : TakenIn(st, op, n)
  BY <1>2 DEF TakenIn
<1>4. PICK U : Schedules(st, op, ReadyNodes(st), U, {})
  BY <1>1 DEF ScheduleReadyNodes, Schedules
<1>5. /\ GraphInv'
      /\ \A n \in Nodes : /\ node'[n] = "failed" /\ st[n] # "failed" => links'[n] = 0
                          /\ node'[n] = "blocked" => st[n] = "blocked"
  BY <1>1, <1>2, <1>3, <1>4, ScheduleStep DEF IInv
<1>6. WorkflowTypeOK'
  BY <1>1, <1>5 DEF IInv, WorkflowTypeOK, GraphInv, LiveRoot
<1>7. EndsAgree' /\ ArchivedIsQuiet'
  BY <1>1 DEF EndsAgree, ArchivedIsQuiet, EndedExec
<1>8. ExecOK'
  BY <1>1, <1>2, <1>5 DEF ExecOK, LiveRoot, NoDrafts
<1> QED
  BY <1>5, <1>6, <1>7, <1>8 DEF IInv

-----------------------------------------------------------------------------
(* The other writers of the graph.                                         *)

(* A checkpoint is approved after its execution has ended.                  *)
LEMMA ApproveOnlyStep == ASSUME IInv, NEW n \in Nodes, ApproveOnly(n) PROVE IInv'
<1>1. /\ node[n] = "waiting_for_review" /\ proposal[n] = "pending" /\ Kind[n] = "checkpoint"
      /\ draft = NoDrafts /\ draft' = NoDrafts
      /\ node' = [node EXCEPT ![n] = "done"]
      /\ proposal' = [proposal EXCEPT ![n] = "accepted"]
      /\ UNCHANGED <<links, childVars, execVars>>
  BY DEF ApproveOnly, Awaiting, Checkpoints, Unlocked
<1>2. /\ GraphTypeOK /\ WorkflowTypeOK /\ NothingIsSkipped
      /\ Deps \in [Nodes -> SUBSET Nodes]
  BY GraphAssumption DEF IInv, WorkflowTypeOK, GraphInv
<1>3. GraphTypeOK'
  BY <1>1, <1>2 DEF GraphTypeOK, NodeStates, NodeStatus, Proposal, childVars, NoDrafts
<1>4. \A m \in Nodes : /\ node'[m] = IF m = n THEN "done" ELSE node[m]
                       /\ proposal'[m] = IF m = n THEN "accepted" ELSE proposal[m]
  BY <1>1, <1>2 DEF GraphTypeOK, NodeStates
<1>5. \A m \in Nodes : SignedOff(m) => SignedOff(m)'
  BY <1>1, <1>4 DEF SignedOff, childVars
<1>6. NothingIsSkipped'
  <2>1. SignedOff(n)'
    BY <1>1, <1>4 DEF SignedOff
  <2>2. \A m \in Nodes : node'[m] = "done" => SignedOff(m)'
    BY <1>2, <1>4, <1>5, <2>1 DEF NothingIsSkipped
  <2>3. \A m \in Nodes : links'[m] > 0 \/ proposal'[m] # "none" \/ node'[m] = "done" =>
          links[m] > 0 \/ proposal[m] # "none" \/ node[m] = "done"
    BY <1>1, <1>4
  <2>4. \A m \in Nodes : links'[m] > 0 \/ proposal'[m] # "none" \/ node'[m] = "done" =>
          \A d \in Deps[m] : SignedOff(d)'
    BY <1>2, <1>5, <2>3 DEF NothingIsSkipped
  <2> QED
    BY <2>2, <2>4 DEF NothingIsSkipped
<1>7. OneRunPerNode' /\ RunsOK' /\ DraftsOK'
  BY <1>1, <1>4 DEF IInv, GraphInv, OneRunPerNode, RunsOK, DraftsOK, NoDrafts, childVars
<1>8. GraphInv'
  BY <1>3, <1>6, <1>7 DEF GraphInv
<1>9. WorkflowTypeOK'
  BY <1>1, <1>2, <1>3 DEF WorkflowTypeOK, execVars
<1>10. EndsAgree' /\ ArchivedIsQuiet'
  BY <1>1, <1>4 DEF IInv, EndsAgree, ArchivedIsQuiet, LiveNode, childVars, execVars
<1>11. ExecOK'
  <2>1. exec # "none"
    BY <1>1 DEF IInv, ExecOK
  <2> QED
    BY <2>1, <1>1, <1>4 DEF IInv, ExecOK, execVars
<1> QED
  BY <1>8, <1>9, <1>10, <1>11 DEF IInv

(* Archiving stops what is open, of the graph and of its runs.              *)
LEMMA ArchiveStep == ASSUME IInv, Archive PROVE IInv'
<1>1. /\ draft = NoDrafts /\ draft' = NoDrafts
      /\ project' = "archived" /\ automation' = "paused"
      /\ exec' = IF exec = "running" THEN "cancelled" ELSE exec
      /\ root' = IF root \in LiveRoot THEN "cancelled" ELSE root
      /\ run' = [n \in Nodes |-> IF run[n] \in LiveRun THEN "cancelled" ELSE run[n]]
      /\ node' = [n \in Nodes |-> IF exec # "none" /\ node[n] \in LiveNode
                                  THEN "blocked" ELSE node[n]]
      /\ UNCHANGED <<proposal, links, attempt, verdict, passed, stage, crowded>>
  BY DEF Archive, Unlocked, MarkRootTerminal, CancelLiveRuns
<1>2. GraphTypeOK /\ WorkflowTypeOK /\ NothingIsSkipped /\ Deps \in [Nodes -> SUBSET Nodes]
  BY GraphAssumption DEF IInv, WorkflowTypeOK, GraphInv
<1>3. WorkflowTypeOK'
  BY <1>1, <1>2 DEF WorkflowTypeOK, GraphTypeOK, NodeStates, NodeStatus, RunStatus, EndedRun,
                    EndedExec, LiveRoot, NoDrafts
<1>4. \A n \in Nodes : node'[n] = "done" <=> node[n] = "done"
  BY <1>1 DEF LiveNode
<1>5. \A n \in Nodes : SignedOff(n) => SignedOff(n)'
  BY <1>1, <1>4 DEF SignedOff
<1>6. NothingIsSkipped' /\ OneRunPerNode'
  BY <1>1, <1>2, <1>4, <1>5 DEF IInv, GraphInv, NothingIsSkipped, OneRunPerNode
<1>7. EndsAgree'
  BY <1>1, <1>4 DEF IInv, EndsAgree, ExecOK, EndedExec, LiveRoot
<1>8. ArchivedIsQuiet'
  BY <1>1 DEF ArchivedIsQuiet, LiveNode, LiveRun
<1>9. RunsOK' /\ DraftsOK'
  BY <1>1, <1>2 DEF IInv, GraphInv, RunsOK, LiveRun, DraftsOK, NoDrafts
<1>10. ExecOK'
  BY <1>1, <1>2 DEF IInv, ExecOK, LiveRoot, GraphTypeOK, NodeStates, NoDrafts
<1> QED
  BY <1>3, <1>6, <1>7, <1>8, <1>9, <1>10 DEF IInv, WorkflowTypeOK, GraphInv

(* The coordinator is cancelled, the automation patched, the project taken *)
(* up again, or others crowd the recovery loop: the graph and the          *)
(* execution do not move.                                                  *)
LEMMA AroundStep ==
  ASSUME IInv,
         CancelRoot \/ ConfirmCancelRoot \/ Reactivate \/ Crowd
         \/ \E s \in {"active", "paused"} : PatchAutomation(s)
  PROVE  IInv'
<1>1. /\ UNCHANGED <<graphVars, exec>>
      /\ \/ root' = root
         \/ root = "waiting" /\ root' = "cancelling"
         \/ root = "cancelling" /\ root' = "cancelled"
      /\ project' \in {"active", "archived"} /\ automation' \in {"active", "paused"}
      /\ crowded' \in BOOLEAN
  BY DEF CancelRoot, ConfirmCancelRoot, Reactivate, PatchAutomation, Crowd, IInv, WorkflowTypeOK
<1>2. GraphInv'
  BY <1>1, GraphKept DEF IInv
<1>3. WorkflowTypeOK'
  BY <1>1, <1>2 DEF IInv, WorkflowTypeOK, GraphInv, LiveRoot
<1>4. EndsAgree' /\ ExecOK' /\ ArchivedIsQuiet'
  BY <1>1 DEF IInv, EndsAgree, ExecOK, ArchivedIsQuiet, EndedExec, LiveRoot, graphVars, childVars
<1> QED
  BY <1>2, <1>3, <1>4 DEF IInv

(* The child runs, and the proposals a checkpoint has.                      *)
LEMMA ChildStep == ASSUME IInv, NEW n \in Nodes, Child(n) PROVE IInv'
<1>1. CASE RunStep(n) /\ UNCHANGED execVars
  <2>1. GraphInv' /\ UNCHANGED <<node, proposal, links, draft>>
    BY <1>1, RunStepFacts DEF IInv
  <2>2. ArchivedIsQuiet'
    <3> USE DEF IInv, WorkflowTypeOK, GraphTypeOK, ArchivedIsQuiet, SetRun, LiveRun, EndedRun,
                execVars
    <3>1. CASE StartRun(n) \/ EndRun(n) \/ PauseRun(n) \/ GrantRun(n)
      BY <1>1, <2>1, <3>1 DEF StartRun, EndRun, PauseRun, GrantRun
    <3>2. CASE CancelRun(n) \/ DegradeRun(n) \/ Evaluate(n) \/ InsertFinalization(n)
      BY <1>1, <2>1, <3>2 DEF CancelRun, DegradeRun, Evaluate, InsertFinalization
    <3>3. CASE SuperviseReview(n) \/ SuperviseRetry(n) \/ ResumeRun(n)
      <4>1. \A m \in Nodes : run[m] # "none" => attempt[m] > 0
        BY DEF GraphInv, RunsOK, RunStatus
      <4> QED
        BY <1>1, <2>1, <3>3, <4>1 DEF SuperviseReview, SuperviseRetry, ResumeRun, NewAttempt
    <3>4. CASE LoseJob(n) \/ StartLostRun(n) \/ LoseExecutor(n) \/ RecoverRun(n)
      BY <1>1, <2>1, <3>4 DEF LoseJob, StartLostRun, LoseExecutor, RecoverRun
    <3> QED
      BY <1>1, <3>1, <3>2, <3>3, <3>4 DEF RunStep
  <2> QED
    BY <1>1, <2>1, <2>2, ExecKept DEF IInv, ExecOK
<1>2. CASE RejectCheckpoint(n) /\ UNCHANGED execVars
  <2>1. GraphInv' /\ UNCHANGED <<node, links, childVars, draft>>
    BY <1>2, RejectFacts DEF IInv
  <2>2. ArchivedIsQuiet'
    BY <1>2, <2>1 DEF IInv, ArchivedIsQuiet, childVars, execVars
  <2> QED
    BY <1>2, <2>1, <2>2, ExecKept DEF IInv, ExecOK
<1> QED
  BY <1>1, <1>2 DEF Child

(* Every step keeps the invariant.                                          *)
LEMMA NextIInv == ASSUME IInv, [Next]_wfVars PROVE IInv'
<1>1. CASE Start
  BY <1>1, StartStep
<1>2. CASE Archive
  BY <1>2, ArchiveStep
<1>3. CASE CancelRoot \/ ConfirmCancelRoot \/ Reactivate \/ Crowd
           \/ \E s \in {"active", "paused"} : PatchAutomation(s)
  BY <1>3, AroundStep
<1>4. ASSUME NEW p \in Reconcilers, Reconcile(p) PROVE IInv'
  <2>1. CASE RollBack(p) /\ UNCHANGED execVars
    <3>1. /\ GraphInv' /\ UNCHANGED <<node, proposal, links, childVars>>
          /\ \A q \in Reconcilers : draft'[q] # NoDraft => draft[q] # NoDraft
      BY <2>1, RollBackStep DEF IInv, RollBack
    <3>2. ArchivedIsQuiet'
      BY <2>1, <3>1 DEF IInv, ArchivedIsQuiet, childVars, execVars
    <3> QED
      BY <2>1, <3>1, <3>2, ExecKept DEF IInv, ExecOK
  <2> QED
    BY <1>4, <2>1, BeginStep, CommitStep DEF Reconcile
<1>5. ASSUME NEW n \in Nodes, Child(n) PROVE IInv'
  BY <1>5, ChildStep
<1>6. ASSUME NEW n \in Nodes, ApproveOnly(n) PROVE IInv'
  BY <1>6, ApproveOnlyStep
<1>7. CASE UNCHANGED wfVars
  <2>1. GraphInv' /\ ArchivedIsQuiet'
    BY <1>7, GraphKept DEF IInv, ArchivedIsQuiet, wfVars, graphVars, childVars, execVars
  <2> QED
    BY <1>7, <2>1, ExecKept DEF IInv, ExecOK, wfVars, graphVars
<1> QED
  BY <1>1, <1>2, <1>3, <1>4, <1>5, <1>6, <1>7 DEF Next

-----------------------------------------------------------------------------
(* The invariant holds throughout.                                          *)
LEMMA Invariance == Spec => []IInv
<1> QED BY InitIInv, NextIInv, PTL DEF Spec

(* The rows of the execution, its nodes and their runs keep their types.    *)
THEOREM WorkflowTypeCorrect == Spec => []WorkflowTypeOK
<1>1. IInv => WorkflowTypeOK
  BY DEF IInv
<1> QED BY <1>1, Invariance, PTL

(* However many reconcilers there are, a node is dispatched once.           *)
THEOREM NodesAreDispatchedOnce == Spec => []OneRunPerNode
<1>1. IInv => OneRunPerNode
  BY DEF IInv, GraphInv
<1> QED BY <1>1, Invariance, PTL

(* In no graph is a node done, dispatched or put to review on anything but  *)
(* evaluations that passed and proposals that were accepted.               *)
THEOREM NothingSkipped == Spec => []NothingIsSkipped
<1>1. IInv => NothingIsSkipped
  BY DEF IInv, GraphInv
<1> QED BY <1>1, Invariance, PTL

(* The execution and its coordinator end alike, and an archive leaves        *)
(* nothing under way but what the supervisor takes up again.               *)
THEOREM EndsAreClean == Spec => [](EndsAgree /\ ArchivedIsQuiet)
<1>1. IInv => EndsAgree /\ ArchivedIsQuiet
  BY DEF IInv
<1> QED BY <1>1, Invariance, PTL

-----------------------------------------------------------------------------
(* An execution that has ended is not opened again and dispatches nothing.  *)
LEMMA EndIsFinal ==
  ASSUME IInv, [Next]_wfVars, exec \in EndedExec
  PROVE  /\ exec' = exec /\ links' = links
         /\ \A n \in Nodes : proposal[n] = "none" => proposal'[n] = "none"
<1>0. /\ exec # "none" /\ exec # "running" /\ GraphTypeOK
      /\ \A p \in Reconcilers : draft[p] = NoDraft
  BY DEF EndedExec, IInv, WorkflowTypeOK, ExecOK
<1>1. CASE Start \/ \E p \in Reconcilers : Reconcile(p)
  BY <1>0, <1>1 DEF Start, Reconcile, BeginForRun, BeginRecovery, BeginApproval, Reconcilable,
                    Commit, RollBack
<1>2. CASE Archive
  BY <1>0, <1>2 DEF Archive
<1>3. CASE CancelRoot \/ ConfirmCancelRoot \/ Reactivate \/ Crowd
           \/ \E s \in {"active", "paused"} : PatchAutomation(s)
  BY <1>3 DEF CancelRoot, ConfirmCancelRoot, Reactivate, PatchAutomation, Crowd, graphVars
<1>4. ASSUME NEW n \in Nodes, RunStep(n) /\ UNCHANGED execVars
      PROVE  exec' = exec /\ links' = links /\ proposal' = proposal
  BY <1>4, RunStepFacts DEF IInv, execVars
<1>5. ASSUME NEW n \in Nodes, (RejectCheckpoint(n) /\ UNCHANGED execVars) \/ ApproveOnly(n)
      PROVE  /\ exec' = exec /\ links' = links
             /\ \A m \in Nodes : proposal[m] = "none" => proposal'[m] = "none"
  BY <1>0, <1>5 DEF RejectCheckpoint, ApproveOnly, Awaiting, GraphTypeOK, execVars
<1>6. CASE UNCHANGED wfVars
  BY <1>6 DEF wfVars, graphVars, execVars
<1> QED
  BY <1>1, <1>2, <1>3, <1>4, <1>5, <1>6 DEF Next, Child

(* Whatever is retried, resumed or reconciled after the end.                *)
THEOREM EndDispatchesNothing == Spec => NothingIsDispatchedAfterTheEnd
<1>1. IInv /\ [Next]_wfVars =>
        [(exec \in EndedExec) =>
           /\ exec' = exec /\ links' = links
           /\ \A n \in Nodes : proposal[n] = "none" => proposal'[n] = "none"]_wfVars
  BY EndIsFinal
<1> QED BY <1>1, Invariance, PTL DEF Spec, NothingIsDispatchedAfterTheEnd

-----------------------------------------------------------------------------
(* The refinement.                                                         *)

PhaseMap == [n \in Nodes |-> Phase(node[n])]

(* Each node is in one of the abstract phases, before and after a step.     *)
LEMMA PhaseFacts ==
  ASSUME IInv, [Next]_wfVars
  PROVE  /\ PhaseMap' \in [Nodes -> {"waiting", "active", "done", "failed", "stopped"}]
         /\ \A n \in Nodes : /\ PhaseMap[n] = Phase(node[n])
                             /\ PhaseMap'[n] = Phase(node'[n])
                             /\ node[n] \in NodeStatus /\ node'[n] \in NodeStatus
<1>1. node \in NodeStates /\ node' \in NodeStates
  BY NextIInv DEF IInv, WorkflowTypeOK, GraphTypeOK
<1> QED
  BY <1>1 DEF PhaseMap, Phase, NodeStates, NodeStatus

(* What becomes of node n when a draft st without a failure is committed    *)
(* and the nodes that are ready in it scheduled.                           *)
LEMMA ScheduledPhase ==
  ASSUME IInv, NEW st \in NodeStates, NEW op, NEW U, NEW n \in Nodes,
         \A m \in Nodes : /\ TakenIn(st, op, m) /\ st[m] # "failed"
                          /\ links[m] > 0 => node[m] \notin {"failed", "blocked"},
         Schedules(st, op, ReadyNodes(st), U, {})
  PROVE  \/ Phase(node'[n]) = Phase(node[n])
         \/ /\ Phase(node[n]) = "waiting" /\ Phase(node'[n]) \in {"active", "done", "failed"}
            /\ \A d \in Deps[n] : Phase(node'[d]) = "done"
         \/ Phase(node[n]) = "active" /\ Phase(node'[n]) = "done"
<1>1. \A m \in Nodes :
        node'[m] = IF m \in ReadyNodes(st) THEN ScheduledStatus(m, U, {}) ELSE st[m]
  BY DEF Schedules
<1>2. CASE n \in ReadyNodes(st)
  <2>1. node[n] = "inbox" /\ Deps[n] \subseteq Nodes /\ \A d \in Deps[n] : st[d] = "done"
    BY <1>2, GraphAssumption DEF ReadyNodes, TakenIn
  <2>2. \A d \in Deps[n] : node'[d] = "done"
    BY <1>1, <2>1 DEF ReadyNodes
  <2>3. node'[n] \in {"waiting_for_review", "done", "failed", "in_progress"}
    BY <1>1, <1>2 DEF ScheduledStatus
  <2> QED
    BY <2>1, <2>2, <2>3 DEF Phase
<1>3. CASE n \notin ReadyNodes(st)
  <2>1. /\ node'[n] = st[n]
        /\ st[n] = node[n] \/ (links[n] > 0 /\ st[n] = "done")
           \/ (node[n] = "waiting_for_review" /\ st[n] = "done")
    BY <1>1, <1>3 DEF TakenIn
  <2>2. CASE links[n] > 0 /\ st[n] = "done"
    <3>1. node[n] \in {"in_progress", "waiting_for_review", "done"}
      BY <2>2 DEF TakenIn, IInv, WorkflowTypeOK, GraphTypeOK, NodeStates, NodeStatus
    <3> QED
      BY <2>1, <2>2, <3>1 DEF Phase
  <2> QED
    BY <2>1, <2>2 DEF Phase
<1> QED
  BY <1>2, <1>3

(* The start launches the abstract graph.                                   *)
LEMMA LaunchStep == ASSUME IInv, [Next]_wfVars, Start PROVE Graph!Launch
<1> PICK st : st = node
  OBVIOUS
<1> PICK op : op = proposal
  OBVIOUS
<1>1. exec = "none" /\ exec' = "running" /\ ScheduleReadyNodes(st, op, {})
  BY DEF Start
<1>2. PICK U : Schedules(st, op, ReadyNodes(st), U, {})
  BY <1>1 DEF ScheduleReadyNodes, Schedules
<1>3. /\ st \in NodeStates
      /\ \A n \in Nodes : st[n] = "inbox" /\ node[n] = "inbox" /\ links[n] = 0
  BY <1>1 DEF IInv, GraphInv, WorkflowTypeOK, GraphTypeOK, ExecOK, RunsOK
<1>4. \A n \in Nodes : /\ TakenIn(st, op, n) /\ st[n] # "failed"
                       /\ links[n] > 0 => node[n] \notin {"failed", "blocked"}
  BY <1>3 DEF TakenIn
<1>5. ASSUME NEW n \in Nodes
      PROVE  \/ Phase(node'[n]) = Phase(node[n])
             \/ /\ Phase(node[n]) = "waiting" /\ Phase(node'[n]) \in {"active", "done", "failed"}
                /\ \A d \in Deps[n] : Phase(node'[d]) = "done"
  <2>1. Phase(node[n]) = "waiting"
    BY <1>3 DEF Phase
  <2> QED
    BY <1>2, <1>3, <1>4, <2>1, ScheduledPhase
<1>6. \A n \in Nodes : Deps[n] \subseteq Nodes
  BY GraphAssumption
<1> QED
  BY <1>1, <1>5, <1>6, PhaseFacts
     DEF Graph!Launch, Graph!PhaseOK, Graph!Starts, PhaseMap

(* A commit advances the abstract graph or ends it.                         *)
LEMMA CommitPhase ==
  ASSUME IInv, [Next]_wfVars, NEW p \in Reconcilers, Commit(p)
  PROVE  Graph!Advance \/ Graph!End
<1> PICK st : st = draft[p]
  OBVIOUS
<1> PICK op : op = Opened(p)
  OBVIOUS
<1>0. draft[p] # NoDraft /\ CloseDraft(p)
  BY DEF Commit
<1>1. /\ exec = "running" /\ st \in NodeStates
      /\ \A n \in Nodes : TakenIn(st, op, n)
  BY <1>0, DraftFacts DEF IInv, ExecOK
<1>2. \A n \in Nodes : /\ links[n] > 0 => node[n] \notin {"failed", "blocked"}
                       /\ node[n] \in NodeStatus /\ Deps[n] \subseteq Nodes
  BY <1>1, GraphAssumption DEF IInv, ExecOK, WorkflowTypeOK, GraphTypeOK, NodeStates
<1>3. ASSUME node' = st, NEW n \in Nodes
      PROVE  \/ PhaseMap'[n] = PhaseMap[n]
             \/ PhaseMap[n] = "active" /\ PhaseMap'[n] \in {"done", "failed"}
             \/ PhaseMap[n] = "done" /\ PhaseMap'[n] = "failed"
  <2>1. CASE links[n] > 0 /\ st[n] \in {"done", "failed"}
    <3>1. node[n] \in {"in_progress", "waiting_for_review", "done"}
      BY <1>1, <1>2, <2>1 DEF TakenIn, NodeStatus
    <3> QED
      BY <1>3, <2>1, <3>1, PhaseFacts DEF Phase
  <2>2. CASE st[n] = node[n] \/ (node[n] = "waiting_for_review" /\ st[n] = "done")
    BY <1>3, <2>2, PhaseFacts DEF Phase
  <2> QED
    BY <1>1, <2>1, <2>2 DEF TakenIn
<1>4. CASE HasFailedNode(st)
  <2>1. node' = st /\ exec' = "failed"
    BY <1>4 DEF Commit, FinishWorkflowExecution
  <2>2. \E n \in Nodes : PhaseMap'[n] = "failed"
    BY <1>4, <2>1, PhaseFacts DEF HasFailedNode, Phase
  <2> QED
    BY <1>1, <1>3, <2>1, <2>2, PhaseFacts
       DEF Graph!End, Graph!PhaseOK, Graph!Finishes, PhaseMap
<1>5. CASE ~HasFailedNode(st) /\ IsComplete(st)
  <2>1. node' = st /\ exec' = "completed"
    BY <1>5 DEF Commit, FinishWorkflowExecution
  <2>2. \A n \in Nodes : PhaseMap'[n] = "done"
    BY <1>5, <2>1, PhaseFacts DEF IsComplete, Phase
  <2> QED
    BY <1>1, <1>3, <2>1, <2>2, PhaseFacts
       DEF Graph!End, Graph!PhaseOK, Graph!Finishes, PhaseMap
<1>6. CASE ~HasFailedNode(st) /\ ~IsComplete(st)
  <2>1. ScheduleReadyNodes(st, op, {}) /\ exec' = "running"
    BY <1>1, <1>6 DEF Commit
  <2>2. PICK U : Schedules(st, op, ReadyNodes(st), U, {})
    BY <2>1 DEF ScheduleReadyNodes, Schedules
  <2>3. \A n \in Nodes : /\ TakenIn(st, op, n) /\ st[n] # "failed"
                         /\ links[n] > 0 => node[n] \notin {"failed", "blocked"}
    BY <1>1, <1>2, <1>6 DEF HasFailedNode
  <2>4. \A n \in Nodes :
           \/ Phase(node'[n]) = Phase(node[n])
           \/ /\ Phase(node[n]) = "waiting" /\ Phase(node'[n]) \in {"active", "done", "failed"}
              /\ \A d \in Deps[n] : Phase(node'[d]) = "done"
           \/ Phase(node[n]) = "active" /\ Phase(node'[n]) = "done"
    BY <1>1, <2>2, <2>3, ScheduledPhase
  <2> QED
    BY <1>1, <1>2, <2>1, <2>4, PhaseFacts
       DEF Graph!Advance, Graph!PhaseOK, Graph!Starts, Graph!Finishes, PhaseMap
<1> QED
  BY <1>4, <1>5, <1>6

(* Every step is one of the abstract graph, or leaves it alone.             *)
LEMMA GraphStep ==
  ASSUME IInv, [Next]_wfVars
  PROVE  [Graph!Next]_(Graph!dgVars)
<1> USE DEF Graph!dgVars
<1>1. CASE UNCHANGED <<node, exec>>
  BY <1>1 DEF PhaseMap
<1>2. CASE Start
  BY <1>2, LaunchStep DEF Graph!Next
<1>3. CASE \E p \in Reconcilers : Commit(p)
  BY <1>3, CommitPhase DEF Graph!Next
<1>4. CASE Archive
  <2>1. /\ exec' = IF exec = "running" THEN "cancelled" ELSE exec
        /\ node' = [n \in Nodes |-> IF exec # "none" /\ node[n] \in LiveNode
                                    THEN "blocked" ELSE node[n]]
        /\ node \in NodeStates
    BY <1>4 DEF Archive, IInv, WorkflowTypeOK, GraphTypeOK
  <2>2. CASE exec = "none"
    <3>1. node' = node
      BY <2>1, <2>2 DEF NodeStates
    <3> QED
      BY <1>1, <2>1, <2>2, <3>1
  <2>3. CASE exec # "none"
    <3>1. \A n \in Nodes : Phase(node'[n]) = IF Phase(node[n]) \in {"waiting", "active"}
                                             THEN "stopped" ELSE Phase(node[n])
      BY <2>1, <2>3, PhaseFacts DEF Phase, LiveNode, NodeStatus
    <3>2. Graph!Stop
      BY <2>1, <2>3, <3>1 DEF Graph!Stop
    <3> QED
      BY <3>2 DEF Graph!Next
  <2> QED
    BY <2>2, <2>3
<1>5. ASSUME NEW n \in Nodes, ApproveOnly(n) PROVE Graph!Next
  <2>1. /\ node[n] = "waiting_for_review" /\ node' = [node EXCEPT ![n] = "done"]
        /\ node \in NodeStates /\ exec' = exec
    BY <1>5 DEF ApproveOnly, Awaiting, IInv, WorkflowTypeOK, GraphTypeOK, execVars
  <2>2. \A m \in Nodes : Phase(node'[m]) = IF m = n THEN "done" ELSE Phase(node[m])
    BY <2>1 DEF NodeStates, Phase
  <2>3. Phase(node[n]) = "active"
    BY <2>1 DEF Phase
  <2>4. Graph!SignOff(n)
    BY <2>1, <2>2, <2>3 DEF Graph!SignOff
  <2> QED
    BY <2>4 DEF Graph!Next
<1>6. ASSUME NEW p \in Reconcilers, Reconcile(p), ~Commit(p) PROVE UNCHANGED <<node, exec>>
  BY <1>6 DEF Reconcile, BeginForRun, BeginRecovery, BeginApproval, RollBack, execVars
<1>7. ASSUME NEW n \in Nodes, Child(n) PROVE UNCHANGED <<node, exec>>
  BY <1>7, RunStepFacts DEF IInv, Child, RejectCheckpoint, execVars
<1>8. CASE CancelRoot \/ ConfirmCancelRoot \/ Reactivate \/ Crowd
           \/ \E s \in {"active", "paused"} : PatchAutomation(s)
  <2>1. UNCHANGED <<node, exec>>
    BY <1>8 DEF CancelRoot, ConfirmCancelRoot, Reactivate, PatchAutomation, Crowd, graphVars
  <2> QED
    BY <1>1, <2>1
<1>9. CASE UNCHANGED wfVars
  BY <1>1, <1>9 DEF wfVars, graphVars, execVars
<1> QED
  BY <1>1, <1>2, <1>3, <1>4, <1>5, <1>6, <1>7, <1>8, <1>9 DEF Next

(* Every execution of every graph behaves as DependencyGraph says.          *)
THEOREM GraphRefinement == Spec => ImplementsGraph
<1>1. Init => Graph!Init
  BY DEF Init, GraphInit, Graph!Init, Phase
<1> QED BY <1>1, GraphStep, Invariance, PTL DEF Spec, ImplementsGraph, Graph!Spec

=============================================================================
