------------------------ MODULE PlanExecutionProofs -------------------------
(***************************************************************************)
(* For every graph, any number of versions and of reconcilers: type        *)
(* correctness, that only what was reviewed is executed, that a plan that   *)
(* completed is whole, and what a plan's graph keeps.                      *)
(***************************************************************************)
EXTENDS PlanExecution, NodeRunsProofs

(* Only the current version can be approved or wait for its review; what   *)
(* came before it is superseded, and an approval needs no open review.     *)
VersionsOK ==
  /\ \A v \in Versions : /\ v < current => version[v] = "superseded"
                         /\ v > current => version[v] = "none"
                         /\ version[v] = "approved" => review[v] \in {"none", "accepted"}
  /\ current > 0 => version[current] \in {"approved", "pending_review"}

(* Only an approved version is executed, and a version that is not being   *)
(* executed has made nothing of its nodes.                                 *)
RootOK ==
  /\ root # "none" => Approved
  /\ root = "none" =>
       /\ \A n \in Nodes : /\ node[n] \in {"inbox", "blocked"}
                           /\ links[n] = 0 /\ proposal[n] = "none"
       /\ draft = NoDrafts

PlanInv ==
  PlanTypeOK /\ GraphInv /\ VersionsOK /\ RootOK /\ CompletedPlansAreWhole

(* There is no plan, no version and no coordinator at first.                *)
LEMMA PlanStart == ASSUME Init PROVE PlanInv
<1>1. GraphInv
  BY GraphStart DEF Init
<1>2. PlanTypeOK
  BY <1>1, VersionsAssumption DEF Init, PlanTypeOK, GraphInv, Versions, Proposal
<1>3. VersionsOK /\ RootOK /\ CompletedPlansAreWhole
  BY DEF Init, GraphInit, Versions, VersionsOK, RootOK, CompletedPlansAreWhole
<1> QED
  BY <1>1, <1>2, <1>3 DEF PlanInv

(* A step that touches neither the nodes nor the plan, and takes back       *)
(* nothing that was signed off.                                            *)
LEMMA PlanKept ==
  ASSUME PlanInv, GraphInv', UNCHANGED <<node, planVars>>,
         root = "none" => UNCHANGED <<proposal, links, draft>>,
         \A n \in Nodes : SignedOff(n) => SignedOff(n)'
  PROVE  PlanInv'
<1> USE DEF planVars
<1>1. PlanTypeOK'
  BY DEF PlanInv, PlanTypeOK, GraphInv
<1>2. VersionsOK' /\ RootOK'
  BY DEF PlanInv, VersionsOK, RootOK, Approved
<1>3. CompletedPlansAreWhole'
  BY DEF PlanInv, CompletedPlansAreWhole
<1> QED
  BY <1>1, <1>2, <1>3 DEF PlanInv

-----------------------------------------------------------------------------
(* Versions and their reviews.                                             *)

(* The next version starts over: what came before it is superseded.        *)
LEMMA ProposeStep ==
  ASSUME PlanInv, NEW s \in {"approved", "pending_review"}, ProposeVersion(s)
  PROVE  PlanInv'
<1> PICK v : v = current + 1
  OBVIOUS
<1>1. /\ v \in Versions /\ draft = NoDrafts /\ draft' = NoDrafts
      /\ current' = v /\ root' = "none"
      /\ plan' = IF s = "approved" THEN "active" ELSE s
      /\ version' = [u \in Versions |->
           IF u = v THEN s ELSE IF version[u] \in {"approved", "pending_review"}
                                THEN "superseded" ELSE version[u]]
      /\ review' = [review EXCEPT ![v] = IF s = "approved" THEN "none" ELSE "pending"]
      /\ node' = [n \in Nodes |-> IF s = "approved" THEN "inbox" ELSE "blocked"]
      /\ proposal' = [n \in Nodes |-> "none"]
      /\ links' = [n \in Nodes |-> 0]
      /\ run' = [n \in Nodes |-> "none"] /\ attempt' = [n \in Nodes |-> 0]
      /\ verdict' = [n \in Nodes |-> "none"] /\ passed' = {}
      /\ stage' = [n \in Nodes |-> "open"]
  BY DEF ProposeVersion, Unlocked
<1>2. PlanTypeOK /\ VersionsOK /\ current \in Nat /\ MaxVersions \in Nat
  BY VersionsAssumption DEF PlanInv, PlanTypeOK
<1>3. GraphInv'
  <2>1. GraphTypeOK'
    BY <1>1 DEF NoDrafts, GraphTypeOK, NodeStates, NodeStatus, Proposal, RunStatus
  <2>2. OneRunPerNode' /\ NothingIsSkipped' /\ RunsOK' /\ DraftsOK'
    BY <1>1 DEF NoDrafts, OneRunPerNode, NothingIsSkipped, RunsOK, DraftsOK
  <2> QED
    BY <2>1, <2>2 DEF GraphInv
<1>4. PlanTypeOK'
  <2>1. version' \in [Versions -> {"none", "pending_review", "approved", "superseded"}]
    BY <1>1, <1>2 DEF PlanTypeOK
  <2>2. review' \in [Versions -> Proposal]
    BY <1>1, <1>2 DEF PlanTypeOK, Proposal
  <2>3. /\ current' \in 0 .. MaxVersions
        /\ plan' \in {"none", "pending_review", "active", "completed", "failed"}
    BY <1>1, <1>2 DEF Versions
  <2> QED
    BY <1>1, <1>3, <2>1, <2>2, <2>3 DEF PlanTypeOK, GraphInv
<1>5. VersionsOK'
  <2>1. \A u \in Versions : u # v => u < current \/ u = current \/ u > v
    BY <1>1, <1>2 DEF Versions
  <2>2. \A u \in Versions :
          /\ version'[u] = IF u = v THEN s ELSE IF version[u] \in {"approved", "pending_review"}
                                               THEN "superseded" ELSE version[u]
          /\ review'[u] = IF u = v THEN (IF s = "approved" THEN "none" ELSE "pending")
                                   ELSE review[u]
    BY <1>1, <1>2 DEF PlanTypeOK
  <2>3. ASSUME NEW u \in Versions
        PROVE  /\ u < v => version'[u] = "superseded"
               /\ u > v => version'[u] = "none"
    <3>1. u \in Nat /\ v = current + 1 /\ u > 0
      BY <1>1 DEF Versions
    <3>2. u < v => u < current \/ u = current
      BY <3>1, <1>2
    <3>3. u = current => version[u] \in {"approved", "pending_review"}
      BY <3>1, <1>2 DEF VersionsOK
    <3>4. u > v => u > current
      BY <3>1, <1>2
    <3> QED
      BY <3>1, <3>2, <3>3, <3>4, <2>2, <1>2 DEF VersionsOK
  <2>4. \A u \in Versions : version'[u] = "approved" => review'[u] \in {"none", "accepted"}
    BY <2>2
  <2> QED
    BY <1>1, <2>2, <2>3, <2>4 DEF VersionsOK
<1>6. RootOK' /\ CompletedPlansAreWhole'
  BY <1>1 DEF RootOK, CompletedPlansAreWhole
<1> QED
  BY <1>3, <1>4, <1>5, <1>6 DEF PlanInv

(* Only the current version's review can be accepted, and it opens a graph  *)
(* that nothing has begun to execute.                                      *)
LEMMA ReviewStep ==
  ASSUME PlanInv, NEW v \in Versions, ApplyPlanReview(v)
  PROVE  PlanInv'
<1>1. /\ draft = NoDrafts /\ review[v] = "pending" /\ version[v] = "pending_review"
      /\ version' = [version EXCEPT ![v] = "approved"]
      /\ review' = [review EXCEPT ![v] = "accepted"]
      /\ plan' = IF v = current THEN "active" ELSE plan
      /\ node' = [n \in Nodes |-> IF v = current /\ node[n] = "blocked" THEN "inbox" ELSE node[n]]
      /\ UNCHANGED <<current, root, proposal, links, childVars, draft>>
  BY DEF ApplyPlanReview, Unlocked
<1>2. PlanTypeOK /\ VersionsOK /\ RootOK /\ GraphInv /\ current \in Nat
  BY DEF PlanInv, PlanTypeOK
<1>3. v = current
  <2>1. ~(v < current) /\ ~(v > current) /\ v \in Nat
    BY <1>1, <1>2 DEF VersionsOK, Versions
  <2> QED
    BY <2>1, <1>2
<1>4. ~Approved /\ root = "none"
  BY <1>1, <1>2, <1>3 DEF Approved, RootOK
<1>5. \A n \in Nodes : node[n] \in {"inbox", "blocked"} /\ links[n] = 0 /\ proposal[n] = "none"
  BY <1>2, <1>4 DEF RootOK
<1>6. node' = [n \in Nodes |-> "inbox"]
  BY <1>1, <1>3, <1>5
<1>7. GraphInv'
  <2>1. GraphTypeOK'
    BY <1>1, <1>2, <1>6 DEF GraphInv, GraphTypeOK, NodeStates, NodeStatus, childVars
  <2>2. OneRunPerNode' /\ NothingIsSkipped'
    BY <1>1, <1>5, <1>6 DEF OneRunPerNode, NothingIsSkipped
  <2>3. RunsOK' /\ DraftsOK'
    BY <1>1, <1>2, <1>5, <1>6 DEF GraphInv, RunsOK, DraftsOK, NoDrafts, childVars
  <2> QED
    BY <2>1, <2>2, <2>3 DEF GraphInv
<1>8. PlanTypeOK'
  <2>1. version' \in [Versions -> {"none", "pending_review", "approved", "superseded"}]
    BY <1>1, <1>2 DEF PlanTypeOK
  <2>2. review' \in [Versions -> Proposal]
    BY <1>1, <1>2 DEF PlanTypeOK, Proposal
  <2> QED
    BY <1>1, <1>2, <1>7, <2>1, <2>2 DEF PlanTypeOK, GraphInv
<1>9. VersionsOK'
  BY <1>1, <1>2, <1>3 DEF VersionsOK, PlanTypeOK, Versions
<1>10. RootOK' /\ CompletedPlansAreWhole'
  BY <1>1, <1>3, <1>4, <1>5, <1>6 DEF RootOK, CompletedPlansAreWhole
<1> QED
  BY <1>7, <1>8, <1>9, <1>10 DEF PlanInv

(* A rejected review leaves its version as it was.                          *)
LEMMA RejectReviewStep ==
  ASSUME PlanInv, NEW v \in Versions, RejectPlanReview(v)
  PROVE  PlanInv'
<1>1. /\ review[v] = "pending" /\ review' = [review EXCEPT ![v] = "rejected"]
      /\ UNCHANGED <<graphVars, plan, current, version, root>>
  BY DEF RejectPlanReview
<1>2. PlanTypeOK /\ VersionsOK /\ RootOK /\ GraphInv
  BY DEF PlanInv
<1>3. GraphInv'
  BY <1>1, <1>2, GraphKept
<1>4. PlanTypeOK'
  BY <1>1, <1>2, <1>3 DEF PlanTypeOK, GraphInv, Proposal
<1>5. VersionsOK'
  BY <1>1, <1>2 DEF VersionsOK, PlanTypeOK
<1>6. RootOK' /\ CompletedPlansAreWhole'
  BY <1>1 DEF PlanInv, RootOK, Approved, CompletedPlansAreWhole, SignedOff, graphVars, childVars
<1> QED
  BY <1>3, <1>4, <1>5, <1>6 DEF PlanInv

-----------------------------------------------------------------------------
(* Executing the current version.                                          *)

(* Scheduling from the draft st: some integrations may fail verification.   *)
LEMMA ScheduleReadyStep ==
  ASSUME PlanInv, Approved, root' # "none", UNCHANGED <<current, version, review>>,
         plan' = "active" \/ (plan' = plan /\ plan # "completed"),
         root' \in LiveRoot \/ root' = root,
         NEW st \in NodeStates, NEW op \in [Nodes -> Proposal],
         \A n \in Nodes : TakenIn(st, op, n),
         ScheduleReady(st, op), draft' = NoDrafts
  PROVE  PlanInv'
<1>1. PICK F : ScheduleReadyNodes(st, op, F)
  BY DEF ScheduleReady
<1>2. PICK U : Schedules(st, op, ReadyNodes(st), U, F)
  BY <1>1 DEF ScheduleReadyNodes, Schedules
<1>3. GraphInv' /\ \A n \in Nodes : SignedOff(n) => SignedOff(n)'
  BY <1>2, ScheduleStep DEF PlanInv
<1>4. PlanTypeOK'
  BY <1>3 DEF PlanInv, PlanTypeOK, GraphInv
<1>5. VersionsOK' /\ RootOK'
  BY DEF PlanInv, VersionsOK, RootOK, Approved
<1>6. CompletedPlansAreWhole'
  BY <1>3 DEF PlanInv, CompletedPlansAreWhole, LiveRoot
<1> QED
  BY <1>3, <1>4, <1>5, <1>6 DEF PlanInv

(* executePlan schedules the nodes that depend on nothing.                  *)
LEMMA ExecuteStep == ASSUME PlanInv, ExecutePlan PROVE PlanInv'
<1> PICK st : st = node
  OBVIOUS
<1> PICK op : op = proposal
  OBVIOUS
<1>1. /\ draft = NoDrafts /\ draft' = NoDrafts /\ Approved /\ root = "none"
      /\ root' = "waiting" /\ plan' = "active"
      /\ UNCHANGED <<current, version, review>>
      /\ ScheduleReady(st, op)
  BY DEF ExecutePlan, Unlocked
<1>2. st \in NodeStates /\ op \in [Nodes -> Proposal]
  BY DEF PlanInv, PlanTypeOK, GraphTypeOK
<1>3. \A n \in Nodes : TakenIn(st, op, n)
  BY <1>1 DEF PlanInv, RootOK, TakenIn
<1>4. root' # "none" /\ root' \in LiveRoot
  BY <1>1 DEF LiveRoot
<1> QED
  BY <1>1, <1>2, <1>3, <1>4, ScheduleReadyStep

(* A reconcile, or the approval of a checkpoint, opens a draft.             *)
LEMMA BeginStep ==
  ASSUME PlanInv, NEW p \in Reconcilers,
         BeginReconcile(p) \/ \E n \in Nodes : BeginApproval(p, n)
  PROVE  PlanInv'
<1>1. node \in NodeStates
  BY DEF PlanInv, PlanTypeOK, GraphTypeOK
<1>2. PICK st \in NodeStates :
        /\ \A n \in Nodes : st[n] = node[n] \/ (Awaiting(n) /\ st[n] = "done")
        /\ OpenDraft(p, st)
        /\ root # "none" /\ UNCHANGED <<node, proposal, links, childVars, planVars>>
  <2>1. CASE BeginReconcile(p)
    BY <1>1, <2>1 DEF BeginReconcile, Reconcilable
  <2>2. CASE \E n \in Nodes : BeginApproval(p, n)
    <3> PICK n \in Nodes : BeginApproval(p, n)
      BY <2>2
    <3> PICK st : st = [node EXCEPT ![n] = "done"]
      OBVIOUS
    <3>1. st \in NodeStates /\ Awaiting(n)
          /\ \A m \in Nodes : st[m] = node[m] \/ (Awaiting(m) /\ st[m] = "done")
      BY <1>1 DEF BeginApproval, NodeStates, NodeStatus
    <3> QED
      BY <3>1 DEF BeginApproval, Reconcilable
  <2> QED
    BY <2>1, <2>2
<1>3. GraphInv'
  BY <1>2, OpenDraftStep DEF PlanInv
<1>4. \A n \in Nodes : SignedOff(n) => SignedOff(n)'
  BY <1>2 DEF SignedOff, childVars
<1> QED
  BY <1>2, <1>3, <1>4, PlanKept

(* The plan ends on the draft: whole when it completed.                     *)
LEMMA FinishStep ==
  ASSUME PlanInv, NEW p \in Reconcilers, draft[p] # NoDraft, CloseDraft(p),
         NEW e, NEW s, FinishPlan(p, e, s), UNCHANGED <<current, version, review>>,
         \/ e = "failed" /\ s = "failed"
         \/ e = "completed" /\ s = "succeeded" /\ IsComplete(draft[p])
  PROVE  PlanInv'
<1>1. /\ node' = draft[p] /\ proposal' = Opened(p) /\ UNCHANGED <<links, childVars>>
      /\ plan' = e /\ root' = IF root \in LiveRoot THEN s ELSE root
  BY DEF FinishPlan
<1>2. GraphInv' /\ \A n \in Nodes : SignedOff(n) => SignedOff(n)'
  BY <1>1, CloseStep DEF PlanInv
<1>3. PlanTypeOK'
  BY <1>1, <1>2 DEF PlanInv, PlanTypeOK, GraphInv, LiveRoot
<1>4. root # "none" /\ root' # "none"
  BY <1>1 DEF PlanInv, RootOK, NoDrafts, LiveRoot
<1>5. VersionsOK' /\ RootOK'
  BY <1>4 DEF PlanInv, VersionsOK, RootOK, Approved
<1>6. IsComplete(draft[p]) => \A n \in Nodes : node'[n] = "done" /\ SignedOff(n)'
  BY <1>1, <1>2 DEF IsComplete, GraphInv, NothingIsSkipped
<1>7. CompletedPlansAreWhole'
  BY <1>1, <1>2, <1>6 DEF PlanInv, CompletedPlansAreWhole, LiveRoot
<1> QED
  BY <1>2, <1>3, <1>5, <1>7 DEF PlanInv

(* A draft of a plan that completed has a failed node or is complete, so    *)
(* that nothing is scheduled for it.                                       *)
LEMMA CommitStep == ASSUME PlanInv, NEW p \in Reconcilers, Commit(p) PROVE PlanInv'
<1> PICK st : st = draft[p]
  OBVIOUS
<1> PICK op : op = Opened(p)
  OBVIOUS
<1>1. draft[p] # NoDraft /\ CloseDraft(p) /\ UNCHANGED <<current, version, review>>
  BY DEF Commit
<1>2. /\ st \in NodeStates /\ op \in [Nodes -> Proposal]
      /\ \A n \in Nodes : TakenIn(st, op, n)
      /\ draft' = NoDrafts
  BY <1>1, DraftFacts DEF PlanInv
<1>3. CASE HasFailedNode(st)
  <2>1. FinishPlan(p, "failed", "failed")
    BY <1>3 DEF Commit
  <2> QED
    BY <1>1, <2>1, FinishStep
<1>4. CASE ~HasFailedNode(st) /\ IsComplete(st)
  <2>1. FinishPlan(p, "completed", "succeeded") \/ FinishPlan(p, "failed", "failed")
    BY <1>4 DEF Commit, CompletePlan
  <2> QED
    BY <1>1, <1>4, <2>1, FinishStep
<1>5. CASE ~HasFailedNode(st) /\ ~IsComplete(st)
  <2>1. ScheduleReady(st, op) /\ UNCHANGED <<plan, root>>
    BY <1>5 DEF Commit
  <2>2. root # "none" /\ Approved
    BY <1>1 DEF PlanInv, RootOK, NoDrafts
  <2>3. plan # "completed"
    <3>1. (\A n \in Nodes : node[n] = "done") => HasFailedNode(st) \/ IsComplete(st)
      BY <1>2 DEF TakenIn, HasFailedNode, IsComplete
    <3> QED
      BY <1>5, <3>1 DEF PlanInv, CompletedPlansAreWhole
  <2>4. root' # "none" /\ root' = root /\ plan' = plan
    BY <2>1, <2>2
  <2> QED
    BY <1>1, <1>2, <2>1, <2>2, <2>3, <2>4, ScheduleReadyStep
<1> QED
  BY <1>3, <1>4, <1>5

-----------------------------------------------------------------------------
(* The coordinator is cancelled: its plan is executed on.                   *)
LEMMA CancelStep == ASSUME PlanInv, CancelRoot \/ ConfirmCancelRoot PROVE PlanInv'
<1>1. /\ UNCHANGED <<graphVars, plan, current, version, review>>
      /\ root \in LiveRoot /\ root' \in {"cancelling", "cancelled"}
  BY DEF CancelRoot, ConfirmCancelRoot, LiveRoot
<1>2. GraphInv'
  BY <1>1, GraphKept DEF PlanInv
<1>3. PlanTypeOK'
  BY <1>1, <1>2 DEF PlanInv, PlanTypeOK, GraphInv, LiveRoot
<1>4. VersionsOK' /\ RootOK' /\ CompletedPlansAreWhole'
  BY <1>1 DEF PlanInv, VersionsOK, RootOK, Approved, CompletedPlansAreWhole, LiveRoot, graphVars
<1> QED
  BY <1>2, <1>3, <1>4 DEF PlanInv

(* The child runs, and the proposals a checkpoint has.                      *)
LEMMA ChildStep == ASSUME PlanInv, NEW n \in Nodes, Child(n) PROVE PlanInv'
<1>1. CASE RunStep(n) /\ UNCHANGED planVars
  <2>1. GraphInv' /\ UNCHANGED <<node, proposal, links, draft>> /\ passed \subseteq passed'
    BY <1>1, RunStepFacts DEF PlanInv
  <2>2. \A m \in Nodes : SignedOff(m) => SignedOff(m)'
    BY <2>1 DEF SignedOff
  <2> QED
    BY <1>1, <2>1, <2>2, PlanKept
<1>2. CASE RejectCheckpoint(n) /\ UNCHANGED planVars
  <2>1. /\ GraphInv' /\ UNCHANGED <<node, links, childVars, draft>>
        /\ \A m \in Nodes : SignedOff(m) => SignedOff(m)'
    BY <1>2, RejectFacts DEF PlanInv
  <2>2. root # "none"
    BY <1>2 DEF RejectCheckpoint, PlanInv, RootOK
  <2> QED
    BY <1>2, <2>1, <2>2, PlanKept
<1> QED
  BY <1>1, <1>2 DEF Child

(* Every step keeps the invariant.                                          *)
LEMMA PlanStep == ASSUME PlanInv, [Next]_vars PROVE PlanInv'
<1>1. CASE \E s \in {"approved", "pending_review"} : ProposeVersion(s)
  BY <1>1, ProposeStep
<1>2. CASE \E v \in Versions : ApplyPlanReview(v) \/ RejectPlanReview(v)
  BY <1>2, ReviewStep, RejectReviewStep
<1>3. CASE ExecutePlan \/ CancelRoot \/ ConfirmCancelRoot
  BY <1>3, ExecuteStep, CancelStep
<1>4. ASSUME NEW p \in Reconcilers, Reconcile(p) PROVE PlanInv'
  <2>1. CASE RollBack(p) /\ UNCHANGED planVars
    <3>1. GraphInv' /\ UNCHANGED <<node, proposal, links, childVars>>
      BY <2>1, RollBackStep DEF PlanInv, RollBack
    <3>2. root # "none"
      BY <2>1 DEF RollBack, PlanInv, RootOK, NoDrafts
    <3>3. \A m \in Nodes : SignedOff(m) => SignedOff(m)'
      BY <3>1 DEF SignedOff, childVars
    <3> QED
      BY <2>1, <3>1, <3>2, <3>3, PlanKept
  <2> QED
    BY <1>4, <2>1, BeginStep, CommitStep DEF Reconcile
<1>5. ASSUME NEW n \in Nodes, Child(n) PROVE PlanInv'
  BY <1>5, ChildStep
<1>6. CASE UNCHANGED vars
  <2>1. GraphInv' /\ \A m \in Nodes : SignedOff(m) => SignedOff(m)'
    BY <1>6, GraphKept DEF PlanInv, vars, graphVars, childVars, SignedOff
  <2> QED
    BY <1>6, <2>1, PlanKept DEF vars, graphVars
<1> QED
  BY <1>1, <1>2, <1>3, <1>4, <1>5, <1>6 DEF Next

(* The invariant holds throughout.                                          *)
LEMMA PlanHolds == Spec => []PlanInv
<1> QED BY PlanStart, PlanStep, PTL DEF Spec

-----------------------------------------------------------------------------
(* The rows of plans, plan_versions and plan_nodes keep their types.        *)
THEOREM PlanTypeCorrect == Spec => []PlanTypeOK
<1>1. PlanInv => PlanTypeOK
  BY DEF PlanInv
<1> QED BY <1>1, PlanHolds, PTL

(* Whatever is executed belongs to the current version, which needed no     *)
(* review or passed it, however often the plan is revised and whenever the *)
(* review of an earlier version comes in.                                  *)
THEOREM ReviewedPlansRun == Spec => []OnlyReviewedPlansRun
<1>1. PlanInv => OnlyReviewedPlansRun
  BY DEF PlanInv, VersionsOK, RootOK, Approved, OnlyReviewedPlansRun
<1> QED BY <1>1, PlanHolds, PTL

(* However many reconciles go on after the end, a coordinator that          *)
(* succeeded stands on evidence for every node, and a plan that reads as   *)
(* completed has no node that is not done.                                 *)
THEOREM CompletedIsWhole == Spec => []CompletedPlansAreWhole
<1>1. PlanInv => CompletedPlansAreWhole
  BY DEF PlanInv
<1> QED BY <1>1, PlanHolds, PTL

(* The nodes of a version are dispatched once and only behind what they     *)
(* depend on, although plans, unlike workflow executions, are reconciled   *)
(* after their end and their integrations can fail.                        *)
THEOREM PlansDispatchOnce == Spec => [](OneRunPerNode /\ NothingIsSkipped)
<1>1. PlanInv => OneRunPerNode /\ NothingIsSkipped
  BY DEF PlanInv, GraphInv
<1> QED BY <1>1, PlanHolds, PTL

=============================================================================
