---------------------------- MODULE PlanExecution ----------------------------
(***************************************************************************)
(* One plan of a source task (modules/plans): its versions and their       *)
(* reviews, its coordinator run, and the nodes and child runs of the       *)
(* current version, executed and reconciled by requests, finalizers, the    *)
(* approval of checkpoints and the recovery loop.                          *)
(*                                                                         *)
(* The nodes of NodeRuns are those of the current version: a revision       *)
(* starts over with new rows.  What is left of an earlier version can only  *)
(* have the plan reconciled, which a request can do at any time.           *)
(***************************************************************************)
EXTENDS NodeRuns

CONSTANT MaxVersions   \* bound on the versions of the plan

ASSUME VersionsAssumption == MaxVersions \in Nat \ {0}

VARIABLES
  plan,          \* plans.status, "none" before the first proposal
  current,       \* the number of the current version
  version,       \* plan_versions.status of each version
  review,        \* its plan_review proposal, "none" when approved without one
  root           \* the coordinator run, "none" while root_run_id is NULL

planVars == <<plan, current, version, review, root>>
vars == <<graphVars, planVars>>

Versions == 1 .. MaxVersions
LiveRoot == {"waiting", "cancelling"}
Approved == current \in Versions /\ version[current] = "approved"

Init ==
  /\ GraphInit
  /\ plan = "none" /\ current = 0 /\ root = "none"
  /\ version = [v \in Versions |-> "none"]
  /\ review = [v \in Versions |-> "none"]

-----------------------------------------------------------------------------
(* createPlanFromAgent: the planner proposes the plan or its next version,  *)
(* approved at once when its risk is low.                                  *)
ProposeVersion(s) ==
  LET v == current + 1 IN
  /\ v \in Versions /\ Unlocked
  /\ root \notin LiveRoot
  /\ current' = v /\ root' = "none"
  /\ plan' = IF s = "approved" THEN "active" ELSE s
  /\ version' = [u \in Versions |->
       IF u = v THEN s ELSE IF version[u] \in {"approved", "pending_review"}
                            THEN "superseded" ELSE version[u]]
  /\ review' = [review EXCEPT ![v] = IF s = "approved" THEN "none" ELSE "pending"]
  /\ node' = [n \in Nodes |-> IF s = "approved" THEN "inbox" ELSE "blocked"]
  /\ proposal' = [n \in Nodes |-> "none"]
  /\ links' = [n \in Nodes |-> 0]
  /\ run' = [n \in Nodes |-> "none"] /\ attempt' = [n \in Nodes |-> 0]
  /\ verdict' = [n \in Nodes |-> "none"] /\ passed' = {}
  /\ stage' = [n \in Nodes |-> "open"]
  /\ UNCHANGED draft

ApplyPlanReview_AnyStatus(v) ==
  /\ Unlocked /\ review[v] = "pending"
  /\ version' = [version EXCEPT ![v] = "approved"]
  /\ review' = [review EXCEPT ![v] = "accepted"]
  /\ plan' = IF v = current THEN "active" ELSE plan
  /\ node' = [n \in Nodes |-> IF v = current /\ node[n] = "blocked" THEN "inbox" ELSE node[n]]
  /\ UNCHANGED <<current, root, proposal, links, childVars, draft>>

ApplyPlanReview(v) ==
  /\ Unlocked /\ review[v] = "pending" /\ version[v] = "pending_review"
  /\ version' = [version EXCEPT ![v] = "approved"]
  /\ review' = [review EXCEPT ![v] = "accepted"]
  /\ plan' = IF v = current THEN "active" ELSE plan
  /\ node' = [n \in Nodes |-> IF v = current /\ node[n] = "blocked" THEN "inbox" ELSE node[n]]
  /\ UNCHANGED <<current, root, proposal, links, childVars, draft>>

RejectPlanReview(v) ==
  /\ review[v] = "pending"
  /\ review' = [review EXCEPT ![v] = "rejected"]
  /\ UNCHANGED <<graphVars, plan, current, version, root>>

-----------------------------------------------------------------------------
(* verifyIntegrationNode: there are dependencies, each is a node whose own  *)
(* run passed, and its outputs are in order.                               *)
FailsVerification(n) == Deps[n] = {} \/ \E d \in Deps[n] : verdict[d] # "passed"

ScheduleReady(st, opened) ==
  LET I == {n \in ReadyNodes(st) : Kind[n] = "integration"} IN
  \E F \in SUBSET I :
    /\ {n \in I : FailsVerification(n)} \subseteq F
    /\ ScheduleReadyNodes(st, opened, F)

ExecutePlan ==
  /\ Unlocked /\ Approved
  /\ root = "none" /\ root' = "waiting" /\ plan' = "active"
  /\ ScheduleReady(node, proposal)
  /\ UNCHANGED <<draft, current, version, review>>

Reconcilable == root # "none" /\ Approved

(* A finalizer, the recovery loop or an administrator.  Neither the plan's  *)
(* status nor its project's nor the coordinator's is looked at.            *)
BeginReconcile(p) ==
  /\ Reconcilable
  /\ OpenDraft(p, node)
  /\ UNCHANGED <<node, proposal, links, childVars, planVars>>

(* applyPlanCheckpoint; it fails when the plan cannot be reconciled.       *)
BeginApproval(p, n) ==
  /\ Awaiting(n) /\ Reconcilable
  /\ OpenDraft(p, [node EXCEPT ![n] = "done"])
  /\ UNCHANGED <<node, proposal, links, childVars, planVars>>

FinishPlan(p, e, s) ==
  /\ plan' = e
  /\ root' = IF root \in LiveRoot THEN s ELSE root
  /\ node' = draft[p] /\ proposal' = Opened(p)
  /\ UNCHANGED <<links, childVars>>

(* verifyPlanIntegration reads the evaluations again, and the outputs.     *)
CompletePlan(p) ==
  \/ /\ \A n \in Tasks : verdict[n] = "passed"
     /\ FinishPlan(p, "completed", "succeeded")
  \/ FinishPlan(p, "failed", "failed")

Commit_FailedLast(p) ==
  /\ draft[p] # NoDraft
  /\ CASE {n \in Nodes : draft[p][n] \in LiveNode} = {} ->
            FinishPlan(p, "completed", "succeeded")
       [] OTHER -> /\ ScheduleReady(draft[p], Opened(p))
                   /\ UNCHANGED <<plan, root>>
  /\ CloseDraft(p)
  /\ UNCHANGED <<current, version, review>>

(* The rest of reconcilePlan, from the nodes it read back.                 *)
Commit(p) ==
  /\ draft[p] # NoDraft
  /\ CASE HasFailedNode(draft[p]) -> FinishPlan(p, "failed", "failed")
       [] ~HasFailedNode(draft[p]) /\ IsComplete(draft[p]) -> CompletePlan(p)
       [] OTHER -> /\ ScheduleReady(draft[p], Opened(p))
                   /\ UNCHANGED <<plan, root>>
  /\ CloseDraft(p)
  /\ UNCHANGED <<current, version, review>>

-----------------------------------------------------------------------------
(* cancelRun on the coordinator.                                           *)
CancelRoot ==
  /\ root = "waiting" /\ root' = "cancelling"
  /\ UNCHANGED <<graphVars, plan, current, version, review>>

ConfirmCancelRoot ==
  /\ root = "cancelling" /\ root' = "cancelled"
  /\ UNCHANGED <<graphVars, plan, current, version, review>>

Reconcile(p) ==
  \/ BeginReconcile(p)
  \/ \E n \in Nodes : BeginApproval(p, n)
  \/ Commit(p)
  \/ RollBack(p) /\ UNCHANGED planVars

Child(n) == (RunStep(n) \/ RejectCheckpoint(n)) /\ UNCHANGED planVars

Next ==
  \/ \E s \in {"approved", "pending_review"} : ProposeVersion(s)
  \/ \E v \in Versions : ApplyPlanReview(v) \/ RejectPlanReview(v)
  \/ ExecutePlan \/ CancelRoot \/ ConfirmCancelRoot
  \/ \E p \in Reconcilers : Reconcile(p)
  \/ \E n \in Nodes : Child(n)

Spec == Init /\ [][Next]_vars

-----------------------------------------------------------------------------
(* Every variable has its type (the rows of plans, plan_versions and       *)
(* plan_nodes, and the runs they name).                                    *)
PlanTypeOK ==
  /\ GraphTypeOK
  /\ plan \in {"none", "pending_review", "active", "completed", "failed"}
  /\ current \in 0 .. MaxVersions
  /\ version \in [Versions -> {"none", "pending_review", "approved", "superseded"}]
  /\ review \in [Versions -> Proposal]
  /\ root \in {"none", "succeeded", "failed", "cancelled"} \union LiveRoot

(* "Safe low-risk graphs may be auto-approved; all other graphs create a    *)
(* plan_review Proposal and keep their nodes blocked": whatever is executed *)
(* belongs to the current version, which needed no review or passed it, and *)
(* the review of a version that was revised meanwhile brings nothing back.  *)
OnlyReviewedPlansRun ==
  /\ root # "none" \/ (\E n \in Nodes : node[n] \notin {"inbox", "blocked"}) =>
       Approved /\ review[current] \in {"none", "accepted"}
  /\ \A v \in Versions : v < current => version[v] = "superseded"

(* The coordinator succeeds only for a plan all of whose nodes are done on  *)
(* evidence; a plan that reads as completed still is, although reconciles   *)
(* go on after its end and may find that a run did not pass after all.     *)
CompletedPlansAreWhole ==
  /\ root = "succeeded" => \A n \in Nodes : SignedOff(n)
  /\ plan = "completed" => \A n \in Nodes : node[n] = "done"

=============================================================================
