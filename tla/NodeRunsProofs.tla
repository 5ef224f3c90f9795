--------------------------- MODULE NodeRunsProofs ----------------------------
(***************************************************************************)
(* What every graph of NodeRuns keeps, whoever executes it: types, at most *)
(* one run per node, no node before what it depends on, and that an open   *)
(* draft differs from the graph only by what runs and an approval made of  *)
(* it.  Each step a plan or a workflow execution is made of keeps it.      *)
(***************************************************************************)
EXTENDS NodeRuns, TLAPS

(* What holds of node n in an open draft d: the draft is the node's own     *)
(* status, or what its run or an approval has made of it.                  *)
DraftNode(d, n) ==
  /\ d[n] = "inbox" <=> node[n] = "inbox"
  /\ d[n] = node[n] \/ (links[n] > 0 /\ d[n] \in {"done", "failed"})
     \/ (Kind[n] = "checkpoint" /\ node[n] = "waiting_for_review" /\ d[n] = "done")
  /\ d[n] = "done" =>
       \/ SignedOff(n)
       \/ Kind[n] = "checkpoint" /\ proposal[n] = "pending"

(* One transaction at a time is open.                                      *)
DraftsOK ==
  /\ \A p, q \in Reconcilers : draft[p] # NoDraft /\ draft[q] # NoDraft => p = q
  /\ \A p \in Reconcilers : draft[p] # NoDraft => \A n \in Nodes : DraftNode(draft[p], n)

(* A run, an attempt and an evaluation exist for the nodes that were       *)
(* dispatched, and only tasks are.                                         *)
RunsOK ==
  \A n \in Nodes :
    /\ run[n] = "none" <=> links[n] = 0
    /\ links[n] > 0 => Kind[n] = "task" /\ attempt[n] > 0
    /\ verdict[n] = "passed" => n \in passed
    /\ n \in passed => links[n] > 0
    /\ proposal[n] # "none" => Kind[n] = "checkpoint"
    /\ node[n] = "inbox" => links[n] = 0 /\ proposal[n] = "none"

GraphInv == GraphTypeOK /\ OneRunPerNode /\ NothingIsSkipped /\ DraftsOK /\ RunsOK

(* No node has a status, no run exists and no draft is open at first.       *)
LEMMA GraphStart == ASSUME GraphInit PROVE GraphInv
<1>1. GraphTypeOK
  BY DEF GraphInit, NoDrafts, GraphTypeOK, NodeStates, NodeStatus, Proposal, RunStatus
<1>2. OneRunPerNode /\ NothingIsSkipped /\ RunsOK /\ DraftsOK
  BY DEF GraphInit, NoDrafts, OneRunPerNode, NothingIsSkipped, RunsOK, DraftsOK
<1> QED
  BY <1>1, <1>2 DEF GraphInv

(* A step that leaves the graph alone keeps what is known of it.            *)
LEMMA GraphKept == ASSUME GraphInv, UNCHANGED graphVars PROVE GraphInv'
<1> USE DEF graphVars, childVars
<1>1. GraphTypeOK' /\ OneRunPerNode' /\ RunsOK'
  BY DEF GraphInv, GraphTypeOK, OneRunPerNode, RunsOK
<1>2. NothingIsSkipped' /\ DraftsOK'
  BY DEF GraphInv, NothingIsSkipped, SignedOff, DraftsOK, DraftNode
<1> QED
  BY <1>1, <1>2 DEF GraphInv

-----------------------------------------------------------------------------
(* A step of a child run leaves the graph alone and forgets no evaluation   *)
(* that passed.                                                            *)
LEMMA RunStepFacts ==
  ASSUME GraphInv, NEW n \in Nodes, RunStep(n)
  PROVE  /\ UNCHANGED <<node, proposal, links, draft>> /\ passed \subseteq passed'
         /\ GraphInv'
<1>1. /\ UNCHANGED <<node, proposal, links, draft>> /\ passed \subseteq passed'
      /\ GraphTypeOK' /\ RunsOK'
  <2> USE DEF GraphInv, GraphTypeOK, RunsOK, KeepGraph, SetRun, LiveRun, EndedRun, RunStatus
  <2>1. CASE StartRun(n) \/ EndRun(n) \/ PauseRun(n)
    BY <2>1 DEF StartRun, EndRun, PauseRun
  <2>2. CASE GrantRun(n) \/ CancelRun(n) \/ DegradeRun(n)
    BY <2>2 DEF GrantRun, CancelRun, DegradeRun
  <2>3. CASE Evaluate(n)
    BY <2>3 DEF Evaluate
  <2>4. CASE InsertFinalization(n) \/ SuperviseReview(n)
    BY <2>4 DEF InsertFinalization, SuperviseReview
  <2>5. CASE SuperviseRetry(n) \/ ResumeRun(n)
    BY <2>5 DEF SuperviseRetry, ResumeRun, NewAttempt
  <2>6. CASE LoseJob(n) \/ StartLostRun(n) \/ LoseExecutor(n) \/ RecoverRun(n)
    BY <2>6 DEF LoseJob, StartLostRun, LoseExecutor, RecoverRun
  <2> QED
    BY <2>1, <2>2, <2>3, <2>4, <2>5, <2>6 DEF RunStep
<1>2. \A m \in Nodes : SignedOff(m) => SignedOff(m)'
  BY <1>1 DEF SignedOff
<1>3. NothingIsSkipped'
  BY <1>1, <1>2, GraphAssumption DEF GraphInv, NothingIsSkipped
<1>4. DraftsOK' /\ OneRunPerNode'
  BY <1>1, <1>2 DEF GraphInv, DraftsOK, DraftNode, OneRunPerNode
<1> QED
  BY <1>1, <1>3, <1>4 DEF GraphInv

(* A checkpoint is rejected, unless it is just being approved.              *)
LEMMA RejectFacts ==
  ASSUME GraphInv, NEW n \in Nodes, RejectCheckpoint(n)
  PROVE  /\ UNCHANGED <<node, links, childVars, draft>>
         /\ \A m \in Nodes : /\ SignedOff(m) => SignedOff(m)'
                             /\ proposal[m] = "none" => proposal'[m] = "none"
         /\ GraphInv'
<1>1. /\ proposal[n] = "pending" /\ ~Approving(n)
      /\ proposal' = [proposal EXCEPT ![n] = "rejected"]
      /\ UNCHANGED <<node, links, childVars, draft>>
  BY DEF RejectCheckpoint
<1>2. GraphTypeOK /\ NothingIsSkipped /\ Deps \in [Nodes -> SUBSET Nodes]
  BY GraphAssumption DEF GraphInv
<1>3. GraphTypeOK'
  BY <1>1, <1>2 DEF GraphTypeOK, Proposal, childVars
<1>4. \A m \in Nodes : proposal'[m] = IF m = n THEN "rejected" ELSE proposal[m]
  BY <1>1, <1>2 DEF GraphTypeOK
<1>5. \A m \in Nodes : SignedOff(m) => SignedOff(m)'
  BY <1>1, <1>4 DEF SignedOff, childVars
<1>6. NothingIsSkipped'
  <2>1. \A m \in Nodes : links'[m] > 0 \/ proposal'[m] # "none" \/ node'[m] = "done" =>
          links[m] > 0 \/ proposal[m] # "none" \/ node[m] = "done"
    BY <1>1, <1>4
  <2> QED
    BY <1>1, <1>2, <1>5, <2>1 DEF NothingIsSkipped
<1>7. DraftsOK'
  <2>1. ASSUME NEW p \in Reconcilers, draft[p] # NoDraft, NEW m \in Nodes
        PROVE  DraftNode(draft[p], m)'
    <3>1. DraftNode(draft[p], m)
      BY <2>1 DEF GraphInv, DraftsOK
    <3>2. m = n => draft[p][m] # "done"
      BY <1>1, <2>1 DEF Approving
    <3> QED
      BY <1>1, <1>4, <1>5, <3>1, <3>2 DEF DraftNode
  <2> QED
    BY <1>1, <2>1 DEF GraphInv, DraftsOK
<1>8. OneRunPerNode' /\ RunsOK'
  BY <1>1, <1>4 DEF GraphInv, OneRunPerNode, RunsOK, childVars
<1> QED
  BY <1>1, <1>3, <1>4, <1>5, <1>6, <1>7, <1>8 DEF GraphInv

-----------------------------------------------------------------------------
(* Opening a draft and giving it up.                                       *)

(* What the projection makes of a node, approved just before or not.        *)
LEMMA ProjectedNode ==
  ASSUME GraphInv, NEW st \in NodeStates, NEW n \in Nodes,
         st[n] = node[n] \/ (Awaiting(n) /\ st[n] = "done")
  PROVE  /\ ProjectLatestRuns(st)[n] \in NodeStatus
         /\ DraftNode(ProjectLatestRuns(st), n)
<1> DEFINE d == ProjectLatestRuns(st)
<1>1. d[n] = ProjectRunOutcome(n, st[n])
  BY DEF ProjectLatestRuns
<1>2. /\ run[n] = "none" <=> links[n] = 0
      /\ links[n] > 0 => Kind[n] = "task"
      /\ verdict[n] = "passed" => n \in passed
      /\ node[n] = "inbox" => links[n] = 0
      /\ links[n] \in Nat /\ node[n] \in NodeStatus
      /\ node[n] = "done" => SignedOff(n)
  BY DEF GraphInv, RunsOK, GraphTypeOK, NodeStates, NothingIsSkipped
<1>3. CASE run[n] = "none"
  <2>1. d[n] = st[n]
    BY <1>1, <1>3 DEF ProjectRunOutcome
  <2> QED
    BY <2>1, <1>2 DEF DraftNode, Awaiting, Checkpoints, NodeStatus
<1>4. CASE run[n] # "none"
  <2>1. links[n] > 0 /\ Kind[n] = "task" /\ st[n] = node[n] /\ node[n] # "inbox"
    BY <1>2, <1>4 DEF Awaiting, Checkpoints
  <2>2. d[n] = node[n] \/ d[n] = "failed" \/ (d[n] = "done" /\ verdict[n] = "passed")
    BY <1>1, <2>1 DEF ProjectRunOutcome
  <2> QED
    BY <2>1, <2>2, <1>2 DEF DraftNode, SignedOff, NodeStatus
<1> QED
  BY <1>3, <1>4

(* Opening a draft changes nothing else.                                   *)
LEMMA OpenDraftStep ==
  ASSUME GraphInv, NEW p \in Reconcilers, NEW st \in NodeStates,
         \A n \in Nodes : st[n] = node[n] \/ (Awaiting(n) /\ st[n] = "done"),
         OpenDraft(p, st), UNCHANGED <<node, proposal, links, childVars>>
  PROVE  GraphInv'
<1> PICK d : d = ProjectLatestRuns(st)
  OBVIOUS
<1>1. d \in NodeStates /\ \A n \in Nodes : DraftNode(d, n)
  <2>1. \A n \in Nodes : d[n] \in NodeStatus /\ DraftNode(d, n)
    BY ProjectedNode
  <2>2. d = [n \in Nodes |-> ProjectRunOutcome(n, st[n])]
    BY DEF ProjectLatestRuns
  <2> QED
    BY <2>1, <2>2 DEF NodeStates
<1>2. draft' = [draft EXCEPT ![p] = d] /\ draft = NoDrafts
  BY DEF OpenDraft, Unlocked
<1>3. draft \in [Reconcilers -> NodeStates \union {NoDraft}]
  BY DEF GraphInv, GraphTypeOK
<1>4. \A q \in Reconcilers : draft'[q] = IF q = p THEN d ELSE NoDraft
  BY <1>2, <1>3 DEF NoDrafts
<1>5. GraphTypeOK'
  BY <1>1, <1>2, <1>3 DEF GraphInv, GraphTypeOK, childVars
<1>6. DraftsOK'
  <2>1. \A n \in Nodes : DraftNode(d, n)'
    BY <1>1 DEF DraftNode, SignedOff, childVars
  <2> QED
    BY <1>4, <2>1 DEF DraftsOK
<1>7. OneRunPerNode' /\ NothingIsSkipped' /\ RunsOK'
  BY DEF GraphInv, OneRunPerNode, NothingIsSkipped, SignedOff, RunsOK, childVars
<1> QED
  BY <1>5, <1>6, <1>7 DEF GraphInv

(* A draft that is rolled back leaves the graph as it was.                  *)
LEMMA RollBackStep ==
  ASSUME GraphInv, NEW p \in Reconcilers, RollBack(p)
  PROVE  GraphInv' /\ \A q \in Reconcilers : draft'[q] # NoDraft => draft[q] # NoDraft
<1>1. draft' = [draft EXCEPT ![p] = NoDraft] /\ UNCHANGED <<node, proposal, links, childVars>>
  BY DEF RollBack, CloseDraft
<1>2. draft \in [Reconcilers -> NodeStates \union {NoDraft}]
  BY DEF GraphInv, GraphTypeOK
<1>3. GraphTypeOK'
  BY <1>1, <1>2 DEF GraphInv, GraphTypeOK, childVars
<1>4. \A q \in Reconcilers : draft'[q] = draft[q] \/ draft'[q] = NoDraft
  BY <1>1, <1>2
<1>5. DraftsOK'
  BY <1>1, <1>4 DEF GraphInv, DraftsOK, DraftNode, SignedOff, childVars
<1>6. OneRunPerNode' /\ NothingIsSkipped' /\ RunsOK'
  BY <1>1 DEF GraphInv, OneRunPerNode, NothingIsSkipped, SignedOff, RunsOK, childVars
<1> QED
  BY <1>3, <1>4, <1>5, <1>6 DEF GraphInv

-----------------------------------------------------------------------------
(* Closing a draft st, with the proposals op, and scheduling R.            *)

(* What holds of node n in the draft that is committed.                    *)
TakenIn(st, op, n) ==
  /\ st[n] = "inbox" <=> node[n] = "inbox"
  /\ st[n] = node[n] \/ (links[n] > 0 /\ st[n] \in {"done", "failed"})
     \/ (Kind[n] = "checkpoint" /\ node[n] = "waiting_for_review" /\ st[n] = "done")
  /\ op[n] = proposal[n] \/ (proposal[n] = "pending" /\ op[n] = "accepted")
  /\ st[n] = "done" => CASE Kind[n] = "task" -> n \in passed
                          [] Kind[n] = "checkpoint" -> op[n] = "accepted"
                          [] OTHER -> node[n] = "done"

Schedules(st, op, R, U, F) ==
  /\ node' = [n \in Nodes |-> IF n \in R THEN ScheduledStatus(n, U, F) ELSE st[n]]
  /\ proposal' = [n \in Nodes |-> IF n \in R \intersect Checkpoints THEN "pending" ELSE op[n]]
  /\ StartRuns((R \intersect Tasks) \ U)

(* Scheduling what is ready in a draft, or some of it.                      *)
LEMMA ScheduleStep ==
  ASSUME GraphInv, NEW st \in NodeStates, NEW op \in [Nodes -> Proposal],
         NEW R \in SUBSET ReadyNodes(st), NEW U, NEW F,
         \A n \in Nodes : TakenIn(st, op, n),
         Schedules(st, op, R, U, F), draft' = NoDrafts
  PROVE  /\ GraphInv'
         /\ \A n \in Nodes : /\ SignedOff(n) => SignedOff(n)'
                             /\ node'[n] = "failed" /\ st[n] # "failed" => links'[n] = 0
                             /\ node'[n] = "blocked" => st[n] = "blocked"
<1> USE DEF Tasks, Checkpoints
<1>0. /\ GraphTypeOK /\ OneRunPerNode /\ NothingIsSkipped /\ RunsOK
      /\ Kind \in [Nodes -> {"task", "checkpoint", "integration"}]
      /\ Deps \in [Nodes -> SUBSET Nodes]
  BY GraphAssumption DEF GraphInv
<1>1. \A n \in Nodes :
        /\ node'[n] = IF n \in R THEN ScheduledStatus(n, U, F) ELSE st[n]
        /\ proposal'[n] = IF n \in R /\ Kind[n] = "checkpoint" THEN "pending" ELSE op[n]
        /\ links'[n] = IF n \in (R \intersect Tasks) \ U THEN links[n] + 1 ELSE links[n]
        /\ run'[n] = IF n \in (R \intersect Tasks) \ U THEN "queued" ELSE run[n]
        /\ attempt'[n] = IF n \in (R \intersect Tasks) \ U THEN 1 ELSE attempt[n]
        /\ verdict'[n] = IF n \in (R \intersect Tasks) \ U THEN "none" ELSE verdict[n]
        /\ n \in passed' <=> n \in passed /\ n \notin (R \intersect Tasks) \ U
  BY DEF Schedules, StartRuns
<1>2. \A n \in R : /\ n \in Nodes /\ st[n] = "inbox" /\ node[n] = "inbox"
                   /\ links[n] = 0 /\ proposal[n] = "none" /\ n \notin passed
                   /\ \A m \in Deps[n] : st[m] = "done"
  BY <1>0 DEF ReadyNodes, TakenIn, RunsOK, GraphTypeOK
<1>3. \A n \in Nodes : st[n] \in NodeStatus /\ op[n] \in Proposal /\ links[n] \in Nat
                       /\ links[n] <= 1 /\ run[n] \in RunStatus /\ node[n] \in NodeStatus
  BY <1>0 DEF NodeStates, GraphTypeOK, OneRunPerNode
<1>4. \A n \in Nodes : ScheduledStatus(n, U, F) \in NodeStatus \ {"inbox", "blocked"}
  BY DEF ScheduledStatus, NodeStatus
<1>5. /\ node' \in NodeStates /\ proposal' \in [Nodes -> Proposal]
      /\ links' \in [Nodes -> Nat] /\ run' \in [Nodes -> RunStatus]
      /\ attempt' \in [Nodes -> Nat] /\ verdict' \in [Nodes -> {"none", "passed", "other"}]
      /\ passed' \in SUBSET Nodes
      /\ stage' \in [Nodes -> {"open", "evaluated", "finalized", "decided"}]
  <2>1. node' \in NodeStates
    BY <1>3, <1>4 DEF Schedules, NodeStates
  <2>2. proposal' \in [Nodes -> Proposal]
    BY <1>3 DEF Schedules, Proposal
  <2>3. links' \in [Nodes -> Nat] /\ attempt' \in [Nodes -> Nat]
    BY <1>0, <1>3 DEF Schedules, StartRuns, GraphTypeOK
  <2>4. run' \in [Nodes -> RunStatus]
    BY <1>0, <1>3 DEF Schedules, StartRuns, RunStatus, LiveRun
  <2>5. /\ verdict' \in [Nodes -> {"none", "passed", "other"}] /\ passed' \in SUBSET Nodes
        /\ stage' \in [Nodes -> {"open", "evaluated", "finalized", "decided"}]
    BY <1>0 DEF Schedules, StartRuns, GraphTypeOK
  <2> QED
    BY <2>1, <2>2, <2>3, <2>4, <2>5
<1>6. OneRunPerNode'
  BY <1>1, <1>2, <1>3 DEF OneRunPerNode
<1>7. RunsOK'
  <2> SUFFICES ASSUME NEW n \in Nodes
               PROVE  /\ run'[n] = "none" <=> links'[n] = 0
                      /\ links'[n] > 0 => Kind[n] = "task" /\ attempt'[n] > 0
                      /\ verdict'[n] = "passed" => n \in passed'
                      /\ n \in passed' => links'[n] > 0
                      /\ proposal'[n] # "none" => Kind[n] = "checkpoint"
                      /\ node'[n] = "inbox" => links'[n] = 0 /\ proposal'[n] = "none"
    BY DEF RunsOK
  <2>1. CASE n \in R
    BY <2>1, <1>0, <1>1, <1>2, <1>3, <1>4 DEF RunsOK, TakenIn
  <2>2. CASE n \notin R
    BY <2>2, <1>0, <1>1, <1>3 DEF RunsOK, TakenIn
  <2> QED
    BY <2>1, <2>2
<1>8. \A n \in Nodes : SignedOff(n) => SignedOff(n)'
  BY <1>0, <1>1, <1>2, <1>3 DEF TakenIn, SignedOff, RunsOK
<1>9. NothingIsSkipped'
  <2>1. \A n \in Nodes : st[n] = "done" => SignedOff(n)'
    BY <1>0, <1>1, <1>2 DEF TakenIn, SignedOff
  <2>2. \A n \in Nodes : node'[n] = "done" => SignedOff(n)'
    <3> SUFFICES ASSUME NEW n \in Nodes, node'[n] = "done" PROVE SignedOff(n)'
      OBVIOUS
    <3>1. CASE n \in R
      BY <3>1, <1>0, <1>1 DEF ScheduledStatus, SignedOff
    <3>2. CASE n \notin R
      BY <3>2, <1>1, <2>1
    <3> QED
      BY <3>1, <3>2
  <2>3. \A n \in Nodes : links'[n] > 0 \/ proposal'[n] # "none" \/ node'[n] = "done" =>
          \A d \in Deps[n] : SignedOff(d)'
    <3> SUFFICES ASSUME NEW n \in Nodes, NEW d \in Deps[n],
                        links'[n] > 0 \/ proposal'[n] # "none" \/ node'[n] = "done"
                 PROVE  SignedOff(d)'
      OBVIOUS
    <3>0. d \in Nodes
      BY <1>0
    <3>1. CASE n \in R
      BY <3>0, <3>1, <1>2, <2>1
    <3>2. CASE n \notin R
      <4>1. links[n] > 0 \/ proposal[n] # "none" \/ node[n] = "done"
        BY <3>2, <1>1, <1>0 DEF TakenIn
      <4>2. SignedOff(d)
        BY <4>1, <1>0 DEF NothingIsSkipped
      <4> QED
        BY <4>2, <3>0, <1>8
    <3> QED
      BY <3>1, <3>2
  <2> QED
    BY <2>2, <2>3 DEF NothingIsSkipped
<1>10. \A n \in Nodes : node'[n] = "failed" /\ st[n] # "failed" => links'[n] = 0
  BY <1>0, <1>1, <1>2 DEF ScheduledStatus
<1>11. \A n \in Nodes : node'[n] = "blocked" => st[n] = "blocked"
  BY <1>1, <1>4
<1>12. GraphTypeOK' /\ DraftsOK'
  BY <1>5 DEF GraphTypeOK, DraftsOK, NoDrafts
<1> QED
  BY <1>6, <1>7, <1>8, <1>9, <1>10, <1>11, <1>12 DEF GraphInv

(* What the draft of p is when it commits.                                 *)
LEMMA DraftFacts ==
  ASSUME GraphInv, NEW p \in Reconcilers, draft[p] # NoDraft, CloseDraft(p)
  PROVE  /\ draft[p] \in NodeStates /\ Opened(p) \in [Nodes -> Proposal]
         /\ \A n \in Nodes : TakenIn(draft[p], Opened(p), n)
         /\ draft' = NoDrafts
<1>1. /\ DraftsOK /\ NothingIsSkipped /\ RunsOK
      /\ draft \in [Reconcilers -> NodeStates \union {NoDraft}]
      /\ proposal \in [Nodes -> Proposal]
      /\ Kind \in [Nodes -> {"task", "checkpoint", "integration"}]
  BY GraphAssumption DEF GraphInv, GraphTypeOK
<1>2. \A n \in Nodes : DraftNode(draft[p], n)
  BY <1>1 DEF DraftsOK
<1>3. draft[p] \in NodeStates
  BY <1>1
<1>4. \A n \in Nodes :
        Opened(p)[n] = IF Kind[n] = "checkpoint" /\ proposal[n] = "pending" /\ draft[p][n] = "done"
                       THEN "accepted" ELSE proposal[n]
  BY DEF Opened, Checkpoints
<1>5. Opened(p) \in [Nodes -> Proposal]
  BY <1>1 DEF Opened, Proposal
<1>6. ASSUME NEW n \in Nodes PROVE TakenIn(draft[p], Opened(p), n)
  <2>1. draft[p][n] = "done" /\ Kind[n] # "checkpoint" => SignedOff(n)
    BY <1>2 DEF DraftNode
  <2>2. draft[p][n] = "done" /\ Kind[n] = "checkpoint" => Opened(p)[n] = "accepted"
    BY <1>2, <1>4 DEF DraftNode, SignedOff
  <2>3. draft[p][n] = "done" =>
           CASE Kind[n] = "task" -> n \in passed
             [] Kind[n] = "checkpoint" -> Opened(p)[n] = "accepted"
             [] OTHER -> node[n] = "done"
    BY <2>1, <2>2 DEF SignedOff
  <2>4. /\ draft[p][n] = "inbox" <=> node[n] = "inbox"
        /\ draft[p][n] = node[n] \/ (links[n] > 0 /\ draft[p][n] \in {"done", "failed"})
           \/ (Kind[n] = "checkpoint" /\ node[n] = "waiting_for_review" /\ draft[p][n] = "done")
    BY <1>2 DEF DraftNode
  <2>5. Opened(p)[n] = proposal[n] \/ (proposal[n] = "pending" /\ Opened(p)[n] = "accepted")
    BY <1>4
  <2> QED
    BY <2>3, <2>4, <2>5 DEF TakenIn
<1>7. draft' = NoDrafts
  BY <1>1 DEF DraftsOK, CloseDraft, NoDrafts
<1> QED
  BY <1>2, <1>3, <1>5, <1>6, <1>7

(* The graph becomes the draft, and nothing is scheduled.                   *)
LEMMA CloseStep ==
  ASSUME GraphInv, NEW p \in Reconcilers, draft[p] # NoDraft, CloseDraft(p),
         node' = draft[p], proposal' = Opened(p), UNCHANGED <<links, childVars>>
  PROVE  GraphInv' /\ \A n \in Nodes : SignedOff(n) => SignedOff(n)'
<1> PICK st : st = draft[p]
  OBVIOUS
<1> PICK op : op = Opened(p)
  OBVIOUS
<1>1. /\ st \in NodeStates /\ op \in [Nodes -> Proposal]
      /\ \A n \in Nodes : TakenIn(st, op, n)
      /\ draft' = NoDrafts
  BY DraftFacts
<1>2. Schedules(st, op, {}, {}, {})
  <2>1. node' = [n \in Nodes |-> st[n]] /\ proposal' = [n \in Nodes |-> op[n]]
    BY <1>1 DEF NodeStates
  <2>2. StartRuns({})
    BY DEF StartRuns, childVars, GraphInv, GraphTypeOK
  <2>3. ({} \intersect Tasks) \ {} = {}
    OBVIOUS
  <2>4. StartRuns(({} \intersect Tasks) \ {})
    BY <2>2, <2>3
  <2> QED
    BY <2>1, <2>4 DEF Schedules
<1>3. {} \in SUBSET ReadyNodes(st)
  OBVIOUS
<1> QED
  BY <1>1, <1>2, <1>3, ScheduleStep

=============================================================================
