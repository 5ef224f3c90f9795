-------------------------- MODULE AgentGroupProofs --------------------------
(***************************************************************************)
(* Proofs about AgentGroup, for every set of runs, every delegation budget *)
(* and every number of executions and incidents.                           *)
(***************************************************************************)
EXTENDS AgentGroup, FiniteSetTheorems, TLAPS

-----------------------------------------------------------------------------
(* The lineage of a run.  runDepth is defined by recursion over the parents; *)
(* that the recursion has one solution, in the naturals, is kept as an      *)
(* invariant of the steps that add runs, so no induction over the tree is   *)
(* needed.                                                                 *)

IsDepth(par, d) ==
  /\ d \in [Runs -> Nat]
  /\ \A f : f = [r \in Runs |-> IF par[r] = NoRun THEN 0 ELSE f[par[r]] + 1] <=> f = d

(* While its recursion has one solution, Depth is that solution.            *)
LEMMA DepthValue == \A d : IsDepth(parent, d) => Depth = d
<1> SUFFICES ASSUME NEW d, IsDepth(parent, d) PROVE Depth = d
  OBVIOUS
<1>1. \E f : f = [r \in Runs |-> IF parent[r] = NoRun THEN 0 ELSE f[parent[r]] + 1]
  BY DEF IsDepth
<1>2. Depth = [r \in Runs |-> IF parent[r] = NoRun THEN 0 ELSE Depth[parent[r]] + 1]
  BY <1>1 DEF Depth
<1> QED
  BY <1>2 DEF IsDepth

(* The same of the next state.                                              *)
LEMMA DepthValueNext == (\A d : IsDepth(parent, d) => Depth = d)'
  BY DepthValue, PTL

(* New runs under p are one deeper than p, and nobody else moves.           *)
Deeper(d, S, p) == [r \in Runs |-> IF r \in S THEN d[p] + 1 ELSE d[r]]
Under(par, S, p) == [r \in Runs |-> IF r \in S THEN p ELSE par[r]]

(* A recursion over a tree stays defined when leaves are added to it.       *)
LEMMA NewLeaves ==
  ASSUME NEW par \in [Runs -> Runs \union {NoRun}], NEW d, IsDepth(par, d),
         NEW S \in SUBSET Runs, NEW p \in Runs \ S,
         \A r \in S : par[r] = NoRun,
         \A r \in Runs : par[r] \notin S
  PROVE  IsDepth(Under(par, S, p), Deeper(d, S, p))
<1>n. p # NoRun
  BY GroupAssumption
<1>1. Deeper(d, S, p) \in [Runs -> Nat]
  BY DEF Deeper, IsDepth
<1>d. \A r \in Runs : d[r] = IF par[r] = NoRun THEN 0 ELSE d[par[r]] + 1
  BY DEF IsDepth
<1>2. Deeper(d, S, p) = [r \in Runs |-> IF Under(par, S, p)[r] = NoRun THEN 0
                                   ELSE Deeper(d, S, p)[Under(par, S, p)[r]] + 1]
  BY <1>n, <1>d DEF Deeper, Under
<1>3. ASSUME NEW f, f = [r \in Runs |-> IF Under(par, S, p)[r] = NoRun THEN 0
                                        ELSE f[Under(par, S, p)[r]] + 1]
      PROVE  f = Deeper(d, S, p)
  <2> DEFINE g == [r \in Runs |-> IF r \in S THEN 0 ELSE f[r]]
  <2>1. \A r \in Runs : f[r] = IF r \in S THEN f[p] + 1
                               ELSE IF par[r] = NoRun THEN 0 ELSE f[par[r]] + 1
    BY <1>3, <1>n DEF Under
  <2>2. \A r \in Runs : g[r] = IF par[r] = NoRun THEN 0 ELSE g[par[r]] + 1
    BY <2>1
  <2>3. g = d
    <3>1. g = [r \in Runs |-> IF par[r] = NoRun THEN 0 ELSE g[par[r]] + 1]
      BY <2>2
    <3> HIDE DEF g
    <3> QED
      BY <3>1 DEF IsDepth
  <2>4. \A r \in Runs \ S : f[r] = d[r]
    BY <2>3
  <2>5. \A r \in Runs : f[r] = Deeper(d, S, p)[r]
    BY <2>1, <2>4 DEF Deeper
  <2> QED
    BY <1>3, <2>5 DEF Deeper
<1> QED
  BY <1>1, <1>2, <1>3 DEF IsDepth

-----------------------------------------------------------------------------
(* The invariant, in the parts the properties rest on.                     *)

Draft == [status : Ended \union {"none"}, ready : SUBSET [run : Runs, on : SUBSET Runs]]

GroupTyped ==
  /\ GroupTypeOK
  /\ draft \in [Runs -> Draft]

(* The tree: runs that do not exist yet hang nowhere, parents exist, and the *)
(* answer of the delegation policy still holds when it is used.             *)
TreeGrows ==
  \A r \in Runs :
    /\ ~ Exists(r) => parent[r] = NoRun /\ delegation[r] = "none"
    /\ parent[r] # NoRun => Exists(parent[r])
    /\ pc[r] # "idle" \/ r \in confirming => Exists(r)

Children(r) == {c \in Delegated : parent[c] = r}

BudgetKept ==
  \A r \in Runs :
    /\ pc[r] = "allowed" => rows[r] <= MaxFanout /\ Depth[r] + 1 <= MaxDepth
    /\ r \in Delegated => Depth[r] <= MaxDepth
    /\ Cardinality(Children(r)) <= rows[r]

DepthDefined == \E d : IsDepth(parent, d)

(* What a report has read: an end that is final if it is not a failure, and *)
(* waits of which everything has ended once.                               *)
DraftsAreTrue ==
  \A r \in Runs :
    /\ draft[r] # Nothing => draft[r].status \in Ended
    /\ draft[r].status \in {"succeeded", "cancelled"} => status[r] = draft[r].status
    /\ \A x \in draft[r].ready : x.on \subseteq ended

EndsAreKept == \A r \in Runs : status[r] \in Ended => r \in ended

(* Who wakes a run whose wait is over: a report that is due, or the one that *)
(* has it on its list; one that is merely open is not enough.               *)
Wakeable(w) ==
  \/ w \in missed
  \/ \E d \in depends[w] :
       d \in silent \/ d \in due \/ \E x \in draft[d].ready : x.run = w

WaitersAreWakeable == \A w \in Runs : status[w] = "waiting" /\ AllEnded(w) => Wakeable(w)

TreeInv == TreeGrows /\ DepthDefined /\ BudgetKept
EndInv == EndsAreKept /\ DraftsAreTrue /\ DelegationsFollowTheirRuns
GroupInv == GroupTyped /\ TreeInv /\ EndInv /\ WaitersAreWakeable

-----------------------------------------------------------------------------
(* Type correctness, one step per action.  The bound on rows is the only    *)
(* part that needs another: a run whose delegation was allowed is within    *)
(* its fan-out until it has used the answer.                               *)

(* Delegating keeps the types, because the budget is kept.                  *)
LEMMA DelegateTyped ==
  ASSUME GroupTyped, BudgetKept, NEW p \in Runs, Delegate(p) PROVE GroupTyped'
<1> USE GroupAssumption
    DEF GroupTyped, GroupTypeOK, Draft, CreateChild, Ended, Cancellable, Exists, Nothing,
        treeVars, incidentVars, Weigh
<1>1. CASE Preflight(p)
  BY <1>1 DEF Preflight
<1>2. CASE Spawn(p)
  <2>1. CASE group # "active" /\ UNCHANGED treeVars /\ UNCHANGED status
    BY <1>2, <2>1 DEF Spawn
  <2>2. CASE \E c \in Runs : CreateChild(p, c)
    <3>1. rows[p] + 1 \in 0..MaxFanout + 1
      BY <1>2 DEF Spawn, BudgetKept
    <3> QED
      BY <1>2, <2>2, <3>1 DEF Spawn
  <2> QED
    BY <1>2, <2>1, <2>2 DEF Spawn
<1>3. CASE Materialize(p)
  <2>1. rows[p] + 1 \in 0..MaxFanout + 1
    BY <1>3 DEF Materialize, WithinBudget
  <2> QED
    BY <1>3, <2>1 DEF Materialize
<1>4. CASE Deny(p)
  <2>1. rows[p] + 1 \in 0..MaxFanout + 1
    BY <1>4 DEF Deny
  <2> QED
    BY <1>4, <2>1 DEF Deny, Accident
<1> QED
  BY <1>1, <1>2, <1>3, <1>4 DEF Delegate

(* So does executing a run,                                                 *)
LEMMA ExecuteTyped ==
  ASSUME GroupTyped, NEW r \in Runs, Execute(r) PROVE GroupTyped'
<1> USE GroupAssumption
    DEF GroupTyped, GroupTypeOK, Draft, Ended, Cancellable, Exists, Nothing,
        treeVars, incidentVars, Weigh, Incident, Accident, End
<1>1. CASE Start(r)
  BY <1>1 DEF Start
<1>2. CASE Reject(r)
  BY <1>2 DEF Reject
<1>3. CASE TellStarted(r)
  BY <1>3 DEF TellStarted
<1>4. CASE TellStartedFails(r)
  BY <1>4 DEF TellStartedFails
<1>5. CASE Wait(r)
  BY <1>5 DEF Wait
<1>6. CASE Park(r)
  <2>1. status' \in [Runs -> Cancellable \union Ended \union {"absent"}]
    BY <1>6 DEF Park
  <2>3. depends' \in [Runs -> SUBSET Runs]
    <3>1. CASE depends' = [depends EXCEPT ![r] = want[r]]
      BY <3>1
    <3> QED
      BY <1>6, <3>1 DEF Park
  <2>4. want' \in [Runs -> SUBSET Runs]
    BY <1>6 DEF Park
  <2>2. missed' \subseteq Runs
    BY <1>6 DEF Park
  <2> QED
    BY <1>6, <2>1, <2>2, <2>3, <2>4 DEF Park
<1>7. CASE PauseForReview(r)
  BY <1>7 DEF PauseForReview
<1>8. CASE Finish(r)
  BY <1>8 DEF Finish
<1>9. CASE FinishTooLate(r)
  BY <1>9 DEF FinishTooLate
<1>10. CASE Supervise(r)
  BY <1>10 DEF Supervise
<1> QED
  BY <1>1, <1>2, <1>3, <1>4, <1>5, <1>6, <1>7, <1>8, <1>9, <1>10 DEF Execute

(* projecting its end,                                                      *)
LEMMA ProjectTyped ==
  ASSUME GroupTyped, NEW r \in Runs, Project(r) PROVE GroupTyped'
<1> USE GroupAssumption
    DEF GroupTyped, GroupTypeOK, Draft, Ended, Cancellable, Nothing,
        treeVars, incidentVars, Weigh, Accident
<1>1. CASE Collect(r)
  <2>1. {[run |-> w, on |-> depends[w]] : w \in Ready(r)} \in SUBSET [run : Runs, on : SUBSET Runs]
    BY DEF Ready, Waiting
  <2>2. Ready(r) \subseteq Runs
    BY DEF Ready, Waiting
  <2>3. draft' \in [Runs -> Draft]
    <3>1. CASE draft' = draft
      BY <3>1
    <3>2. CASE \E D \in SUBSET [run : Runs, on : SUBSET Runs] :
                 draft' = [draft EXCEPT ![r] = [status |-> status[r], ready |-> D]]
                 /\ status[r] \in Ended
      BY <3>2
    <3> HIDE DEF Draft, Ended
    <3> QED
      BY <1>1, <2>1, <3>1, <3>2 DEF Collect
  <2> QED
    BY <1>1, <2>2, <2>3 DEF Collect
<1>2. CASE Report(r)
  <2>1. draft' \in [Runs -> Draft]
    BY <1>2 DEF Report
  <2>2. delegation' \in [Runs -> {"none", "queued", "running"} \union Ended]
    BY <1>2, <2>1 DEF Report
  <2>3. status' \in [Runs -> Cancellable \union Ended \union {"absent"}]
        /\ depends' \in [Runs -> SUBSET Runs]
    BY <1>2 DEF Report
  <2> QED
    BY <1>2, <2>1, <2>2, <2>3 DEF Report
<1>3. CASE ReportFails(r)
  BY <1>3 DEF ReportFails
<1> QED
  BY <1>1, <1>2, <1>3 DEF Project

(* and what users and the recovery do to it.                                *)
LEMMA InterfereTyped ==
  ASSUME GroupTyped, NEW r \in Runs, Interfere(r) PROVE GroupTyped'
<1> USE GroupAssumption
    DEF GroupTyped, GroupTypeOK, Draft, Ended, Cancellable, Nothing,
        treeVars, incidentVars, Weigh, Incident, Accident, End
<1>1. CASE RequestCancel(r)
  BY <1>1 DEF RequestCancel
<1>2. CASE ConfirmCancel(r)
  BY <1>2 DEF ConfirmCancel
<1>3. CASE ExitUnconfirmed(r)
  BY <1>3 DEF ExitUnconfirmed
<1>4. CASE CancelWithJob(r)
  BY <1>4 DEF CancelWithJob
<1>5. CASE Resume(r)
  BY <1>5 DEF Resume
<1>6. CASE Abandon(r)
  BY <1>6 DEF Abandon
<1>7. CASE Recover(r)
  BY <1>7 DEF Recover
<1> QED
  BY <1>1, <1>2, <1>3, <1>4, <1>5, <1>6, <1>7 DEF Interfere

(* Every step keeps the types.                                              *)
LEMMA TypedStep == GroupTyped /\ BudgetKept /\ [Next]_vars => GroupTyped'
<1> SUFFICES ASSUME GroupTyped, BudgetKept, [Next]_vars PROVE GroupTyped'
  OBVIOUS
<1> USE DEF GroupTyped, GroupTypeOK, Draft, Ended, Cancellable, Nothing, treeVars,
            incidentVars, Weigh, Incident
<1>1. ASSUME NEW S \in SUBSET Runs, SendMessage(S) PROVE GroupTyped'
  BY <1>1 DEF SendMessage, Exists
<1>2. ASSUME NEW s \in {"active", "paused", "cancelled"}, ChangeStatus(s) PROVE GroupTyped'
  BY <1>2, GroupAssumption DEF ChangeStatus
<1>3. CASE Crash
  BY <1>3, GroupAssumption DEF Crash, Reporting
<1>4. CASE UNCHANGED vars
  BY <1>4 DEF vars
<1> HIDE DEF GroupTyped
<1> QED
  BY <1>1, <1>2, <1>3, <1>4, DelegateTyped, ExecuteTyped, ProjectTyped, InterfereTyped
  DEF Next

-----------------------------------------------------------------------------
(* The tree.                                                               *)

(* A step that creates no run and no delegation.                           *)
TreeStands ==
  /\ UNCHANGED <<parent, rows>>
  /\ \A r \in Runs : /\ status'[r] = "absent" <=> status[r] = "absent"
                     /\ delegation'[r] = "none" <=> delegation[r] = "none"
                     /\ pc'[r] # "idle" \/ r \in confirming' =>
                          pc[r] # "idle" \/ r \in confirming \/ Exists(r)
                     /\ pc'[r] = "allowed" => pc[r] = "allowed" \/ WithinBudget(r)

(* A tree that stands keeps what is known of it.                            *)
LEMMA StandingTree ==
  ASSUME GroupTyped, TreeInv, TreeStands PROVE TreeInv'
<1>1. TreeGrows'
  BY GroupAssumption DEF TreeInv, TreeGrows, TreeStands, Exists, GroupTyped, GroupTypeOK
<1>2. DepthDefined'
  BY DEF TreeInv, DepthDefined, TreeStands
<1>3. Depth' = Depth /\ \A r \in Runs : Children(r)' = Children(r)
  BY DEF TreeStands, Depth, Children, Delegated
<1>4. Delegated' = Delegated
  BY DEF TreeStands, Delegated
<1>5. BudgetKept'
  BY <1>3, <1>4 DEF TreeInv, BudgetKept, TreeStands, WithinBudget
<1> QED
  BY <1>1, <1>2, <1>5 DEF TreeInv

(* A new run below p: alone in the tree until it delegates itself.          *)
LEMMA ChildAdded ==
  ASSUME GroupTyped, TreeInv, NEW p \in Runs, NEW c \in Runs, CreateChild(p, c),
         Exists(p), Depth[p] + 1 <= MaxDepth, UNCHANGED confirming,
         \/ pc[p] = "working" /\ pc' = pc
         \/ pc[p] = "allowed" /\ pc' = [pc EXCEPT ![p] = "working"]
  PROVE  TreeInv'
<1> USE DEF GroupTyped, GroupTypeOK
<1>e. p # c /\ pc[c] = "idle" /\ parent[c] = NoRun /\ delegation[c] = "none"
  BY DEF CreateChild, TreeInv, TreeGrows
<1>n. NoRun \notin Runs
  BY GroupAssumption
<1>1. TreeGrows'
  BY <1>e, <1>n DEF CreateChild, TreeInv, TreeGrows, Exists
<1>2. PICK d : IsDepth(parent, d)
  BY DEF TreeInv, DepthDefined
<1>3. Depth = d
  BY <1>2, DepthValue
<1>4. IsDepth(Under(parent, {c}, p), Deeper(d, {c}, p))
  <2>1. \A r \in Runs : parent[r] # c
    BY <1>n DEF CreateChild, TreeInv, TreeGrows
  <2> QED
    BY <1>2, <1>e, <2>1, NewLeaves
<1>5. parent' = Under(parent, {c}, p)
  BY DEF CreateChild, Under
<1>6. DepthDefined'
  BY <1>4, <1>5 DEF DepthDefined
<1>7. Depth' = Deeper(d, {c}, p)
  BY <1>4, <1>5, DepthValueNext
<1>8. Depth'[c] = Depth[p] + 1 /\ \A r \in Runs \ {c} : Depth'[r] = Depth[r]
  BY <1>3, <1>7 DEF Deeper
<1>9. /\ \A r \in Runs \ {p} : Children(r)' = Children(r)
      /\ Children(p)' = Children(p) \union {c}
  BY <1>e DEF CreateChild, Children, Delegated
<1>10. Cardinality(Children(p)') <= rows'[p]
  <2>1. IsFiniteSet(Children(p))
    BY GroupAssumption, FS_Subset DEF Children, Delegated
  <2>2. c \notin Children(p)
    BY <1>e DEF Children, Delegated
  <2>3. Cardinality(Children(p)') = Cardinality(Children(p)) + 1
    <3>1. Cardinality(Children(p) \union {c}) = Cardinality(Children(p)) + 1
      BY <2>1, <2>2, FS_AddElement, Zenon
    <3> QED
      BY <1>9, <3>1, Zenon
  <2>4. Cardinality(Children(p)) \in Nat /\ Cardinality(Children(p)) <= rows[p]
    BY <2>1, FS_CardinalityType DEF TreeInv, BudgetKept
  <2>5. rows'[p] = rows[p] + 1 /\ rows[p] \in Nat
    BY DEF CreateChild
  <2> QED
    BY <2>3, <2>4, <2>5
<1>11. BudgetKept'
  <2> SUFFICES ASSUME NEW r \in Runs
               PROVE  /\ pc'[r] = "allowed" => rows'[r] <= MaxFanout /\ Depth'[r] + 1 <= MaxDepth
                      /\ r \in Delegated' => Depth'[r] <= MaxDepth
                      /\ Cardinality(Children(r)') <= rows'[r]
    BY DEF BudgetKept
  <2>1. CASE r = c
    BY <2>1, <1>e, <1>8, <1>9 DEF TreeInv, BudgetKept, CreateChild
  <2>2. CASE r # c /\ r # p
    BY <2>2, <1>8, <1>9 DEF TreeInv, BudgetKept, CreateChild, Delegated
  <2>3. CASE r = p
    <3>1. Depth'[p] = Depth[p] /\ (p \in Delegated' => p \in Delegated)
      BY <1>e, <1>8 DEF CreateChild, Delegated
    <3>2. pc'[p] # "allowed"
      BY DEF CreateChild
    <3> QED
      BY <2>3, <3>1, <3>2, <1>10 DEF TreeInv, BudgetKept
  <2> QED
    BY <2>1, <2>2, <2>3
<1> QED
  BY <1>1, <1>6, <1>11 DEF TreeInv

(* The steps of a run that may create another.                             *)
LEMMA DelegateTree ==
  ASSUME GroupTyped, TreeInv, NEW p \in Runs, Delegate(p) PROVE TreeInv'
<1>1. CASE Preflight(p)
  <2>1. TreeStands
    BY <1>1 DEF Preflight, TreeStands, treeVars, GroupTyped, GroupTypeOK
  <2> QED
    BY <2>1, StandingTree
<1>2. CASE Spawn(p)
  <2>1. CASE UNCHANGED <<status, treeVars>>
    <3>1. TreeStands
      BY <1>2, <2>1 DEF Spawn, TreeStands, treeVars, GroupTyped, GroupTypeOK
    <3> QED
      BY <3>1, StandingTree
  <2>2. ASSUME NEW c \in Runs, CreateChild(p, c) PROVE TreeInv'
    <3>1. Exists(p) /\ Depth[p] + 1 <= MaxDepth
      BY <1>2 DEF Spawn, TreeInv, TreeGrows, BudgetKept
    <3> QED
      BY <1>2, <2>2, <3>1, ChildAdded DEF Spawn
  <2> QED
    BY <1>2, <2>1, <2>2 DEF Spawn
<1>3. CASE Materialize(p)
  <2>1. Exists(p) /\ Depth[p] + 1 <= MaxDepth
    BY <1>3 DEF Materialize, WithinBudget, TreeInv, TreeGrows
  <2> QED
    BY <1>3, <2>1, ChildAdded DEF Materialize
<1>4. CASE Deny(p)
  <2>1. TreeGrows' /\ DepthDefined'
    BY <1>4 DEF Deny, TreeInv, TreeGrows, Exists, DepthDefined
  <2>2. Depth' = Depth /\ Delegated' = Delegated /\ \A r \in Runs : Children(r)' = Children(r)
    BY <1>4 DEF Deny, Depth, Children, Delegated
  <2>3. BudgetKept'
    <3> SUFFICES ASSUME NEW r \in Runs
                 PROVE  /\ pc'[r] = "allowed" => rows'[r] <= MaxFanout /\ Depth'[r] + 1 <= MaxDepth
                        /\ r \in Delegated' => Depth'[r] <= MaxDepth
                        /\ Cardinality(Children(r)') <= rows'[r]
      BY DEF BudgetKept
    <3>1. Cardinality(Children(r)) \in Nat
      BY GroupAssumption, FS_Subset, FS_CardinalityType DEF Children, Delegated
    <3>2. rows'[r] = IF r = p THEN rows[r] + 1 ELSE rows[r]
      BY <1>4 DEF Deny, GroupTyped, GroupTypeOK
    <3>3. rows[r] \in Nat /\ pc' = pc /\ pc[p] = "working"
      BY <1>4, GroupAssumption DEF Deny, GroupTyped, GroupTypeOK
    <3> QED
      BY <2>2, <3>1, <3>2, <3>3 DEF TreeInv, BudgetKept
  <2> QED
    BY <2>1, <2>3 DEF TreeInv
<1> QED
  BY <1>1, <1>2, <1>3, <1>4 DEF Delegate

(* The runs of a message hang below the root of the group, which has no     *)
(* parent, or are the first of it.                                         *)
LEMMA SendTree ==
  ASSUME GroupTyped, TreeInv, NEW S \in SUBSET Runs, SendMessage(S) PROVE TreeInv'
<1> USE DEF GroupTyped, GroupTypeOK
<1>1. PICK root \in {r \in Runs : Exists(r) /\ parent[r] = NoRun} \union
                    {r \in S : \A x \in Runs : ~ Exists(x)} :
        parent' = [r \in Runs |-> IF r \in S \ {root} THEN root ELSE parent[r]]
  BY DEF SendMessage
<1> DEFINE T == S \ {root}
<1>n. NoRun \notin Runs
  BY GroupAssumption
<1>2. /\ root \in Runs /\ parent[root] = NoRun
      /\ \A r \in S : ~ Exists(r) /\ parent[r] = NoRun /\ pc[r] = "idle" /\ delegation[r] = "none"
      /\ status' = [r \in Runs |-> IF r \in S THEN "queued" ELSE status[r]]
      /\ UNCHANGED <<delegation, rows, pc, confirming>>
  BY DEF SendMessage, TreeInv, TreeGrows
<1>3. TreeGrows'
  <2> SUFFICES ASSUME NEW r \in Runs
               PROVE  /\ status'[r] = "absent" => parent'[r] = NoRun /\ delegation'[r] = "none"
                      /\ parent'[r] # NoRun => status'[parent'[r]] # "absent"
                      /\ pc'[r] # "idle" \/ r \in confirming' => status'[r] # "absent"
    BY DEF TreeGrows, Exists
  <2>1. \A x \in Runs : status'[x] # "absent" <=> Exists(x) \/ x \in S
    BY <1>2 DEF Exists
  <2>2. parent'[r] = IF r \in S \ {root} THEN root ELSE parent[r]
    BY <1>1
  <2>3. status'[root] # "absent"
    BY <1>1, <1>2, <2>1
  <2> QED
    BY <1>2, <2>1, <2>2, <2>3 DEF TreeInv, TreeGrows, Exists
<1>4. PICK d : IsDepth(parent, d)
  BY DEF TreeInv, DepthDefined
<1>5. IsDepth(Under(parent, T, root), Deeper(d, T, root))
  <2>1. T \in SUBSET Runs /\ root \in Runs \ T /\ \A r \in T : parent[r] = NoRun
    BY <1>2
  <2>2. \A r \in Runs : parent[r] \notin T
    BY <1>2, <1>n DEF TreeInv, TreeGrows
  <2> HIDE DEF T
  <2> QED
    BY <1>4, <2>1, <2>2, NewLeaves
<1>6. parent' = Under(parent, T, root)
  BY <1>1 DEF Under
<1>7. DepthDefined'
  BY <1>5, <1>6 DEF DepthDefined
<1>8. Depth = d /\ Depth' = Deeper(d, T, root)
  BY <1>4, <1>5, <1>6, DepthValue, DepthValueNext
<1>9. \A r \in Runs \ S : Depth'[r] = Depth[r]
  BY <1>8 DEF Deeper
<1>10. Delegated' = Delegated /\ \A r \in Runs : Children(r)' = Children(r)
  <2>1. Delegated' = Delegated
    BY <1>2 DEF Delegated
  <2>2. \A r \in Delegated : parent'[r] = parent[r]
    BY <1>1, <1>2 DEF Delegated
  <2> QED
    BY <2>1, <2>2 DEF Children
<1>11. BudgetKept'
  BY <1>2, <1>9, <1>10 DEF TreeInv, BudgetKept, Delegated
<1> QED
  BY <1>3, <1>7, <1>11 DEF TreeInv

(* Every other step leaves the tree standing.                              *)
LEMMA ExecuteTree ==
  ASSUME GroupTyped, TreeInv, NEW r \in Runs, Execute(r) PROVE TreeStands
<1> USE DEF GroupTyped, GroupTypeOK, TreeStands, treeVars, End, Ended
<1>1. CASE Start(r)
  BY <1>1 DEF Start, Exists
<1>2. CASE Reject(r)
  BY <1>2 DEF Reject
<1>3. CASE TellStarted(r)
  BY <1>3 DEF TellStarted
<1>4. CASE TellStartedFails(r) \/ Wait(r) \/ FinishTooLate(r)
  BY <1>4 DEF TellStartedFails, Wait, FinishTooLate
<1>5. CASE Park(r)
  BY <1>5 DEF Park
<1>6. CASE PauseForReview(r)
  BY <1>6 DEF PauseForReview
<1>7. CASE Finish(r)
  BY <1>7 DEF Finish, TreeInv, TreeGrows, Exists
<1>8. CASE Supervise(r)
  BY <1>8 DEF Supervise
<1> QED
  BY <1>1, <1>2, <1>3, <1>4, <1>5, <1>6, <1>7, <1>8 DEF Execute

(* A projection wakes runs that exist and adds none.                        *)
LEMMA ProjectTree ==
  ASSUME GroupTyped, EndInv, NEW r \in Runs, Project(r) PROVE TreeStands
<1> USE DEF GroupTyped, GroupTypeOK, TreeStands, treeVars
<1>1. CASE Collect(r) \/ ReportFails(r)
  BY <1>1 DEF Collect, ReportFails
<1>2. CASE Report(r)
  <2>1. draft[r].status \in Ended
    BY <1>2 DEF Report, EndInv, DraftsAreTrue
  <2>2. \A x \in Runs : delegation'[x] = "none" <=> delegation[x] = "none"
    BY <1>2, <2>1 DEF Report, Ended
  <2>3. \A x \in Runs : status'[x] = "absent" <=> status[x] = "absent"
    BY <1>2 DEF Report
  <2> QED
    BY <1>2, <2>2, <2>3 DEF Report
<1> QED
  BY <1>1, <1>2 DEF Project

(* Nor does a cancellation or a resumption add any.                         *)
LEMMA InterfereTree ==
  ASSUME GroupTyped, TreeInv, NEW r \in Runs, Interfere(r) PROVE TreeStands
<1> USE DEF GroupTyped, GroupTypeOK, TreeStands, treeVars, End, Ended, Cancellable
<1>1. CASE RequestCancel(r)
  BY <1>1 DEF RequestCancel, Exists
<1>2. CASE ConfirmCancel(r) \/ ExitUnconfirmed(r)
  <2>1. CASE UNCHANGED status
    BY <1>2, <2>1 DEF ConfirmCancel, ExitUnconfirmed
  <2>2. CASE End(r, "cancelled", TRUE)
    BY <1>2, <2>2 DEF ConfirmCancel, ExitUnconfirmed, TreeInv, TreeGrows, Exists
  <2> QED
    BY <1>2, <2>1, <2>2 DEF ConfirmCancel, ExitUnconfirmed
<1>3. CASE CancelWithJob(r) \/ Resume(r)
  BY <1>3 DEF CancelWithJob, Resume
<1>4. CASE Abandon(r) \/ Recover(r)
  BY <1>4 DEF Abandon, Recover
<1> QED
  BY <1>1, <1>2, <1>3, <1>4 DEF Interfere

(* Every step keeps the tree and its budget.                                *)
LEMMA TreeStep == GroupTyped /\ TreeInv /\ EndInv /\ [Next]_vars => TreeInv'
<1> SUFFICES ASSUME GroupTyped, TreeInv, EndInv, [Next]_vars PROVE TreeInv'
  OBVIOUS
<1>1. ASSUME NEW s \in {"active", "paused", "cancelled"}, ChangeStatus(s) PROVE TreeStands
  BY <1>1 DEF ChangeStatus, TreeStands, treeVars
<1>2. ASSUME Crash PROVE TreeStands
  BY <1>2 DEF Crash, TreeStands, treeVars
<1>3. ASSUME UNCHANGED vars PROVE TreeStands
  BY <1>3 DEF vars, TreeStands
<1> QED
  BY <1>1, <1>2, <1>3, DelegateTree, SendTree, ExecuteTree, ProjectTree, InterfereTree,
     StandingTree
  DEF Next

-----------------------------------------------------------------------------
(* Ends, reports and waits.                                                *)

(* A step that reads and reports nothing: a run that ends is about to be    *)
(* reported or nobody does it, an end other than a failure is final, a     *)
(* delegation at most starts, and a wait goes on or begins with an end     *)
(* still to come.                                                          *)
Opens(r) == delegation[r] = "none" /\ delegation'[r] = "queued" /\ status'[r] = "queued"

GoesOnWaiting(w) ==
  status[w] = "waiting" /\ depends'[w] = depends[w] /\ (w \in missed => w \in missed')

EndsStand ==
  /\ draft' = draft /\ ended \subseteq ended'
  /\ \A r \in Runs :
       /\ status'[r] \in Ended =>
            r \in ended' /\ \/ r \in silent' \union due'
                            \/ /\ status[r] \in Ended
                               /\ r \in silent => r \in silent'
                               /\ r \in due => r \in due'
       /\ status[r] \in {"succeeded", "cancelled"} => status'[r] = status[r]
       /\ \/ delegation'[r] = delegation[r]
          \/ delegation[r] = "queued" /\ delegation'[r] = "running"
          \/ Opens(r)
       /\ status'[r] = "waiting" =>
            GoesOnWaiting(r) \/ ((\A d \in depends'[r] : status'[d] \in Ended) => r \in missed')

(* Where the ends stand, so does what is known of them.                     *)
LEMMA StandingEnds ==
  ASSUME GroupTyped, EndInv, WaitersAreWakeable, EndsStand
  PROVE  EndInv' /\ WaitersAreWakeable'
<1> USE DEF GroupTyped, GroupTypeOK
<1>1. EndsAreKept'
  BY DEF EndsStand, EndsAreKept
<1>2. DraftsAreTrue'
  BY DEF EndsStand, EndInv, DraftsAreTrue
<1>3. DelegationsFollowTheirRuns'
  <2> SUFFICES ASSUME NEW r \in Runs, delegation'[r] # "none"
               PROVE  /\ delegation'[r] \in {"succeeded", "cancelled"} => status'[r] = delegation'[r]
                      /\ status'[r] \in Ended /\ delegation'[r] \in {"queued", "running"} =>
                           r \in silent' \/ r \in due' \/ draft'[r] # Nothing
    BY DEF DelegationsFollowTheirRuns, Delegated, Reporting
  <2>1. CASE Opens(r)
    BY <2>1 DEF Opens, Ended
  <2>2. CASE ~ Opens(r)
    BY <2>2 DEF EndsStand, EndInv, DelegationsFollowTheirRuns, Delegated, Reporting
  <2> QED
    BY <2>1, <2>2
<1>4. WaitersAreWakeable'
  <2> SUFFICES ASSUME NEW w \in Runs, status'[w] = "waiting",
                      \A d \in depends'[w] : status'[d] \in Ended
               PROVE  \/ w \in missed'
                      \/ \E d \in depends'[w] :
                           d \in silent' \/ d \in due' \/ \E x \in draft'[d].ready : x.run = w
    BY DEF WaitersAreWakeable, Wakeable, AllEnded
  <2>1. CASE w \notin missed' /\ \A d \in depends'[w] : d \notin silent' \union due'
    <3>1. GoesOnWaiting(w)
      BY <2>1 DEF EndsStand
    <3>2. \A d \in depends[w] : /\ status[d] \in Ended
                                /\ d \in silent => d \in silent'
                                /\ d \in due => d \in due'
      BY <2>1, <3>1 DEF EndsStand, GoesOnWaiting
    <3>3. Wakeable(w)
      BY <3>1, <3>2 DEF GoesOnWaiting, WaitersAreWakeable, AllEnded
    <3> QED
      BY <3>1, <3>2, <3>3 DEF Wakeable, GoesOnWaiting, EndsStand
  <2> QED
    BY <2>1
<1> QED
  BY <1>1, <1>2, <1>3, <1>4 DEF EndInv

(* A delegation wakes nobody and writes no outcome.                         *)
LEMMA DelegateEnds ==
  ASSUME GroupTyped, TreeInv, EndInv, NEW p \in Runs, Delegate(p) PROVE EndsStand
<1> USE DEF GroupTyped, GroupTypeOK, EndsStand, GoesOnWaiting, Opens, treeVars, Ended,
            EndInv, EndsAreKept
<1>1. CASE Preflight(p)
  BY <1>1 DEF Preflight
<1>2. ASSUME NEW c \in Runs, CreateChild(p, c),
             UNCHANGED <<depends, due, draft, ended, silent, missed>>
      PROVE  EndsStand
  BY <1>2 DEF CreateChild, Exists, TreeInv, TreeGrows
<1>3. CASE Spawn(p)
  BY <1>3, <1>2 DEF Spawn
<1>4. CASE Materialize(p)
  BY <1>4, <1>2 DEF Materialize
<1>5. CASE Deny(p)
  BY <1>5 DEF Deny
<1> QED
  BY <1>1, <1>3, <1>4, <1>5 DEF Delegate

(* A run that starts or ends writes no outcome and wakes nobody.            *)
LEMMA ExecuteEnds ==
  ASSUME GroupTyped, EndInv, NEW r \in Runs, Execute(r) PROVE EndsStand
<1> USE DEF GroupTyped, GroupTypeOK, EndsStand, GoesOnWaiting, treeVars, Ended, EndInv,
            EndsAreKept, End
<1>1. CASE Start(r)
  BY <1>1 DEF Start
<1>2. CASE Reject(r)
  BY <1>2 DEF Reject
<1>3. CASE TellStarted(r)
  BY <1>3 DEF TellStarted
<1>4. CASE TellStartedFails(r) \/ Wait(r) \/ FinishTooLate(r)
  BY <1>4 DEF TellStartedFails, Wait, FinishTooLate
<1>5. CASE Park(r)
  <2>1. CASE status[r] = "running"
    <3>1. /\ status' = [status EXCEPT ![r] = "waiting"]
          /\ depends' = [depends EXCEPT ![r] = want[r]]
          /\ missed' = IF \A d \in want[r] : status[d] \in Ended
                         THEN missed \union {r} ELSE missed \ {r}
          /\ UNCHANGED <<delegation, due, draft, ended, silent>>
      BY <1>5, <2>1 DEF Park
    <3>2. (\A d \in depends'[r] : status'[d] \in Ended) => r \in missed'
      BY <3>1, <2>1
    <3>3. \A w \in Runs \ {r} : /\ status'[w] = status[w] /\ depends'[w] = depends[w]
                                /\ w \in missed => w \in missed'
      BY <3>1
    <3>4. status'[r] = "waiting" /\ draft' = draft
      BY <3>1, <1>5 DEF Park
    <3>5. UNCHANGED <<delegation, due, ended, silent>>
      BY <3>1
    <3> HIDE DEF GoesOnWaiting
    <3>6. \A w \in Runs \ {r} : status'[w] = "waiting" => GoesOnWaiting(w)
      BY <3>3 DEF GoesOnWaiting
    <3> QED
      BY <3>2, <3>3, <3>4, <3>5, <3>6, <2>1
  <2>2. CASE status[r] # "running"
    BY <1>5, <2>2 DEF Park
  <2> QED
    BY <2>1, <2>2
<1>6. CASE PauseForReview(r)
  BY <1>6 DEF PauseForReview
<1>7. CASE Finish(r)
  BY <1>7 DEF Finish
<1>8. CASE Supervise(r)
  BY <1>8 DEF Supervise
<1> QED
  BY <1>1, <1>2, <1>3, <1>4, <1>5, <1>6, <1>7, <1>8 DEF Execute

(* Nor does a user.                                                         *)
LEMMA InterfereEnds ==
  ASSUME GroupTyped, EndInv, NEW r \in Runs, Interfere(r) PROVE EndsStand
<1> USE DEF GroupTyped, GroupTypeOK, EndsStand, GoesOnWaiting, treeVars, Ended, Cancellable,
            EndInv, EndsAreKept, End
<1>1. CASE RequestCancel(r)
  BY <1>1 DEF RequestCancel
<1>2. CASE ConfirmCancel(r)
  BY <1>2 DEF ConfirmCancel
<1>3. CASE ExitUnconfirmed(r)
  BY <1>3 DEF ExitUnconfirmed
<1>4. CASE CancelWithJob(r)
  BY <1>4 DEF CancelWithJob
<1>5. CASE Resume(r)
  BY <1>5 DEF Resume
<1>6. CASE Abandon(r)
  BY <1>6 DEF Abandon
<1>7. CASE Recover(r)
  BY <1>7 DEF Recover
<1> QED
  BY <1>1, <1>2, <1>3, <1>4, <1>5, <1>6, <1>7 DEF Interfere

(* A report reads: whoever waits for r alone to end is on its list, or is   *)
(* passed over for good and on record as missed.                           *)
LEMMA CollectEnds ==
  ASSUME GroupTyped, EndInv, WaitersAreWakeable, NEW r \in Runs, Collect(r)
  PROVE  EndInv' /\ WaitersAreWakeable'
<1> USE DEF GroupTyped, GroupTypeOK
<1>1. /\ due' = due \ {r} /\ missed \subseteq missed' /\ draft[r] = Nothing
      /\ UNCHANGED <<status, delegation, depends, ended, silent>>
      /\ \A x \in Runs \ {r} : draft'[x] = draft[x]
  BY DEF Collect, treeVars
<1>2. CASE status[r] \in Ended /\ delegation[r] \in {"none", "queued", "running"}
  <2> DEFINE list == IF group = "active" THEN {[run |-> w, on |-> depends[w]] : w \in Ready(r)}
                                         ELSE {}
  <2>1. draft'[r] = [status |-> status[r], ready |-> list]
    BY <1>2 DEF Collect, Draft
  <2>2. group # "active" => Ready(r) \subseteq missed'
    BY <1>2 DEF Collect
  <2>3. draft'[r] # Nothing /\ draft'[r].status = status[r]
    BY <1>2, <2>1 DEF Nothing, Ended
  <2>4. \A x \in list : x.on \subseteq ended
    BY DEF Ready, Waiting, AllEnded, EndInv, EndsAreKept
  <2>5. EndsAreKept' /\ DraftsAreTrue'
    <3>1. draft'[r].ready = list
      BY <2>1
    <3> HIDE DEF list
    <3> QED
      BY <1>1, <1>2, <2>3, <2>4, <3>1 DEF EndInv, EndsAreKept, DraftsAreTrue
  <2>6. DelegationsFollowTheirRuns'
    BY <1>1, <2>3 DEF EndInv, DelegationsFollowTheirRuns, Delegated, Reporting
  <2>7. \A w \in Ready(r) : w \in missed' \/ \E x \in draft'[r].ready : x.run = w
    <3> SUFFICES ASSUME NEW w \in Ready(r), group = "active"
                 PROVE  \E x \in draft'[r].ready : x.run = w
      BY <2>2
    <3>1. [run |-> w, on |-> depends[w]] \in draft'[r].ready
      BY <2>1
    <3> QED
      BY <3>1
  <2>8. WaitersAreWakeable'
    BY <1>1, <2>7 DEF WaitersAreWakeable, Wakeable, AllEnded, Ready, Waiting
  <2> QED
    BY <2>5, <2>6, <2>8 DEF EndInv
<1>3. CASE ~ (status[r] \in Ended /\ delegation[r] \in {"none", "queued", "running"})
  <2>1. draft' = draft /\ (status[r] \in Ended => Ready(r) \subseteq missed')
    BY <1>3 DEF Collect
  <2>2. EndsAreKept' /\ DraftsAreTrue'
    BY <1>1, <2>1 DEF EndInv, EndsAreKept, DraftsAreTrue
  <2>3. DelegationsFollowTheirRuns'
    BY <1>1, <1>3, <2>1 DEF EndInv, DelegationsFollowTheirRuns, Delegated, Reporting
  <2>4. WaitersAreWakeable'
    BY <1>1, <2>1 DEF WaitersAreWakeable, Wakeable, AllEnded, Ready, Waiting
  <2> QED
    BY <2>2, <2>3, <2>4 DEF EndInv
<1> QED
  BY <1>2, <1>3

(* A report commits: who is on its list is queued, the delegation ends as   *)
(* the run did when it was read.                                           *)
Woken(r) == {w \in Runs : status[w] = "waiting" /\ \E x \in draft[r].ready : x.run = w}

(* A report wakes whom it read as waiting, and writes what it read.         *)
LEMMA ReportEnds ==
  ASSUME GroupTyped, EndInv, WaitersAreWakeable, NEW r \in Runs, Report(r)
  PROVE  EndInv' /\ WaitersAreWakeable'
<1> USE DEF GroupTyped, GroupTypeOK
<1>1. /\ \A w \in Runs : status'[w] = IF w \in Woken(r) THEN "queued" ELSE status[w]
      /\ \A w \in Runs : depends'[w] = IF w \in Woken(r) THEN {} ELSE depends[w]
      /\ missed' = missed \ Woken(r)
      /\ draft'[r] = Nothing /\ \A x \in Runs \ {r} : draft'[x] = draft[x]
      /\ UNCHANGED <<due, ended, silent>>
      /\ draft[r] # Nothing
  BY DEF Report, Woken
<1>2. /\ \A x \in Runs \ {r} : delegation'[x] = delegation[x]
      /\ delegation'[r] = IF delegation[r] \in {"queued", "running"} THEN draft[r].status
                          ELSE delegation[r]
  BY DEF Report
<1>3. draft[r].status \in Ended
        /\ (draft[r].status \in {"succeeded", "cancelled"} => status[r] = draft[r].status)
  BY <1>1 DEF EndInv, DraftsAreTrue
<1>4. \A w \in Runs : /\ status'[w] \in Ended <=> status[w] \in Ended
                      /\ status[w] # "waiting" => status'[w] = status[w]
                      /\ status'[w] = "waiting" =>
                           /\ status[w] = "waiting" /\ depends'[w] = depends[w]
                           /\ ~ \E x \in draft[r].ready : x.run = w
  BY <1>1 DEF Woken, Ended
<1>5. EndsAreKept'
  BY <1>1, <1>4 DEF EndInv, EndsAreKept
<1>6. DraftsAreTrue'
  <2> SUFFICES ASSUME NEW x \in Runs
               PROVE  /\ draft'[x] # Nothing => draft'[x].status \in Ended
                      /\ draft'[x].status \in {"succeeded", "cancelled"} => status'[x] = draft'[x].status
                      /\ \A y \in draft'[x].ready : y.on \subseteq ended'
    BY DEF DraftsAreTrue
  <2>1. CASE x = r
    BY <1>1, <2>1 DEF Nothing
  <2>2. CASE x # r
    BY <1>1, <1>4, <2>2 DEF EndInv, DraftsAreTrue
  <2> QED
    BY <2>1, <2>2
<1>7. DelegationsFollowTheirRuns'
  <2> SUFFICES ASSUME NEW x \in Runs, delegation'[x] # "none"
               PROVE  /\ delegation'[x] \in {"succeeded", "cancelled"} => status'[x] = delegation'[x]
                      /\ status'[x] \in Ended /\ delegation'[x] \in {"queued", "running"} =>
                           x \in silent' \/ x \in due' \/ draft'[x] # Nothing
    BY DEF DelegationsFollowTheirRuns, Delegated, Reporting
  <2>1. CASE x = r
    BY <1>2, <1>3, <1>4, <2>1 DEF Ended, EndInv, DelegationsFollowTheirRuns, Delegated
  <2>2. CASE x # r
    BY <1>1, <1>2, <1>4, <2>2 DEF EndInv, DelegationsFollowTheirRuns, Delegated, Reporting
  <2> QED
    BY <2>1, <2>2
<1>8. WaitersAreWakeable'
  <2> SUFFICES ASSUME NEW w \in Runs, status'[w] = "waiting",
                      \A d \in depends'[w] : status'[d] \in Ended
               PROVE  \/ w \in missed'
                      \/ \E d \in depends'[w] :
                           d \in silent' \/ d \in due' \/ \E x \in draft'[d].ready : x.run = w
    BY DEF WaitersAreWakeable, Wakeable, AllEnded
  <2>1. status[w] = "waiting" /\ depends'[w] = depends[w] /\ w \notin Woken(r)
        /\ ~ \E x \in draft[r].ready : x.run = w
    BY <1>4 DEF Woken
  <2>2. Wakeable(w)
    BY <1>4, <2>1 DEF WaitersAreWakeable, AllEnded
  <2> QED
    BY <1>1, <2>1, <2>2 DEF Wakeable
<1> QED
  BY <1>5, <1>6, <1>7, <1>8 DEF EndInv

(* A report is lost: the run it was about goes silent, unless it is due      *)
(* again.                                                                  *)
LEMMA ReportFailsEnds ==
  ASSUME GroupTyped, EndInv, WaitersAreWakeable, NEW r \in Runs, ReportFails(r)
  PROVE  EndInv' /\ WaitersAreWakeable'
<1> USE DEF GroupTyped, GroupTypeOK
<1>1. /\ draft'[r] = Nothing /\ \A x \in Runs \ {r} : draft'[x] = draft[x]
      /\ UNCHANGED <<status, delegation, depends, due, ended, missed>>
      /\ silent \subseteq silent' /\ (status[r] \in Ended /\ r \notin due => r \in silent')
  BY DEF ReportFails, treeVars
<1>2. EndsAreKept' /\ DraftsAreTrue'
  <2>1. EndsAreKept'
    BY <1>1 DEF EndInv, EndsAreKept
  <2>2. ASSUME NEW x \in Runs
        PROVE  /\ draft'[x] # Nothing => draft'[x].status \in Ended
               /\ draft'[x].status \in {"succeeded", "cancelled"} => status'[x] = draft'[x].status
               /\ \A y \in draft'[x].ready : y.on \subseteq ended'
    <3>1. CASE x = r
      BY <1>1, <3>1 DEF Nothing
    <3>2. CASE x # r
      BY <1>1, <3>2 DEF EndInv, DraftsAreTrue
    <3> QED
      BY <3>1, <3>2
  <2> QED
    BY <2>1, <2>2 DEF DraftsAreTrue
<1>3. DelegationsFollowTheirRuns'
  BY <1>1 DEF EndInv, DelegationsFollowTheirRuns, Delegated, Reporting
<1>4. WaitersAreWakeable'
  BY <1>1 DEF WaitersAreWakeable, Wakeable, AllEnded
<1> QED
  BY <1>2, <1>3, <1>4 DEF EndInv

(* A crash silences every end that was about to be reported.               *)
LEMMA CrashEnds ==
  ASSUME GroupTyped, EndInv, WaitersAreWakeable, Crash
  PROVE  EndInv' /\ WaitersAreWakeable'
<1> USE DEF GroupTyped, GroupTypeOK
<1>1. /\ draft' = [x \in Runs |-> Nothing] /\ due' = {}
      /\ UNCHANGED <<status, delegation, depends, ended, missed>>
      /\ silent' = silent \union {x \in Runs : status[x] \in Ended /\ Reporting(x)}
  BY DEF Crash, treeVars
<1>2. \A x \in Runs : status[x] \in Ended /\ (x \in due \/ draft[x].ready # {}) => x \in silent'
  BY <1>1 DEF Reporting, Nothing
<1>3. EndsAreKept' /\ DraftsAreTrue'
  <2>1. EndsAreKept'
    BY <1>1 DEF EndInv, EndsAreKept
  <2>2. Nothing.status = "none" /\ Nothing.ready = {}
    BY DEF Nothing
  <2>3. \A x \in Runs : draft'[x] = Nothing
    BY <1>1
  <2>4. ASSUME NEW x \in Runs
        PROVE  /\ draft'[x] # Nothing => draft'[x].status \in Ended
               /\ draft'[x].status \in {"succeeded", "cancelled"} => status'[x] = draft'[x].status
               /\ \A y \in draft'[x].ready : y.on \subseteq ended'
    <3> HIDE DEF GroupTyped, GroupTypeOK
    <3>1. draft'[x] = Nothing
      BY <2>3
    <3> QED
      BY <2>2, <3>1
  <2> QED
    BY <2>1, <2>4 DEF DraftsAreTrue
<1>4. DelegationsFollowTheirRuns'
  BY <1>1 DEF EndInv, DelegationsFollowTheirRuns, Delegated, Reporting
<1>5. WaitersAreWakeable'
  BY <1>1, <1>2 DEF WaitersAreWakeable, Wakeable, AllEnded
<1> QED
  BY <1>3, <1>4, <1>5 DEF EndInv

(* Every step keeps the ends, the drafts and who can still be woken.        *)
LEMMA EndStep ==
  GroupTyped /\ TreeInv /\ EndInv /\ WaitersAreWakeable /\ [Next]_vars
    => EndInv' /\ WaitersAreWakeable'
<1> SUFFICES ASSUME GroupTyped, TreeInv, EndInv, WaitersAreWakeable, [Next]_vars
             PROVE  EndInv' /\ WaitersAreWakeable'
  OBVIOUS
<1> USE DEF EndsStand, GoesOnWaiting, EndInv, EndsAreKept, treeVars
<1>1. ASSUME NEW S \in SUBSET Runs, SendMessage(S) PROVE EndsStand
  <2>1. \A r \in Runs : \/ status'[r] = status[r]
                        \/ status[r] = "absent" /\ status'[r] = "queued"
    <3>1. status' = [r \in Runs |-> IF r \in S THEN "queued" ELSE status[r]]
      BY <1>1 DEF SendMessage
    <3>2. \A r \in S : status[r] = "absent"
      BY <1>1 DEF SendMessage, Exists
    <3> QED
      BY <3>1, <3>2
  <2> QED
    BY <1>1, <2>1 DEF SendMessage, Ended
<1>2. ASSUME NEW s \in {"active", "paused", "cancelled"}, ChangeStatus(s) PROVE EndsStand
  BY <1>2 DEF ChangeStatus
<1>3. CASE UNCHANGED vars
  <2>1. EndsStand
    BY <1>3 DEF vars
  <2> QED
    BY <2>1, StandingEnds
<1> HIDE DEF EndsStand, EndInv
<1> QED
  BY <1>1, <1>2, <1>3, StandingEnds, DelegateEnds, ExecuteEnds, InterfereEnds, CollectEnds,
     ReportEnds, ReportFailsEnds, CrashEnds
  DEF Next, Project

-----------------------------------------------------------------------------
(* There is no run at first.                                                *)
LEMMA GroupInit == Init => GroupInv
<1> SUFFICES ASSUME Init PROVE GroupInv
  OBVIOUS
<1> USE GroupAssumption DEF Init
<1>1. GroupTyped
  <2>1. draft \in [Runs -> Draft]
    BY DEF Draft, Nothing
  <2>2. rows \in [Runs -> 0..MaxFanout + 1] /\ incidents \in 0..MaxIncidents
    BY Z3
  <2>3. \A r \in Runs : /\ draft[r].status \in Ended \union {"none"}
                        /\ draft[r].ready \subseteq [run : Runs, on : SUBSET Runs]
    BY DEF Nothing
  <2> QED
    BY <2>1, <2>2, <2>3 DEF GroupTyped, GroupTypeOK
<1>2. TreeGrows
  BY DEF TreeGrows, Exists
<1>3. IsDepth(parent, [r \in Runs |-> 0])
  BY DEF IsDepth
<1>4. BudgetKept
  <2>1. Delegated = {} /\ \A r \in Runs : Children(r) = {}
    BY DEF Delegated, Children
  <2> QED
    BY <2>1, FS_EmptySet DEF BudgetKept
<1>5. EndInv
  BY DEF EndInv, EndsAreKept, DraftsAreTrue, DelegationsFollowTheirRuns, Delegated, Ended, Nothing
<1>6. WaitersAreWakeable
  BY DEF WaitersAreWakeable
<1> QED
  BY <1>1, <1>2, <1>3, <1>4, <1>5, <1>6 DEF GroupInv, TreeInv, DepthDefined

(* The invariant holds throughout.                                          *)
LEMMA GroupHolds == Spec => []GroupInv
<1>1. GroupInv /\ [Next]_vars => GroupInv'
  BY TypedStep, TreeStep, EndStep DEF GroupInv, TreeInv
<1> QED
  BY <1>1, GroupInit, PTL DEF Spec

(* Type correctness of the group, its runs, their delegations and the       *)
(* locals of executors, cancellers and reports.                            *)
THEOREM GroupTypeCorrect == Spec => []GroupTypeOK
<1>1. GroupInv => GroupTypeOK
  BY DEF GroupInv, GroupTyped
<1> QED
  BY <1>1, GroupHolds, PTL

(* "Requeued as the same run after all declared dependency runs are         *)
(* terminal": a run whose wait is over has a report on its way, or one of   *)
(* the gaps of the code left it behind.                                    *)
THEOREM WaitsEndInReports == Spec => []WaitersAreWoken
<1>1. GroupInv => WaitersAreWoken
  BY DEF GroupInv, GroupTyped, GroupTypeOK, WaitersAreWakeable, Wakeable, WaitersAreWoken,
         Reporting, Nothing
<1> QED
  BY <1>1, GroupHolds, PTL

(* A delegation never claims a success or a cancellation its run did not    *)
(* have, and is not left open behind an end that is reported.               *)
THEOREM DelegationsAreTrue == Spec => []DelegationsFollowTheirRuns
<1>1. GroupInv => DelegationsFollowTheirRuns
  BY DEF GroupInv, EndInv
<1> QED
  BY <1>1, GroupHolds, PTL

(* The delegation budget bounds depth and fan-out, whatever happens between *)
(* the policy's answer and its use.                                        *)
THEOREM BudgetBoundsTree == Spec => []TreeIsBounded
<1>1. GroupInv => TreeIsBounded
  <2> SUFFICES ASSUME GroupInv, NEW r \in Runs
               PROVE  /\ r \in Delegated => Depth[r] <= MaxDepth
                      /\ Cardinality(Children(r)) <= MaxFanout + 1
    BY DEF TreeIsBounded, Children
  <2>1. Cardinality(Children(r)) \in Nat
    BY GroupAssumption, FS_Subset, FS_CardinalityType DEF Children, Delegated
  <2>2. rows[r] \in Nat /\ rows[r] <= MaxFanout + 1 /\ MaxFanout \in Nat
    BY GroupAssumption DEF GroupInv, GroupTyped, GroupTypeOK
  <2> QED
    BY <2>1, <2>2 DEF GroupInv, TreeInv, BudgetKept
<1> QED
  BY <1>1, GroupHolds, PTL

(* Only the commit of a report ends a wait, and what it read had ended.      *)
LEMMA WakeUpStep ==
  ASSUME GroupInv, [Next]_vars, NEW w \in Runs, status[w] = "waiting", status'[w] = "queued"
  PROVE  \/ depends[w] \subseteq ended
         \/ \E r \in Runs : \E x \in draft[r].ready :
              x.run = w /\ x.on # depends[w] /\ x.on \subseteq ended
<1> USE DEF GroupInv, GroupTyped, GroupTypeOK
<1>1. PICK r \in Runs : Report(r)
  <2>1. ASSUME NEW r \in Runs, Delegate(r) PROVE FALSE
    BY <2>1 DEF Delegate, Preflight, Spawn, Materialize, Deny, CreateChild, Exists, treeVars
  <2>2. ASSUME NEW r \in Runs, Execute(r) PROVE FALSE
    BY <2>2 DEF Execute, Start, Reject, TellStarted, TellStartedFails, Wait, Park,
         PauseForReview, Finish, FinishTooLate, Supervise, End, treeVars
  <2>3. ASSUME NEW r \in Runs, Interfere(r) PROVE FALSE
    BY <2>3 DEF Interfere, RequestCancel, ConfirmCancel, ExitUnconfirmed, CancelWithJob,
         Resume, Abandon, Recover, End, treeVars
  <2>4. ASSUME NEW r \in Runs, Collect(r) \/ ReportFails(r) PROVE FALSE
    BY <2>4 DEF Collect, ReportFails
  <2>5. ASSUME NEW S \in SUBSET Runs, SendMessage(S) PROVE FALSE
    BY <2>5 DEF SendMessage, Exists
  <2>6. ASSUME (\E s \in {"active", "paused", "cancelled"} : ChangeStatus(s)) \/ Crash
               \/ UNCHANGED vars
        PROVE  FALSE
    BY <2>6 DEF ChangeStatus, Crash, vars
  <2> QED
    BY <2>1, <2>2, <2>3, <2>4, <2>5, <2>6 DEF Next, Project
<1>2. PICK x \in draft[r].ready : x.run = w
  BY <1>1 DEF Report
<1>3. x.on \subseteq ended
  BY DEF EndInv, DraftsAreTrue
<1> QED
  BY <1>2, <1>3

(* A waiting run comes back only after each run it waited for has ended.    *)
THEOREM WakeUpsAreRight == Spec => WakeUpsAreEarned
<1>1. GroupInv /\ [Next]_vars =>
        [\A w \in Runs : status[w] = "waiting" /\ status'[w] = "queued" =>
           \/ depends[w] \subseteq ended
           \/ \E r \in Runs : \E x \in draft[r].ready :
                x.run = w /\ x.on # depends[w] /\ x.on \subseteq ended]_vars
  BY WakeUpStep
<1> QED
  BY <1>1, GroupHolds, PTL DEF Spec, WakeUpsAreEarned

=============================================================================
