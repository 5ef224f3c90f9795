---------------------------- MODULE ProposalReview ----------------------------
(***************************************************************************)
(* The decisions on proposals (proposals/applyService.ts): code patches     *)
(* that people accept, reject and roll back, and agents' actions that a     *)
(* standing approval grant accepts at once (actionApprovalGrantService.ts). *)
(*                                                                         *)
(* A decision is one database transaction that holds the proposal's row.    *)
(* The files of the workspace are outside it: CodePatchFileTransaction      *)
(* writes them one by one and puts them back when something fails, and      *)
(* nothing keeps two patches from working on the same file.                *)
(***************************************************************************)
EXTENDS Naturals, Sequences, FiniteSets

CONSTANTS
  Patches,        \* code_patch proposals
  Actions,        \* agents' proposals of a grantable action
  Queues,         \* the sets of proposals that may be there together
  Files, Present, \* the files patched, and those that exist at first
  Base, Absent,   \* what a file holds at first
  Ops,            \* a patch's operations, each with its file and the content before
  Grants, NoGrant,
  Covers,         \* the proposals a grant matches
  Scope, Rank,    \* its exact scope, and how specific that is
  MaxUses,
  Requests,       \* the requests under way at the same time
  MaxCount,       \* workspaces.snapshot_max_count
  MaxCrashes      \* bound on crashes

Proposals == Patches \union Actions
Contents == Patches \union {Base, Absent}
FilesOf(p) == {Ops[p][i].file : i \in DOMAIN Ops[p]}

ASSUME ProposalsAssumption ==
  /\ Patches \intersect Actions = {} /\ IsFiniteSet(Actions)
  /\ Base \notin Patches /\ Absent \notin Patches
ASSUME PatchesAssumption ==
  /\ Ops \in [Patches -> Seq([file : Files, before : Contents])]
  /\ \A p \in Patches :
       /\ Ops[p] # <<>>
       /\ \A i, j \in DOMAIN Ops[p] : Ops[p][i].file = Ops[p][j].file => i = j
       /\ \A i \in DOMAIN Ops[p] : Ops[p][i].before # p
ASSUME GrantsAssumption ==
  /\ NoGrant \notin Grants
  /\ Covers \in [Grants -> SUBSET Actions]
  /\ Rank \in [Grants -> Nat] /\ MaxUses \in [Grants -> Nat \ {0}]
ASSUME QueuesAssumption == Queues \subseteq SUBSET Proposals
ASSUME BoundsAssumption == MaxCount \in Nat \ {0} /\ MaxCrashes \in Nat

VARIABLES
  status,         \* proposals.status
  approval,       \* the grant of the action's proposal_approvals row
  snap, saved,    \* code_patch_snapshots: status and files_json
  order,          \* the snapshots, oldest first
  grant, uses,    \* action_approval_grants: status and use_count
  lapsed,         \* the grants and snapshots past their expires_at
  file,           \* the workspace
  req,            \* the requests
  crashes,
  decided,        \* history: what the committed decisions make of each file
  muddled,        \* history: the files that met a crash, a failed repair, a
                  \*   COMMIT with a lost reply or two requests at once
  leaked          \* history: the patches whose content a crash, a failed repair
                  \*   or a reader of unfinished work may have left behind

patchVars == <<snap, saved, order>>
grantVars == <<approval, grant, uses>>
history == <<decided, muddled, leaked>>
vars == <<status, patchVars, grantVars, lapsed, file, req, crashes, history>>

(* A request holds the row of its proposal (getProposalForUpdate) up to     *)
(* COMMIT or ROLLBACK; "undo_late" puts the files back after a COMMIT that  *)
(* failed, or that seems to have.                                          *)
Patching == {"read", "write", "marked", "undo", "undo_late"}
Restoring == {"restore", "restored"}
Idle == [pc |-> "idle"]
Request ==
  {Idle} \union [pc : {"consumed"}, p : Actions, g : Grants]
         \union [pc : Patching \union Restoring, p : Patches, pre : Seq(Contents)]

OnFiles(r) == req[r].pc \in Patching \union Restoring
Holds(r, p) == req[r] # Idle /\ req[r].p = p /\ req[r].pc # "undo_late"

Locked_Never(p) == FALSE
Locked(p) == \E r \in Requests : Holds(r, p)
GrantLocked(g) == \E r \in Requests : req[r].pc = "consumed" /\ req[r].g = g

Init ==
  /\ \E Q \in Queues :
       status = [p \in Proposals |-> IF p \in Q THEN "pending" ELSE "none"]
  /\ approval = [a \in Actions |-> NoGrant]
  /\ snap = [p \in Patches |-> "none"] /\ saved = [p \in Patches |-> <<>>]
  /\ order = <<>>
  /\ grant = [g \in Grants |-> "none"] /\ uses = [g \in Grants |-> 0]
  /\ lapsed = {}
  /\ file = [f \in Files |-> IF f \in Present THEN Base ELSE Absent]
  /\ req = [r \in Requests |-> Idle] /\ crashes = 0
  /\ decided = file /\ muddled = {} /\ leaked = {}

-----------------------------------------------------------------------------
(* The request r goes on with its proposal; none when nothing is left.      *)
Goto(r, c, q) == req' = [req EXCEPT ![r].pc = c, ![r].pre = q]
Done(r) == req' = [req EXCEPT ![r] = Idle]

Begin(r, p, c, q) ==
  /\ req[r] = Idle /\ ~Locked(p)
  /\ req' = [req EXCEPT ![r] = [pc |-> c, p |-> p, pre |-> q]]
  /\ muddled' = muddled \union
       {f \in FilesOf(p) : \E s \in Requests : OnFiles(s) /\ f \in FilesOf(req[s].p)}
  /\ UNCHANGED <<status, patchVars, grantVars, lapsed, file, crashes, decided, leaked>>

BeginAccept(r, p) == status[p] = "pending" /\ Begin(r, p, "read", <<>>)

(* CodePatchFileTransaction.apply, one operation: the content is compared   *)
(* with the patch's preimage and kept, then replaced by tmp and rename.     *)
ReadFile(r) ==
  LET q == req[r].pre  o == Ops[req[r].p][Len(q) + 1] IN
  /\ req[r].pc = "read"
  /\ file[o.file] = o.before
  /\ Goto(r, "write", Append(q, file[o.file]))
  /\ leaked' = leaked \union {c \in Patches : c = file[o.file] /\ status[c] # "accepted"}
  /\ UNCHANGED <<status, patchVars, grantVars, lapsed, file, crashes, decided, muddled>>

WriteFile(r) ==
  LET p == req[r].p  q == req[r].pre IN
  /\ req[r].pc = "write"
  /\ file' = [file EXCEPT ![Ops[p][Len(q)].file] = p]
  /\ Goto(r, IF Len(q) = Len(Ops[p]) THEN "marked" ELSE "read", q)
  /\ UNCHANGED <<status, patchVars, grantVars, lapsed, crashes, history>>

(* A file is stale, a file operation or a statement fails: rollback().      *)
Fail(r) ==
  /\ req[r].pc \in {"read", "write", "marked"}
  /\ IF req[r].pre = <<>> THEN Done(r) ELSE Goto(r, "undo", req[r].pre)
  /\ UNCHANGED <<status, patchVars, grantVars, lapsed, file, crashes, history>>

CommitFails_KeepsFiles(r) ==
  /\ req[r].pc = "marked"
  /\ Done(r)
  /\ UNCHANGED <<status, patchVars, grantVars, lapsed, file, crashes, history>>

CommitFails(r) ==
  /\ req[r].pc = "marked"
  /\ Goto(r, "undo_late", req[r].pre)
  /\ UNCHANGED <<status, patchVars, grantVars, lapsed, file, crashes, history>>

(* rollback(), one file: the last one written first.                        *)
UndoFile(r) ==
  LET p == req[r].p  q == req[r].pre IN
  /\ req[r].pc \in {"undo", "undo_late"}
  /\ file' = [file EXCEPT ![Ops[p][Len(q)].file] = q[Len(q)]]
  /\ IF Len(q) = 1 THEN Done(r) ELSE Goto(r, req[r].pc, SubSeq(q, 1, Len(q) - 1))
  /\ UNCHANGED <<status, patchVars, grantVars, lapsed, crashes, history>>

UndoFails(r) ==
  /\ req[r].pc \in {"undo", "undo_late"}
  /\ Done(r)
  /\ muddled' = muddled \union FilesOf(req[r].p)
  /\ leaked' = leaked \union {req[r].p}
  /\ UNCHANGED <<status, patchVars, grantVars, lapsed, file, crashes, decided>>

-----------------------------------------------------------------------------
(* PgSnapshotStore.create prunes all but the newest MaxCount of the         *)
(* workspace; they are ordered here by their commits.                      *)
Pruned(sn, o) ==
  LET Kept == {i \in DOMAIN o : sn[o[i]] = "available"}
  IN [p \in Patches |->
        IF \E i \in Kept : o[i] = p /\ Cardinality({j \in Kept : j > i}) >= MaxCount
        THEN "pruned" ELSE sn[p]]

RecordAccept(p, pre) ==
  /\ status' = [status EXCEPT ![p] = IF @ = "pending" THEN "accepted" ELSE @]
  /\ saved' = [saved EXCEPT ![p] = pre]
  /\ order' = Append(order, p)
  /\ snap' = Pruned([snap EXCEPT ![p] = "available"], Append(order, p))
  /\ decided' = [f \in Files |-> IF f \in FilesOf(p) THEN p ELSE decided[f]]

CommitAccept(r) ==
  /\ req[r].pc = "marked"
  /\ RecordAccept(req[r].p, req[r].pre)
  /\ Done(r)
  /\ UNCHANGED <<grantVars, lapsed, file, crashes, muddled, leaked>>

(* COMMIT is applied and its reply is lost: the request takes it for failed *)
(* and puts the files of the accepted patch back.                          *)
CommitReplyLost(r) ==
  /\ req[r].pc = "marked"
  /\ RecordAccept(req[r].p, req[r].pre)
  /\ Goto(r, "undo_late", req[r].pre)
  /\ muddled' = muddled \union FilesOf(req[r].p)
  /\ UNCHANGED <<grantVars, lapsed, file, crashes, leaked>>

(* rollback: the saved contents are written back whatever the files hold.   *)
BeginRollback(r, p) ==
  /\ status[p] = "accepted" /\ snap[p] = "available" /\ p \notin lapsed
  /\ Begin(r, p, "restore", saved[p])

RestoreFile(r) ==
  LET p == req[r].p  q == req[r].pre  i == Len(Ops[p]) - Len(q) + 1 IN
  /\ req[r].pc = "restore"
  /\ file' = [file EXCEPT ![Ops[p][i].file] = Head(q)]
  /\ Goto(r, IF Len(q) = 1 THEN "restored" ELSE "restore", Tail(q))
  /\ UNCHANGED <<status, patchVars, grantVars, lapsed, crashes, history>>

(* A file, a statement or COMMIT fails: nothing is put back.  A COMMIT     *)
(* whose reply is lost is a CommitRollback.                                *)
RestoreFails(r) ==
  /\ req[r].pc \in Restoring
  /\ Done(r)
  /\ muddled' = muddled \union FilesOf(req[r].p)
  /\ UNCHANGED <<status, patchVars, grantVars, lapsed, file, crashes, decided, leaked>>

CommitRollback(r) ==
  LET p == req[r].p IN
  /\ req[r].pc = "restored"
  /\ snap' = [snap EXCEPT ![p] = IF @ = "available" THEN "rolled_back" ELSE @]
  /\ decided' = [f \in Files |->
       IF \E i \in DOMAIN Ops[p] : Ops[p][i].file = f
       THEN Ops[p][CHOOSE i \in DOMAIN Ops[p] : Ops[p][i].file = f].before
       ELSE decided[f]]
  /\ Done(r)
  /\ UNCHANGED <<status, saved, order, grantVars, lapsed, file, crashes, muddled, leaked>>

-----------------------------------------------------------------------------
(* rejectTransaction, and accept of a proposal whose effects are rows of    *)
(* the same transaction.                                                   *)
Decide(p, s) ==
  /\ ~Locked(p) /\ status[p] = "pending"
  /\ status' = [status EXCEPT ![p] = s]
  /\ UNCHANGED <<patchVars, grantVars, lapsed, file, req, crashes, history>>

Usable_Unlocked(g, a) ==
  /\ a \in Covers[g] /\ grant[g] = "active" /\ g \notin lapsed
  /\ uses[g] < MaxUses[g]

(* consumeMatching: the most specific usable grant that nobody has locked   *)
(* (FOR UPDATE SKIP LOCKED).                                               *)
Usable(g, a) ==
  /\ a \in Covers[g] /\ grant[g] = "active" /\ g \notin lapsed
  /\ uses[g] < MaxUses[g] /\ ~GrantLocked(g)

ConsumeMatching(r, a, g) ==
  /\ req[r] = Idle /\ ~Locked(a) /\ status[a] = "pending"
  /\ Usable(g, a) /\ \A h \in Grants : Usable(h, a) => Rank[h] <= Rank[g]
  /\ req' = [req EXCEPT ![r] = [pc |-> "consumed", p |-> a, g |-> g]]
  /\ UNCHANGED <<status, patchVars, grantVars, lapsed, file, crashes, history>>

FinishGranted_CountsAnyway(r) ==
  LET a == req[r].p  g == req[r].g IN
  /\ req[r].pc = "consumed"
  /\ uses' = [uses EXCEPT ![g] = @ + 1]
  /\ \/ /\ approval' = [approval EXCEPT ![a] = g]
        /\ status' = [status EXCEPT ![a] = IF @ = "pending" THEN "accepted" ELSE @]
     \/ UNCHANGED <<approval, status>>
  /\ Done(r)
  /\ UNCHANGED <<patchVars, grant, lapsed, file, crashes, history>>

(* The rest of acceptAgentProposalIfGranted, or its ROLLBACK.               *)
FinishGranted(r) ==
  LET a == req[r].p  g == req[r].g IN
  /\ req[r].pc = "consumed"
  /\ \/ /\ uses' = [uses EXCEPT ![g] = @ + 1]
        /\ approval' = [approval EXCEPT ![a] = g]
        /\ status' = [status EXCEPT ![a] = IF @ = "pending" THEN "accepted" ELSE @]
     \/ UNCHANGED <<uses, approval, status>>
  /\ Done(r)
  /\ UNCHANGED <<patchVars, grant, lapsed, file, crashes, history>>

(* create: expireStaleGrant, then one active grant for each exact scope.    *)
(* A grant that no proposal would use is left out.                         *)
Stale(g) == grant[g] = "active" /\ (g \in lapsed \/ uses[g] >= MaxUses[g])

CreateGrant(g) ==
  LET Same == {h \in Grants : Scope[h] = Scope[g] /\ grant[h] = "active"} IN
  /\ grant[g] = "none" /\ \E a \in Covers[g] : status[a] # "none"
  /\ \A h \in Same : Stale(h) /\ ~GrantLocked(h)
  /\ grant' = [h \in Grants |-> IF h = g THEN "active"
                                ELSE IF h \in Same THEN "expired" ELSE grant[h]]
  /\ UNCHANGED <<status, patchVars, approval, uses, lapsed, file, req, crashes, history>>

Revoke_NoWait(g) ==
  /\ grant[g] = "active"
  /\ grant' = [grant EXCEPT ![g] = "revoked"]
  /\ UNCHANGED <<status, patchVars, approval, uses, lapsed, file, req, crashes, history>>

(* revoke waits for a transaction that holds the row.                       *)
Revoke(g) ==
  /\ grant[g] = "active" /\ ~GrantLocked(g)
  /\ grant' = [grant EXCEPT ![g] = "revoked"]
  /\ UNCHANGED <<status, patchVars, approval, uses, lapsed, file, req, crashes, history>>

(* Time passes expires_at of a grant or a snapshot.                         *)
Lapse(x) ==
  /\ \/ x \in Grants /\ grant[x] = "active"
     \/ x \in Patches /\ snap[x] = "available"
  /\ lapsed' = lapsed \union {x}
  /\ UNCHANGED <<status, patchVars, grantVars, file, req, crashes, history>>

(* The server dies: the database rolls back, the files stay.                *)
Crash ==
  LET Open == {r \in Requests : OnFiles(r)} IN
  /\ crashes < MaxCrashes /\ \E r \in Requests : req[r] # Idle
  /\ crashes' = crashes + 1
  /\ req' = [r \in Requests |-> Idle]
  /\ muddled' = muddled \union UNION {FilesOf(req[r].p) : r \in Open}
  /\ leaked' = leaked \union {req[r].p : r \in {s \in Open : req[s].pc \in Patching}}
  /\ UNCHANGED <<status, patchVars, grantVars, lapsed, file, decided>>

-----------------------------------------------------------------------------
PatchStep(r) ==
  \/ \E p \in Patches : BeginAccept(r, p) \/ BeginRollback(r, p)
  \/ ReadFile(r) \/ WriteFile(r) \/ Fail(r) \/ CommitAccept(r) \/ CommitFails(r)
  \/ CommitReplyLost(r)
  \/ UndoFile(r) \/ UndoFails(r)
  \/ RestoreFile(r) \/ RestoreFails(r) \/ CommitRollback(r)

GrantedStep(r) ==
  \/ \E a \in Actions, g \in Grants : ConsumeMatching(r, a, g)
  \/ FinishGranted(r)

Next ==
  \/ \E r \in Requests : PatchStep(r) \/ GrantedStep(r)
  \/ \E p \in Proposals : Decide(p, "rejected")
  \/ \E a \in Actions : Decide(a, "accepted")
  \/ \E g \in Grants : CreateGrant(g) \/ Revoke(g)
  \/ \E x \in Grants \union Patches : Lapse(x)
  \/ Crash

Spec == Init /\ [][Next]_vars

-----------------------------------------------------------------------------
(* Every variable has its type (the rows of proposals, code_patch_snapshots *)
(* and action_approval_grants, and the files).                             *)
ProposalTypeOK ==
  /\ status \in [Proposals -> {"none", "pending", "accepted", "rejected"}]
  /\ approval \in [Actions -> Grants \union {NoGrant}]
  /\ snap \in [Patches -> {"none", "available", "rolled_back", "pruned"}]
  /\ saved \in [Patches -> Seq(Contents)] /\ order \in Seq(Patches)
  /\ grant \in [Grants -> {"none", "active", "revoked", "expired"}]
  /\ uses \in [Grants -> Nat] /\ \A g \in Grants : uses[g] <= MaxUses[g]
  /\ lapsed \subseteq Grants \union Patches
  /\ file \in [Files -> Contents] /\ decided \in [Files -> Contents]
  /\ req \in [Requests -> Request] /\ crashes \in 0 .. MaxCrashes
  /\ muddled \subseteq Files /\ leaked \subseteq Patches

(* "No irreversible change executes without an approved Proposal": once the *)
(* request is over, a file holds a patch's content only if the patch was    *)
(* accepted, also when several requests write the same files, unless a      *)
(* crash or a failed repair left it or another patch was made on top of     *)
(* the unfinished work.                                                    *)
OnlyAcceptedPatchesStand ==
  \A p \in Patches \ leaked :
    (\E f \in Files : file[f] = p) =>
      status[p] = "accepted" \/ \E r \in Requests : OnFiles(r) /\ req[r].p = p

(* Accepts, failures and rollbacks are all or nothing: a file nobody works  *)
(* on holds what the committed decisions make of it, unless it met a crash, *)
(* a failed repair, a COMMIT whose reply was lost (the rollback meant for   *)
(* a transaction that "cannot commit" then puts accepted files back) or two  *)
(* requests at once.                                                       *)
FilesFollowTheDecisions ==
  \A f \in Files \ muddled :
    \/ file[f] = decided[f]
    \/ \E r \in Requests : OnFiles(r) /\ f \in FilesOf(req[r].p)

(* A grant "is atomically consumed": its use_count is the number of         *)
(* proposals accepted on it, and no more than max_uses, however many agents  *)
(* ask at the same time and whatever fails after it was consumed.           *)
GrantsCountTheirUses ==
  \A g \in Grants :
    /\ uses[g] = Cardinality({a \in Actions : approval[a] = g /\ status[a] = "accepted"})
    /\ uses[g] <= MaxUses[g]

(* revoke, and the replacement of a spent grant, are final at once: nothing *)
(* is accepted on the grant afterwards, not even by a request that had      *)
(* consumed it before.                                                     *)
RevokedGrantsApproveNothing ==
  [][\A g \in Grants : grant[g] \in {"revoked", "expired"} =>
       /\ grant'[g] = grant[g]
       /\ \A a \in Actions : approval'[a] = g => approval[a] = g]_vars

=============================================================================
