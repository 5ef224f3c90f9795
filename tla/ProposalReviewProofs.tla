------------------------- MODULE ProposalReviewProofs -------------------------
(***************************************************************************)
(* For every queue of proposals, any patches, grants and number of         *)
(* requests: type correctness, that grants are counted and final, that      *)
(* only accepted patches stand, and that files follow the decisions.       *)
(***************************************************************************)
EXTENDS ProposalReview, FiniteSetTheorems, SequenceTheorems, TLAPS

Consumed(r) == req[r].pc = "consumed"

(* A proposal has one request that decides it, and it waits for it; a       *)
(* grant has one request that consumes it, and it is there for it.         *)
LocksOK ==
  /\ \A r, s \in Requests : \A p \in Proposals : Holds(r, p) /\ Holds(s, p) => r = s
  /\ \A r \in Requests :
       /\ Consumed(r) \/ req[r].pc \in Patching \ {"undo_late"} => status[req[r].p] = "pending"
       /\ Consumed(r) => /\ grant[req[r].g] = "active"
                         /\ uses[req[r].g] < MaxUses[req[r].g]
  /\ \A r, s \in Requests : Consumed(r) /\ Consumed(s) /\ req[r].g = req[s].g => r = s

ApprovalsStand == \A a \in Actions : approval[a] # NoGrant => status[a] = "accepted"

(* How many contents a request R has kept, or has still to put back.        *)
ShapeOK(R) ==
  /\ R.pc = "read" => Len(R.pre) < Len(Ops[R.p])
  /\ R.pc \in {"write", "undo", "undo_late", "restore"} => Len(R.pre) \in 1 .. Len(Ops[R.p])
  /\ R.pc = "marked" => Len(R.pre) = Len(Ops[R.p])
  /\ R.pc = "restored" => R.pre = <<>>

(* What it has kept is what its patch is made on, and what it puts back is  *)
(* what its patch was made on.                                             *)
KeepsBefore(R) ==
  /\ R.pc \in Patching =>
       \A i \in 1 .. Len(R.pre) : R.pre[i] = Ops[R.p][i].before
  /\ R.pc = "restore" =>
       \A i \in 1 .. Len(R.pre) : R.pre[i] = Ops[R.p][Len(Ops[R.p]) - Len(R.pre) + i].before

(* A content that may be put back is none that was left behind unnoticed.   *)
Sound(c) == c \in Patches => c \in leaked \/ status[c] = "accepted"

SavedOK ==
  \A p \in Patches : snap[p] = "available" =>
    /\ Len(saved[p]) = Len(Ops[p])
    /\ \A i \in 1 .. Len(Ops[p]) : saved[p][i] = Ops[p][i].before /\ Sound(saved[p][i])

RequestOK(r) ==
  OnFiles(r) => /\ ShapeOK(req[r]) /\ KeepsBefore(req[r])
                /\ \A i \in 1 .. Len(req[r].pre) : Sound(req[r].pre[i])
RequestsOK == \A r \in Requests : RequestOK(r)

(* R has written operation i, and has yet to undo it.                       *)
Wrote(R, i) ==
  /\ R.pc \in Patching /\ i \in 1 .. Len(R.pre)
  /\ R.pc = "write" => i < Len(R.pre)

UnfinishedIsOwned ==
  \A p \in Patches \ leaked : status[p] # "accepted" =>
    \A f \in Files : file[f] = p =>
      \E r \in Requests : \E i \in 1 .. Len(Ops[p]) :
        Wrote(req[r], i) /\ req[r].p = p /\ Ops[p][i].file = f

(* A file nobody muddled has one request on it.                             *)
OneAtATime ==
  \A f \in Files \ muddled : \A r, s \in Requests :
    (OnFiles(r) /\ OnFiles(s) /\ f \in FilesOf(req[r].p) /\ f \in FilesOf(req[s].p)) => r = s

(* What R has made of the file its operation i is about, if that holds x    *)
(* and the decisions make it d.                                            *)
MidwayOK(R, i, x, d) ==
  /\ R.pc \in Patching /\ i > Len(R.pre) => x = d
  /\ R.pc \in Patching /\ i <= Len(R.pre) => R.pre[i] = d
  /\ R.pc = "write" /\ i = Len(R.pre) => x = d
  /\ R.pc \in {"read", "write", "marked"} /\ Wrote(R, i) => x = R.p
  /\ R.pc \in Restoring /\ i <= Len(Ops[R.p]) - Len(R.pre) => x = Ops[R.p][i].before

UndisturbedAt(r, i, f) ==
  Ops[req[r].p][i].file = f /\ f \notin muddled => MidwayOK(req[r], i, file[f], decided[f])
UndisturbedOK(r) ==
  OnFiles(r) => \A i \in 1 .. Len(Ops[req[r].p]) : \A f \in Files : UndisturbedAt(r, i, f)
MuddleFree == \A r \in Requests : UndisturbedOK(r)

ReviewInv ==
  /\ ProposalTypeOK /\ LocksOK /\ ApprovalsStand /\ GrantsCountTheirUses
  /\ SavedOK /\ RequestsOK /\ UnfinishedIsOwned
  /\ OneAtATime /\ MuddleFree /\ FilesFollowTheDecisions

-----------------------------------------------------------------------------
(* The operations of a patch are about files of their own.                  *)
LEMMA OpsFacts ==
  ASSUME NEW p \in Patches
  PROVE  /\ Len(Ops[p]) \in Nat /\ Len(Ops[p]) > 0 /\ DOMAIN Ops[p] = 1 .. Len(Ops[p])
         /\ \A i \in 1 .. Len(Ops[p]) : /\ Ops[p][i].file \in Files
                                        /\ Ops[p][i].before \in Contents
                                        /\ Ops[p][i].before # p
         /\ \A i, j \in 1 .. Len(Ops[p]) : Ops[p][i].file = Ops[p][j].file => i = j
<1>1. Ops[p] \in Seq([file : Files, before : Contents])
  BY PatchesAssumption
<1>2. Len(Ops[p]) \in Nat /\ DOMAIN Ops[p] = 1 .. Len(Ops[p])
  BY <1>1
<1>3. Len(Ops[p]) > 0
  BY <1>1, <1>2, PatchesAssumption, EmptySeq
<1>4. \A i \in 1 .. Len(Ops[p]) : Ops[p][i] \in [file : Files, before : Contents]
  BY <1>1, ElementOfSeq
<1> QED
  BY <1>2, <1>3, <1>4, PatchesAssumption

(* The files of a patch are those of its operations.                       *)
LEMMA FilesOfFacts ==
  ASSUME NEW p \in Patches
  PROVE  \A f : f \in FilesOf(p) <=> \E i \in 1 .. Len(Ops[p]) : Ops[p][i].file = f
BY OpsFacts DEF FilesOf

(* A request is idle, consumes a grant or works on files.                   *)
LEMMA RequestFacts ==
  ASSUME NEW R \in Request
  PROVE  /\ R = Idle \/ R.pc = "consumed" \/ R.pc \in Patching \union Restoring
         /\ R.pc = "consumed" => /\ R = [pc |-> "consumed", p |-> R.p, g |-> R.g]
                                 /\ R.p \in Actions /\ R.g \in Grants
         /\ R.pc \in Patching \union Restoring =>
              /\ R = [pc |-> R.pc, p |-> R.p, pre |-> R.pre]
              /\ R.p \in Patches /\ R.pre \in Seq(Contents)
         /\ R = Idle => R.pc = "idle"
BY DEF Request, Idle, Patching, Restoring

(* A request goes on where it was, and the others do not move.              *)
LEMMA GotoFacts ==
  ASSUME req \in [Requests -> Request], NEW r \in Requests, OnFiles(r),
         NEW c \in Patching \union Restoring, NEW q \in Seq(Contents), Goto(r, c, q)
  PROVE  /\ req' \in [Requests -> Request]
         /\ \A s \in Requests \ {r} : req'[s] = req[s]
         /\ req'[r].pc = c /\ req'[r].p = req[r].p /\ req'[r].pre = q
         /\ req'[r] # Idle
<1>1. /\ req[r] = [pc |-> req[r].pc, p |-> req[r].p, pre |-> req[r].pre]
      /\ req[r].p \in Patches
  BY RequestFacts DEF OnFiles
<1>2. req' = [req EXCEPT ![r] = [pc |-> c, p |-> req[r].p, pre |-> q]]
  <2>1. req' = [req EXCEPT ![r] = [req[r] EXCEPT !.pc = c, !.pre = q]]
    BY DEF Goto
  <2>2. PICK a, p, b : req[r] = [pc |-> a, p |-> p, pre |-> b]
    BY <1>1
  <2>3. [[pc |-> a, p |-> p, pre |-> b] EXCEPT !.pc = c] = [pc |-> c, p |-> p, pre |-> b]
    OBVIOUS
  <2>4. [[pc |-> c, p |-> p, pre |-> b] EXCEPT !.pre = q] = [pc |-> c, p |-> p, pre |-> q]
    OBVIOUS
  <2>5. [req[r] EXCEPT !.pc = c, !.pre = q] = [pc |-> c, p |-> req[r].p, pre |-> q]
    BY <2>2, <2>3, <2>4
  <2> QED
    BY <2>1, <2>5
<1>3. [pc |-> c, p |-> req[r].p, pre |-> q] \in Request
  BY <1>1 DEF Request
<1>4. req' \in [Requests -> Request] /\ req'[r] = [pc |-> c, p |-> req[r].p, pre |-> q]
  BY <1>2, <1>3
<1>5. c # "idle"
  BY DEF Patching, Restoring
<1> QED
  BY <1>2, <1>4, <1>5 DEF Idle

(* A request ends, and the others do not move.                             *)
LEMMA DoneFacts ==
  ASSUME req \in [Requests -> Request], NEW r \in Requests, Done(r)
  PROVE  /\ req' \in [Requests -> Request]
         /\ \A s \in Requests \ {r} : req'[s] = req[s]
         /\ req'[r] = Idle
BY DEF Done, Request

-----------------------------------------------------------------------------
(* What a request on files leaves alone: the other requests, the files      *)
(* that are not its patch's, the proposals but its own, and the grants.     *)
FileMove(r) ==
  /\ OnFiles(r)
  /\ \A s \in Requests \ {r} : req'[s] = req[s]
  /\ \/ req'[r] = Idle
     \/ /\ OnFiles(r)' /\ req'[r].p = req[r].p
        /\ req'[r].pc \in Patching \ {"undo_late"} => req[r].pc \in Patching \ {"undo_late"}
        /\ req[r].pc = "undo_late" => req'[r].pc = "undo_late"
  /\ \A f \in Files \ FilesOf(req[r].p) : file'[f] = file[f] /\ decided'[f] = decided[f]
  /\ \A x \in Proposals :
       \/ status'[x] = status[x]
       \/ /\ Holds(r, x) /\ status[x] = "pending" /\ status'[x] = "accepted"
          /\ req'[r] = Idle \/ req'[r].pc = "undo_late"
  /\ UNCHANGED grantVars
  /\ leaked \subseteq leaked' /\ muddled \subseteq muddled'

(* It disturbs no grant and no decision of another request.                 *)
LEMMA FileMoveGrants ==
  ASSUME ReviewInv, ProposalTypeOK', NEW r \in Requests, FileMove(r)
  PROVE  LocksOK' /\ ApprovalsStand' /\ GrantsCountTheirUses'
<1>1. LocksOK /\ ApprovalsStand /\ GrantsCountTheirUses /\ req \in [Requests -> Request]
  BY DEF ReviewInv, ProposalTypeOK
<1>2. \A s \in Requests : /\ req[s] = Idle => ~Consumed(s) /\ ~OnFiles(s)
                          /\ OnFiles(s) => ~Consumed(s)
  BY DEF Idle, Consumed, OnFiles, Patching, Restoring
<1>3. /\ \A s \in Requests : Consumed(s)' <=> Consumed(s)
      /\ \A s \in Requests : Consumed(s) => s # r /\ req'[s] = req[s]
  BY <1>2 DEF FileMove, Consumed, Idle, OnFiles, Patching, Restoring
<1>4. \A s \in Requests : \A x \in Proposals : Holds(s, x)' => Holds(s, x)
  BY <1>2 DEF FileMove, Holds
<1>5. \A x \in Proposals : status[x] = "accepted" => status'[x] = "accepted"
  BY DEF FileMove
<1>6. \A s \in Requests : Consumed(s) \/ req[s].pc \in Patching \ {"undo_late"} =>
        req[s].p \in Proposals /\ Holds(s, req[s].p)
  BY <1>1, <1>2, RequestFacts DEF Holds, Proposals, Patching, Consumed, Idle
<1>7. ASSUME NEW s \in Requests,
             Consumed(s)' \/ req'[s].pc \in Patching \ {"undo_late"}
      PROVE  status'[req'[s].p] = "pending"
  <2>1. Consumed(s) \/ req[s].pc \in Patching \ {"undo_late"}
    BY <1>3, <1>7 DEF FileMove, Idle, Patching
  <2>2. req'[s].p = req[s].p /\ status[req[s].p] = "pending"
    BY <1>1, <1>3, <1>7, <2>1 DEF FileMove, LocksOK, Idle, Patching
  <2>3. s = r => req'[r] # Idle /\ req'[r].pc # "undo_late"
    BY <1>3, <1>7, <2>1 DEF Idle, Patching, FileMove, Consumed
  <2>4. Holds(s, req[s].p) /\ req[s].p \in Proposals
    BY <1>6, <2>1
  <2> QED
    BY <1>1, <2>2, <2>3, <2>4 DEF FileMove, LocksOK
<1>8. UNCHANGED <<approval, grant, uses>>
  BY DEF FileMove, grantVars
<1>9. LocksOK'
  BY <1>1, <1>3, <1>4, <1>7, <1>8 DEF LocksOK
<1>10. ApprovalsStand'
  BY <1>1, <1>5, <1>8 DEF ApprovalsStand, Proposals
<1>11. GrantsCountTheirUses'
  <2>1. ASSUME NEW g \in Grants
        PROVE  {a \in Actions : approval'[a] = g /\ status'[a] = "accepted"}
                 = {a \in Actions : approval[a] = g /\ status[a] = "accepted"}
    BY <1>1, <1>5, <1>8, GrantsAssumption DEF ApprovalsStand, Proposals
  <2> QED
    BY <1>1, <1>8, <2>1 DEF GrantsCountTheirUses
<1> QED
  BY <1>9, <1>10, <1>11

(* It keeps the invariant if it leaves its own files and what it has kept   *)
(* of them in order.                                                       *)
LEMMA FileMoveStep ==
  ASSUME ReviewInv, ProposalTypeOK', SavedOK', NEW r \in Requests, FileMove(r),
         RequestOK(r)', UndisturbedOK(r)',
         req'[r] = Idle =>
           \A i \in 1 .. Len(Ops[req[r].p]) :
             Ops[req[r].p][i].file \notin muddled' =>
               file'[Ops[req[r].p][i].file] = decided'[Ops[req[r].p][i].file],
         \A f \in Files :
           \/ file'[f] = file[f]
           \/ \E i \in 1 .. Len(Ops[req[r].p]) :
                Ops[req[r].p][i].file = f /\ file'[f] = req[r].p /\ Wrote(req'[r], i)
           \/ \A c : c = file'[f] => Sound(c)',
         \A i \in 1 .. Len(Ops[req[r].p]) : Wrote(req[r], i) =>
           \/ Wrote(req'[r], i) \/ file'[Ops[req[r].p][i].file] # req[r].p
           \/ req[r].p \in leaked' \/ status'[req[r].p] = "accepted"
  PROVE  ReviewInv'
<1> PICK p : p = req[r].p
  OBVIOUS
<1>1. /\ req \in [Requests -> Request] /\ p \in Patches
      /\ \A s \in Requests : OnFiles(s) => req[s].p \in Patches /\ req[s].pre \in Seq(Contents)
  BY RequestFacts DEF ReviewInv, ProposalTypeOK, FileMove, OnFiles
<1>2. /\ \A x \in Proposals : status[x] = "accepted" => status'[x] = "accepted"
      /\ leaked \subseteq leaked' /\ muddled \subseteq muddled'
      /\ \A s \in Requests \ {r} : req'[s] = req[s]
  BY DEF FileMove
<1>3. \A c : Sound(c) => Sound(c)'
  BY <1>2 DEF Sound, Proposals
<1>4. \A s \in Requests : OnFiles(s)' => OnFiles(s) /\ req'[s].p = req[s].p
  BY <1>2 DEF FileMove, OnFiles, Idle, Patching, Restoring
<1>5. RequestsOK'
  <2>1. ASSUME NEW s \in Requests \ {r} PROVE RequestOK(s)'
    <3> SUFFICES ASSUME OnFiles(s)' PROVE RequestOK(s)'
      BY DEF RequestOK
    <3>1. req'[s] = req[s] /\ RequestOK(s) /\ OnFiles(s)
      BY <1>2 DEF ReviewInv, RequestsOK, OnFiles
    <3>2. ShapeOK(req'[s]) /\ KeepsBefore(req'[s])
      BY <3>1 DEF RequestOK
    <3>3. \A i \in 1 .. Len(req[s].pre) : Sound(req[s].pre[i])
      BY <3>1 DEF RequestOK
    <3>4. \A i \in 1 .. Len(req'[s].pre) : Sound(req[s].pre[i])'
      BY <1>2, <3>1, <3>3 DEF Sound, Proposals
    <3> QED
      BY <3>2, <3>4 DEF RequestOK
  <2> QED
    BY <2>1 DEF RequestsOK
<1>6. OneAtATime'
  BY <1>2, <1>4 DEF ReviewInv, OneAtATime
<1>7. MuddleFree'
  <2>1. ASSUME NEW s \in Requests \ {r}, OnFiles(s)', NEW i \in 1 .. Len(Ops[req'[s].p]),
               NEW f \in Files, Ops[req'[s].p][i].file = f, f \notin muddled'
        PROVE  MidwayOK(req'[s], i, file'[f], decided'[f])
    <3>1. /\ OnFiles(s) /\ req'[s] = req[s] /\ req[s].p \in Patches
          /\ i \in 1 .. Len(Ops[req[s].p]) /\ f \notin muddled
      BY <1>1, <1>2, <2>1 DEF OnFiles
    <3>2. MidwayOK(req[s], i, file[f], decided[f])
      BY <2>1, <3>1 DEF ReviewInv, MuddleFree, UndisturbedOK, UndisturbedAt
    <3>3. f \in FilesOf(req[s].p)
      BY <2>1, <3>1, FilesOfFacts
    <3>4. f \notin FilesOf(p)
      BY <3>1, <3>3 DEF ReviewInv, OneAtATime, FileMove
    <3>5. file'[f] = file[f] /\ decided'[f] = decided[f]
      BY <3>4 DEF FileMove
    <3> QED
      BY <3>1, <3>2, <3>5
  <2> QED
    BY <2>1 DEF MuddleFree, UndisturbedOK, UndisturbedAt
<1>8. FilesFollowTheDecisions'
  <2> SUFFICES ASSUME NEW f \in Files, f \notin muddled'
               PROVE  \/ file'[f] = decided'[f]
                      \/ \E s \in Requests : OnFiles(s)' /\ f \in FilesOf(req'[s].p)
    BY DEF FilesFollowTheDecisions
  <2>1. CASE f \in FilesOf(p)
    <3>1. PICK i \in 1 .. Len(Ops[p]) : Ops[p][i].file = f
      BY <1>1, <2>1, FilesOfFacts
    <3>2. CASE req'[r] = Idle
      BY <3>1, <3>2
    <3>3. CASE OnFiles(r)' /\ req'[r].p = p
      BY <2>1, <3>3
    <3> QED
      BY <3>2, <3>3 DEF FileMove
  <2>2. CASE f \notin FilesOf(p)
    <3>1. file'[f] = file[f] /\ decided'[f] = decided[f] /\ f \notin muddled
      BY <1>2, <2>2 DEF FileMove
    <3>2. \/ file[f] = decided[f]
          \/ \E s \in Requests \ {r} : OnFiles(s) /\ f \in FilesOf(req[s].p)
      BY <2>2, <3>1 DEF ReviewInv, FilesFollowTheDecisions
    <3> QED
      BY <1>2, <3>1, <3>2 DEF OnFiles
  <2> QED
    BY <2>1, <2>2
<1>9. UnfinishedIsOwned'
  <2> SUFFICES ASSUME NEW c \in Patches, c \notin leaked', status'[c] # "accepted",
                      NEW f \in Files, file'[f] = c
               PROVE  \E s \in Requests : \E i \in 1 .. Len(Ops[c]) :
                        Wrote(req'[s], i) /\ req'[s].p = c /\ Ops[c][i].file = f
    BY DEF UnfinishedIsOwned
  <2>1. c \notin leaked /\ status[c] # "accepted" /\ ~Sound(c)'
    BY <1>2 DEF Sound, Proposals
  <2>2. \A i : Wrote(req'[r], i) => req'[r].p = p
    BY DEF Wrote, FileMove, Idle, Patching
  <2>3. CASE file'[f] = file[f]
    <3>1. PICK s \in Requests, i \in 1 .. Len(Ops[c]) :
                 Wrote(req[s], i) /\ req[s].p = c /\ Ops[c][i].file = f
      BY <2>1, <2>3 DEF ReviewInv, UnfinishedIsOwned
    <3>2. CASE s = r
      BY <2>1, <2>2, <3>1, <3>2
    <3>3. CASE s # r
      BY <1>2, <3>1, <3>3
    <3> QED
      BY <3>2, <3>3
  <2>4. CASE \E i \in 1 .. Len(Ops[p]) : Ops[p][i].file = f /\ file'[f] = p /\ Wrote(req'[r], i)
    BY <2>2, <2>4
  <2> QED
    BY <2>1, <2>3, <2>4
<1> QED
  BY <1>5, <1>6, <1>7, <1>8, <1>9, FileMoveGrants DEF ReviewInv

-----------------------------------------------------------------------------
(* What is known of a request on files.                                    *)
LEMMA OnFilesFacts ==
  ASSUME ReviewInv, NEW r \in Requests, OnFiles(r)
  PROVE  /\ req[r].p \in Patches /\ req[r].pre \in Seq(Contents)
         /\ Len(req[r].pre) \in Nat
         /\ \A i \in 1 .. Len(req[r].pre) : req[r].pre[i] \in Contents /\ Sound(req[r].pre[i])
         /\ ShapeOK(req[r]) /\ KeepsBefore(req[r])
         /\ \A i \in 1 .. Len(Ops[req[r].p]) : \A f \in Files : UndisturbedAt(r, i, f)
         /\ req \in [Requests -> Request] /\ ProposalTypeOK
<1>1. req[r].p \in Patches /\ req[r].pre \in Seq(Contents) /\ ProposalTypeOK
      /\ req \in [Requests -> Request]
  BY RequestFacts DEF ReviewInv, ProposalTypeOK, OnFiles
<1>2. RequestOK(r) /\ UndisturbedOK(r)
  BY DEF ReviewInv, RequestsOK, MuddleFree
<1> QED
  BY <1>1, <1>2, ElementOfSeq, LenProperties DEF RequestOK, UndisturbedOK

(* Snapshots stay as good as they were where none is taken or restored.     *)
LEMMA SavedKept ==
  ASSUME ReviewInv, UNCHANGED <<snap, saved>>, leaked \subseteq leaked',
         \A x \in Proposals : status[x] = "accepted" => status'[x] = "accepted"
  PROVE  SavedOK'
BY DEF ReviewInv, SavedOK, Sound, Proposals

(* Reading one more file.                                                  *)
LEMMA ReadsOneMore ==
  ASSUME NEW R, NEW R2, R.p \in Patches, R.pc = "read", R2.pc = "write", R2.p = R.p,
         Len(R.pre) \in Nat, Len(R2.pre) = Len(R.pre) + 1, ShapeOK(R), KeepsBefore(R),
         \A i \in 1 .. Len(R.pre) : R2.pre[i] = R.pre[i],
         R2.pre[Len(R2.pre)] = Ops[R.p][Len(R2.pre)].before
  PROVE  /\ ShapeOK(R2) /\ KeepsBefore(R2)
         /\ \A i : Wrote(R, i) => Wrote(R2, i)
         /\ \A i \in 1 .. Len(Ops[R.p]) : \A x, d :
              MidwayOK(R, i, x, d) /\ (i = Len(R2.pre) => x = Ops[R.p][i].before) =>
                MidwayOK(R2, i, x, d)
<1> PICK k \in Nat : k = Len(R.pre)
  OBVIOUS
<1>1. Len(Ops[R.p]) \in Nat
  BY OpsFacts
<1>2. ShapeOK(R2) /\ KeepsBefore(R2)
  BY <1>1 DEF ShapeOK, KeepsBefore, Patching
<1>3. \A i : Wrote(R, i) => Wrote(R2, i)
  BY DEF Wrote, Patching
<1>4. ASSUME NEW i \in 1 .. Len(Ops[R.p]), NEW x, NEW d, MidwayOK(R, i, x, d),
             i = Len(R2.pre) => x = Ops[R.p][i].before
      PROVE  MidwayOK(R2, i, x, d)
  BY <1>1, <1>4 DEF MidwayOK, Wrote, Patching, Restoring
<1> QED
  BY <1>2, <1>3, <1>4

(* ReadFile keeps the preimage it compared, which is what may be put back:  *)
(* the content of an accepted patch, or one it records as leaked.           *)
LEMMA ReadStep ==
  ASSUME ReviewInv, NEW r \in Requests, ReadFile(r)
  PROVE  ReviewInv'
<1> PICK p, q, k, o :
      p = req[r].p /\ q = req[r].pre /\ k = Len(q) + 1 /\ o = Ops[p][k]
  OBVIOUS
<1>1. /\ req[r].pc = "read" /\ OnFiles(r)
      /\ file[o.file] = o.before /\ Goto(r, "write", Append(q, o.before))
      /\ leaked' = leaked \union {c \in Patches : c = o.before /\ status[c] # "accepted"}
      /\ UNCHANGED <<status, snap, saved, order, approval, grant, uses, lapsed, file, crashes,
                     decided, muddled>>
  BY DEF ReadFile, OnFiles, Patching, patchVars, grantVars
<1>2. /\ p \in Patches /\ q \in Seq(Contents) /\ Len(q) \in Nat
      /\ ShapeOK(req[r]) /\ KeepsBefore(req[r]) /\ req \in [Requests -> Request]
  BY <1>1, OnFilesFacts
<1>3. /\ \A i \in 1 .. Len(q) : q[i] \in Contents /\ Sound(q[i])
      /\ \A i \in 1 .. Len(Ops[p]) : \A f \in Files : UndisturbedAt(r, i, f)
      /\ ProposalTypeOK
  BY <1>1, OnFilesFacts
<1>4. k \in 1 .. Len(Ops[p]) /\ o.file \in Files /\ o.before \in Contents
  BY <1>1, <1>2, OpsFacts DEF ShapeOK
<1>5. PICK q2 : /\ q2 = Append(q, o.before) /\ q2 \in Seq(Contents) /\ Len(q2) = k
                /\ \A i \in 1 .. Len(q) : q2[i] = q[i]
                /\ q2[k] = o.before
  <2>1. /\ Append(q, o.before) \in Seq(Contents) /\ Len(Append(q, o.before)) = Len(q) + 1
        /\ \A i \in 1 .. Len(q) : Append(q, o.before)[i] = q[i]
        /\ Append(q, o.before)[Len(q) + 1] = o.before
    BY <1>2, <1>4, AppendProperties
  <2> QED
    BY <2>1
<1>6. /\ req' \in [Requests -> Request] /\ \A s \in Requests \ {r} : req'[s] = req[s]
      /\ req'[r].pc = "write" /\ req'[r].p = p /\ req'[r].pre = q2 /\ req'[r] # Idle
  <2>1. "write" \in Patching \union Restoring
    BY DEF Patching
  <2> QED
    BY <1>1, <1>2, <1>5, <2>1, GotoFacts, Zenon
<1>7. ProposalTypeOK'
  BY <1>1, <1>3, <1>6 DEF ProposalTypeOK
<1>8. leaked \subseteq leaked'
  BY <1>1
<1>9. FileMove(r)
  BY <1>1, <1>6, <1>8, Zenon DEF FileMove, OnFiles, Patching, grantVars
<1>10. SavedOK'
  BY <1>1, <1>8, SavedKept, Zenon
<1>11. /\ ShapeOK(req'[r]) /\ KeepsBefore(req'[r])
       /\ \A i : Wrote(req[r], i) => Wrote(req'[r], i)
       /\ \A i \in 1 .. Len(Ops[p]) : \A x, d :
            MidwayOK(req[r], i, x, d) /\ (i = k => x = Ops[p][i].before) =>
              MidwayOK(req'[r], i, x, d)
  <2>1. /\ req[r].p \in Patches /\ req[r].pc = "read" /\ req'[r].pc = "write"
        /\ req'[r].p = req[r].p /\ Len(req[r].pre) \in Nat
        /\ Len(req'[r].pre) = Len(req[r].pre) + 1
    BY <1>1, <1>2, <1>5, <1>6, Zenon
  <2>2. \A i \in 1 .. Len(req[r].pre) : req'[r].pre[i] = req[r].pre[i]
    BY <1>5, <1>6
  <2>3. req'[r].pre[Len(req'[r].pre)] = Ops[req[r].p][Len(req'[r].pre)].before
    BY <1>5, <1>6
  <2>4. Len(req'[r].pre) = k
    BY <1>5, <1>6
  <2> QED
    BY <1>2, <2>1, <2>2, <2>3, <2>4, ReadsOneMore, Zenon
<1>12. \A c : Sound(c) => Sound(c)'
  BY <1>1 DEF Sound
<1>13. RequestOK(r)'
  <2>1. ASSUME NEW i \in 1 .. Len(q2) PROVE Sound(q2[i])'
    <3>1. CASE i = k
      BY <1>1, <1>5, <3>1, Zenon DEF Sound
    <3>2. CASE i \in 1 .. Len(q)
      BY <1>3, <1>5, <1>12, <3>2
    <3> QED
      BY <1>2, <1>5, <3>1, <3>2
  <2>2. \A i \in 1 .. Len(q2) : \A c : c = q2[i] => Sound(c)'
    BY <2>1
  <2> QED
    BY <1>6, <1>11, <2>1 DEF RequestOK
<1>14. UndisturbedOK(r)'
  <2>1. ASSUME NEW i \in 1 .. Len(Ops[p]), NEW f \in Files, Ops[p][i].file = f, f \notin muddled
        PROVE  MidwayOK(req'[r], i, file[f], decided[f])
    <3>1. MidwayOK(req[r], i, file[f], decided[f])
      BY <1>3, <2>1 DEF UndisturbedAt
    <3>2. i = k => file[f] = Ops[p][i].before
      BY <1>1, <2>1
    <3> QED
      BY <1>11, <3>1, <3>2
  <2> QED
    BY <1>1, <1>6, <2>1 DEF UndisturbedOK, UndisturbedAt
<1>15. \A i \in 1 .. Len(Ops[p]) : Wrote(req[r], i) => Wrote(req'[r], i)
  BY <1>11
<1> QED
  BY <1>1, <1>6, <1>7, <1>9, <1>10, <1>13, <1>14, <1>15, FileMoveStep, Zenon

(* R goes on as R2 when y has been put into the file of its operation k.    *)
GoesWell(R, R2, k, y) ==
  /\ R2.pc \in Patching \ {"undo_late"} => R.pc \in Patching \ {"undo_late"}
  /\ R.pc = "undo_late" => R2.pc = "undo_late"
  /\ ShapeOK(R2) /\ KeepsBefore(R2)
  /\ \A i \in 1 .. Len(Ops[R.p]) : \A x, z, d :
       MidwayOK(R, i, x, d) /\ (IF i = k THEN z = y ELSE z = x) => MidwayOK(R2, i, z, d)
  /\ \A i \in 1 .. Len(Ops[R.p]) : Wrote(R, i) => Wrote(R2, i) \/ (i = k /\ y # R.p)

(* A step that puts y into the file of one operation, k, and goes on.       *)
LEMMA GoesOn ==
  ASSUME ReviewInv, NEW r \in Requests, OnFiles(r),
         req' \in [Requests -> Request], \A s \in Requests \ {r} : req'[s] = req[s],
         OnFiles(r)', req'[r].p = req[r].p, req'[r] # Idle,
         NEW k \in 1 .. Len(Ops[req[r].p]), NEW y \in Contents,
         file' = [file EXCEPT ![Ops[req[r].p][k].file] = y],
         UNCHANGED <<status, patchVars, grantVars, lapsed, crashes, history>>,
         GoesWell(req[r], req'[r], k, y),
         \A i \in 1 .. Len(req'[r].pre) : Sound(req'[r].pre[i]),
         (y = req[r].p /\ Wrote(req'[r], k)) \/ Sound(y) \/ y = file[Ops[req[r].p][k].file]
  PROVE  ReviewInv'
<1> PICK p : p = req[r].p
  OBVIOUS
<1>1. /\ p \in Patches /\ req \in [Requests -> Request] /\ ProposalTypeOK
      /\ \A i \in 1 .. Len(Ops[p]) : \A f \in Files : UndisturbedAt(r, i, f)
  BY OnFilesFacts
<1>2. /\ req' \in [Requests -> Request] /\ \A s \in Requests \ {r} : req'[s] = req[s]
      /\ OnFiles(r)' /\ req'[r].p = p /\ req'[r] # Idle
  OBVIOUS
<1>3. UNCHANGED <<status, snap, saved, order, approval, grant, uses, lapsed, crashes,
                  decided, muddled, leaked>>
  BY DEF patchVars, grantVars, history
<1>4. /\ \A i \in 1 .. Len(Ops[p]) : Ops[p][i].file \in Files
      /\ \A i, j \in 1 .. Len(Ops[p]) : Ops[p][i].file = Ops[p][j].file => i = j
      /\ Ops[p][k].file \in FilesOf(p)
  BY <1>1, OpsFacts, FilesOfFacts
<1>5. /\ file \in [Files -> Contents] /\ file' \in [Files -> Contents]
      /\ file'[Ops[p][k].file] = y
      /\ \A f \in Files : f # Ops[p][k].file => file'[f] = file[f]
  BY <1>1, <1>4 DEF ProposalTypeOK
<1>6. ProposalTypeOK'
  BY <1>1, <1>2, <1>3, <1>5 DEF ProposalTypeOK
<1>7. SavedOK'
  BY <1>3, SavedKept
<1>8. FileMove(r)
  BY <1>2, <1>3, <1>4, <1>5 DEF FileMove, OnFiles, grantVars, GoesWell
<1>9. RequestOK(r)'
  <2>1. \A i \in 1 .. Len(req'[r].pre) : Sound(req[r].pre[i])'
    BY <1>3 DEF Sound
  <2> QED
    BY <2>1 DEF RequestOK, GoesWell
<1>10. UndisturbedOK(r)'
  <2>1. ASSUME NEW i \in 1 .. Len(Ops[p]), NEW f \in Files, Ops[p][i].file = f, f \notin muddled
        PROVE  MidwayOK(req'[r], i, file'[f], decided[f])
    <3>1. MidwayOK(req[r], i, file[f], decided[f])
      BY <1>1, <2>1 DEF UndisturbedAt
    <3>2. IF i = k THEN file'[f] = y ELSE file'[f] = file[f]
      BY <1>4, <1>5, <2>1
    <3> QED
      BY <3>1, <3>2 DEF GoesWell
  <2> QED
    BY <1>2, <1>3, <2>1 DEF UndisturbedOK, UndisturbedAt
<1>11. \A f \in Files :
         \/ file'[f] = file[f]
         \/ \E i \in 1 .. Len(Ops[p]) : Ops[p][i].file = f /\ file'[f] = p /\ Wrote(req'[r], i)
         \/ \A x : x = file'[f] => Sound(x)'
  <2>1. Sound(y) => \A x : x = y => Sound(x)'
    BY <1>3 DEF Sound
  <2>2. \/ y = p /\ Wrote(req'[r], k)
        \/ \A x : x = y => Sound(x)'
        \/ y = file[Ops[p][k].file]
    BY <2>1
  <2> QED
    BY <1>5, <2>2
<1>12. \A i \in 1 .. Len(Ops[p]) :
         Wrote(req[r], i) => Wrote(req'[r], i) \/ file'[Ops[p][i].file] # p
  BY <1>5 DEF GoesWell
<1> QED
  BY <1>2, <1>6, <1>7, <1>8, <1>9, <1>10, <1>11, <1>12, FileMoveStep

(* Writing one file.                                                       *)
LEMMA WritesOne ==
  ASSUME NEW R, NEW R2, R.p \in Patches, R.pc = "write",
         R2.pc = IF Len(R.pre) = Len(Ops[R.p]) THEN "marked" ELSE "read",
         R2.p = R.p, R2.pre = R.pre, Len(R.pre) \in Nat, ShapeOK(R), KeepsBefore(R)
  PROVE  GoesWell(R, R2, Len(R.pre), R.p) /\ Wrote(R2, Len(R.pre))
<1>1. Len(Ops[R.p]) \in Nat
  BY OpsFacts
<1>2. ShapeOK(R2) /\ KeepsBefore(R2)
  BY <1>1 DEF ShapeOK, KeepsBefore, Patching
<1>3. (\A i : Wrote(R, i) => Wrote(R2, i)) /\ Wrote(R2, Len(R.pre))
  BY <1>1 DEF Wrote, Patching, ShapeOK
<1>4. ASSUME NEW i \in 1 .. Len(Ops[R.p]), NEW x, NEW d, MidwayOK(R, i, x, d),
             NEW z, IF i = Len(R.pre) THEN z = R.p ELSE z = x
      PROVE  MidwayOK(R2, i, z, d)
  BY <1>1, <1>4 DEF MidwayOK, Wrote, Patching, Restoring, ShapeOK
<1>6. /\ R2.pc \in Patching \ {"undo_late"} => R.pc \in Patching \ {"undo_late"}
      /\ R.pc # "undo_late"
  BY DEF Patching
<1> QED
  BY <1>2, <1>3, <1>4, <1>6 DEF GoesWell

(* WriteFile puts the content of its own patch into the file it has read.   *)
LEMMA WriteStep ==
  ASSUME ReviewInv, NEW r \in Requests, WriteFile(r)
  PROVE  ReviewInv'
<1> PICK p, q, k, c :
      /\ p = req[r].p /\ q = req[r].pre /\ k = Len(q)
      /\ c = IF k = Len(Ops[p]) THEN "marked" ELSE "read"
  OBVIOUS
<1>1. /\ req[r].pc = "write" /\ OnFiles(r) /\ c \in Patching \union Restoring
      /\ file' = [file EXCEPT ![Ops[req[r].p][k].file] = p] /\ Goto(r, c, q)
      /\ UNCHANGED <<status, patchVars, grantVars, lapsed, crashes, history>>
  BY DEF WriteFile, OnFiles, Patching
<1>2. /\ p \in Patches /\ q \in Seq(Contents) /\ k \in Nat /\ p \in Contents
      /\ ShapeOK(req[r]) /\ KeepsBefore(req[r]) /\ req \in [Requests -> Request]
      /\ \A i \in 1 .. Len(q) : Sound(q[i])
  BY <1>1, OnFilesFacts DEF Contents
<1>3. k \in 1 .. Len(Ops[req[r].p])
  BY <1>1, <1>2 DEF ShapeOK
<1>4. /\ req' \in [Requests -> Request] /\ \A s \in Requests \ {r} : req'[s] = req[s]
      /\ req'[r].pc = c /\ req'[r].p = req[r].p /\ req'[r].pre = q /\ req'[r] # Idle
  BY <1>1, <1>2, GotoFacts, Zenon
<1>5. GoesWell(req[r], req'[r], k, p) /\ p = req[r].p /\ Wrote(req'[r], k)
  BY <1>1, <1>2, <1>4, WritesOne
<1>6. OnFiles(r)'
  BY <1>1, <1>4 DEF OnFiles
<1> QED
  BY <1>1, <1>2, <1>3, <1>4, <1>5, <1>6, GoesOn

(* Giving up with files written: what was kept is to be put back.           *)
LEMMA GivesUp ==
  ASSUME NEW R, NEW R2, R.p \in Patches, R.pc \in {"read", "write", "marked"},
         R2.pc \in {"undo", "undo_late"}, R2.pc = "undo" \/ R.pc = "marked",
         R2.p = R.p, R2.pre = R.pre,
         Len(R.pre) \in Nat \ {0}, ShapeOK(R), KeepsBefore(R), NEW y
  PROVE  GoesWell(R, R2, 1, y)
<1>1. Len(Ops[R.p]) \in Nat
  BY OpsFacts
<1>2. ShapeOK(R2) /\ KeepsBefore(R2)
  <2>1. Len(R.pre) \in 1 .. Len(Ops[R.p])
    BY <1>1 DEF ShapeOK
  <2>2. \A i \in 1 .. Len(R.pre) : R.pre[i] = Ops[R.p][i].before
    BY DEF KeepsBefore, Patching
  <2> QED
    BY <2>1, <2>2 DEF ShapeOK, KeepsBefore
<1>3. \A i : Wrote(R, i) => Wrote(R2, i)
  BY DEF Wrote, Patching
<1>4. ASSUME NEW i \in 1 .. Len(Ops[R.p]), NEW x, NEW d, MidwayOK(R, i, x, d),
             NEW z, IF i = 1 THEN z = y ELSE z = x
      PROVE  MidwayOK(R2, i, z, d)
  BY <1>1, <1>4 DEF MidwayOK, Wrote, Patching, Restoring, ShapeOK
<1>5. /\ R2.pc \in Patching \ {"undo_late"} => R.pc \in Patching \ {"undo_late"}
      /\ R.pc # "undo_late"
  BY DEF Patching
<1> QED
  BY <1>2, <1>3, <1>4, <1>5 DEF GoesWell

(* A request with files written turns to put them back.                    *)
LEMMA GiveUpStep ==
  ASSUME ReviewInv, NEW r \in Requests, req[r].pc \in {"read", "write", "marked"},
         NEW c \in {"undo", "undo_late"}, c = "undo" \/ req[r].pc = "marked",
         req[r].pre # <<>>, Goto(r, c, req[r].pre),
         UNCHANGED <<status, patchVars, grantVars, lapsed, file, crashes, history>>
  PROVE  ReviewInv'
<1>1. OnFiles(r) /\ c \in Patching \union Restoring
  BY DEF OnFiles, Patching
<1>2. /\ req[r].p \in Patches /\ req[r].pre \in Seq(Contents) /\ Len(req[r].pre) \in Nat
      /\ ShapeOK(req[r]) /\ KeepsBefore(req[r]) /\ req \in [Requests -> Request]
      /\ \A i \in 1 .. Len(req[r].pre) : Sound(req[r].pre[i])
  BY <1>1, OnFilesFacts
<1>3. Len(req[r].pre) # 0
  BY <1>2, EmptySeq
<1>4. /\ req' \in [Requests -> Request] /\ \A s \in Requests \ {r} : req'[s] = req[s]
      /\ req'[r].pc = c /\ req'[r].p = req[r].p /\ req'[r].pre = req[r].pre /\ req'[r] # Idle
  BY <1>1, <1>2, GotoFacts, Zenon
<1>5. 1 \in 1 .. Len(Ops[req[r].p]) /\ Ops[req[r].p][1].file \in Files
  BY <1>2, OpsFacts
<1>6. PICK y \in Contents : y = file[Ops[req[r].p][1].file]
  BY <1>5 DEF ReviewInv, ProposalTypeOK
<1>7. file' = [file EXCEPT ![Ops[req[r].p][1].file] = y]
  BY <1>5, <1>6 DEF ReviewInv, ProposalTypeOK
<1>8. GoesWell(req[r], req'[r], 1, y)
  BY <1>1, <1>2, <1>3, <1>4, GivesUp
<1>9. OnFiles(r)'
  BY <1>1, <1>4 DEF OnFiles
<1>10. \A i \in 1 .. Len(req'[r].pre) : Sound(req'[r].pre[i])
  BY <1>2, <1>4
<1> QED
  BY <1>1, <1>4, <1>5, <1>6, <1>7, <1>8, <1>9, <1>10, GoesOn, Zenon

(* A request that ends with its files as the decisions make them, or with   *)
(* all of them muddled.                                                    *)
LEMMA EndStep ==
  ASSUME ReviewInv, NEW r \in Requests, OnFiles(r), Done(r), SavedOK',
         \A f \in Files \ FilesOf(req[r].p) : file'[f] = file[f] /\ decided'[f] = decided[f],
         \A x \in Proposals :
           \/ status'[x] = status[x]
           \/ Holds(r, x) /\ status[x] = "pending" /\ status'[x] = "accepted",
         UNCHANGED grantVars, leaked \subseteq leaked', muddled \subseteq muddled',
         ProposalTypeOK',
         \A i \in 1 .. Len(Ops[req[r].p]) : Ops[req[r].p][i].file \notin muddled' =>
           file'[Ops[req[r].p][i].file] = decided'[Ops[req[r].p][i].file],
         \A f \in Files : file'[f] = file[f] \/ (\A c : c = file'[f] => Sound(c)'),
         \A i \in 1 .. Len(Ops[req[r].p]) : Wrote(req[r], i) =>
           \/ file'[Ops[req[r].p][i].file] # req[r].p
           \/ req[r].p \in leaked' \/ status'[req[r].p] = "accepted"
  PROVE  ReviewInv'
<1>1. req'[r] = Idle /\ \A s \in Requests \ {r} : req'[s] = req[s]
  BY DoneFacts DEF ReviewInv, ProposalTypeOK
<1>2. FileMove(r)
  BY <1>1 DEF FileMove
<1>3. RequestOK(r)' /\ UndisturbedOK(r)'
  BY <1>1 DEF RequestOK, UndisturbedOK, OnFiles, Idle, Patching, Restoring
<1> QED
  BY <1>1, <1>2, <1>3, FileMoveStep

(* A failure before COMMIT, or of COMMIT: nothing was written, or what was  *)
(* written is to be put back.                                              *)
LEMMA FailStep ==
  ASSUME ReviewInv, NEW r \in Requests, Fail(r) \/ CommitFails(r)
  PROVE  ReviewInv'
<1>1. /\ req[r].pc \in {"read", "write", "marked"} /\ OnFiles(r)
      /\ UNCHANGED <<status, patchVars, grantVars, lapsed, file, crashes, history>>
  BY DEF Fail, CommitFails, OnFiles, Patching
<1>2. /\ req[r].p \in Patches /\ req[r].pre \in Seq(Contents) /\ ShapeOK(req[r])
      /\ req \in [Requests -> Request] /\ ProposalTypeOK
      /\ \A i \in 1 .. Len(Ops[req[r].p]) : \A f \in Files : UndisturbedAt(r, i, f)
  BY <1>1, OnFilesFacts
<1>3. /\ Len(Ops[req[r].p]) \in Nat \ {0}
      /\ \A i \in 1 .. Len(Ops[req[r].p]) : Ops[req[r].p][i].file \in Files
  BY <1>2, OpsFacts
<1>4. CASE Fail(r) /\ req[r].pre = <<>>
  <2>1. Done(r) /\ Len(req[r].pre) = 0
    BY <1>4 DEF Fail
  <2>2. /\ req' \in [Requests -> Request]
        /\ UNCHANGED <<status, snap, saved, order, approval, grant, uses, lapsed, file, crashes,
                       decided, muddled, leaked>>
    BY <1>1, <1>2, <2>1, DoneFacts DEF patchVars, grantVars, history
  <2>3. ProposalTypeOK'
    BY <1>2, <2>2 DEF ProposalTypeOK
  <2>4. SavedOK'
    BY <2>2, SavedKept
  <2>5. \A i : ~Wrote(req[r], i)
    BY <2>1 DEF Wrote
  <2>6. ASSUME NEW i \in 1 .. Len(Ops[req[r].p]), Ops[req[r].p][i].file \notin muddled
        PROVE  file[Ops[req[r].p][i].file] = decided[Ops[req[r].p][i].file]
    <3>1. MidwayOK(req[r], i, file[Ops[req[r].p][i].file], decided[Ops[req[r].p][i].file])
      BY <1>2, <1>3, <2>6 DEF UndisturbedAt
    <3> QED
      BY <1>1, <1>3, <2>1, <3>1 DEF MidwayOK, Patching
  <2> QED
    BY <1>1, <2>1, <2>2, <2>3, <2>4, <2>5, <2>6, EndStep DEF grantVars
<1>5. CASE Fail(r) /\ req[r].pre # <<>>
  <2>1. Goto(r, "undo", req[r].pre)
    BY <1>5 DEF Fail
  <2> QED
    BY <1>1, <1>5, <2>1, GiveUpStep
<1>6. CASE CommitFails(r)
  <2>1. Goto(r, "undo_late", req[r].pre) /\ req[r].pc = "marked"
    BY <1>6 DEF CommitFails
  <2>2. req[r].pre # <<>>
    BY <1>2, <1>3, <2>1 DEF ShapeOK
  <2> QED
    BY <1>1, <2>1, <2>2, GiveUpStep
<1> QED
  BY <1>4, <1>5, <1>6

(* Putting back one file, the last one written.                            *)
LEMMA UndoesOne ==
  ASSUME NEW R, NEW R2, R.p \in Patches, R.pc \in {"undo", "undo_late"}, R2.pc = R.pc,
         R2.p = R.p, NEW k \in Nat, k > 1, k = Len(R.pre), Len(R2.pre) = k - 1,
         \A i \in 1 .. k - 1 : R2.pre[i] = R.pre[i], ShapeOK(R), KeepsBefore(R)
  PROVE  GoesWell(R, R2, k, R.pre[k])
<1>1. /\ Len(Ops[R.p]) \in Nat /\ k \in 1 .. Len(Ops[R.p])
      /\ \A i \in 1 .. Len(Ops[R.p]) : Ops[R.p][i].before # R.p
  BY OpsFacts DEF ShapeOK
<1>2. \A i \in 1 .. k : R.pre[i] = Ops[R.p][i].before
  BY DEF KeepsBefore, Patching
<1>3. ShapeOK(R2) /\ KeepsBefore(R2)
  <2>1. Len(R2.pre) \in 1 .. Len(Ops[R2.p])
    BY <1>1
  <2>2. \A i \in 1 .. Len(R2.pre) : R2.pre[i] = Ops[R2.p][i].before
    BY <1>2
  <2>3. R2.pc \in {"undo", "undo_late"}
    OBVIOUS
  <2> QED
    BY <2>1, <2>2, <2>3 DEF ShapeOK, KeepsBefore
<1>4. \A i : Wrote(R, i) => Wrote(R2, i) \/ (i = k /\ R.pre[k] # R.p)
  BY <1>1, <1>2 DEF Wrote, Patching
<1>5. ASSUME NEW i \in 1 .. Len(Ops[R.p]), NEW x, NEW d, MidwayOK(R, i, x, d),
             NEW z, IF i = k THEN z = R.pre[k] ELSE z = x
      PROVE  MidwayOK(R2, i, z, d)
  BY <1>1, <1>5 DEF MidwayOK, Wrote, Patching, Restoring
<1> QED
  BY <1>3, <1>4, <1>5 DEF GoesWell

(* UndoFile puts back a content no unaccepted patch wrote; after the first  *)
(* file all files are as they were.                                        *)
LEMMA UndoStep ==
  ASSUME ReviewInv, NEW r \in Requests, UndoFile(r)
  PROVE  ReviewInv'
<1> PICK p, q, k : p = req[r].p /\ q = req[r].pre /\ k = Len(q)
  OBVIOUS
<1>1. /\ req[r].pc \in {"undo", "undo_late"} /\ OnFiles(r)
      /\ file' = [file EXCEPT ![Ops[req[r].p][k].file] = q[k]]
      /\ UNCHANGED <<status, patchVars, grantVars, lapsed, crashes, history>>
  BY DEF UndoFile, OnFiles, Patching
<1>2. /\ p \in Patches /\ q \in Seq(Contents) /\ k \in Nat /\ ProposalTypeOK
      /\ ShapeOK(req[r]) /\ KeepsBefore(req[r]) /\ req \in [Requests -> Request]
      /\ \A i \in 1 .. k : q[i] \in Contents /\ Sound(q[i])
      /\ \A i \in 1 .. Len(Ops[p]) : \A f \in Files : UndisturbedAt(r, i, f)
  BY <1>1, OnFilesFacts
<1>3. /\ k \in 1 .. Len(Ops[req[r].p]) /\ k \in 1 .. k
      /\ Len(Ops[p]) \in Nat
      /\ \A i \in 1 .. Len(Ops[p]) : Ops[p][i].file \in Files /\ Ops[p][i].before # p
      /\ \A i, j \in 1 .. Len(Ops[p]) : Ops[p][i].file = Ops[p][j].file => i = j
  BY <1>1, <1>2, OpsFacts DEF ShapeOK
<1>4. q[k] = Ops[p][k].before
  BY <1>1, <1>3, <1>2 DEF KeepsBefore, Patching
<1>5. CASE k = 1
  <2>1. Done(r)
    BY <1>5 DEF UndoFile
  <2>2. /\ req' \in [Requests -> Request]
        /\ UNCHANGED <<status, snap, saved, order, approval, grant, uses, lapsed, crashes,
                       decided, muddled, leaked>>
    BY <1>1, <1>2, <2>1, DoneFacts DEF patchVars, grantVars, history
  <2>3. /\ file \in [Files -> Contents] /\ file' \in [Files -> Contents]
        /\ file'[Ops[p][k].file] = q[k]
        /\ \A f \in Files : f # Ops[p][k].file => file'[f] = file[f]
    BY <1>1, <1>2, <1>3 DEF ProposalTypeOK
  <2>4. ProposalTypeOK'
    BY <1>2, <2>2, <2>3 DEF ProposalTypeOK
  <2>5. SavedOK'
    BY <2>2, SavedKept
  <2>6. \A i : Wrote(req[r], i) => i = k
    BY <1>5 DEF Wrote
  <2>7. ASSUME NEW i \in 1 .. Len(Ops[p]), Ops[p][i].file \notin muddled
        PROVE  file'[Ops[p][i].file] = decided[Ops[p][i].file]
    <3>1. MidwayOK(req[r], i, file[Ops[p][i].file], decided[Ops[p][i].file])
      BY <1>2, <1>3, <2>7 DEF UndisturbedAt
    <3>2. IF i = k THEN q[k] = decided[Ops[p][i].file]
                   ELSE file[Ops[p][i].file] = decided[Ops[p][i].file]
      BY <1>1, <1>3, <1>5, <3>1 DEF MidwayOK, Patching
    <3> QED
      BY <1>3, <2>3, <3>2
  <2>8. \A f \in Files : file'[f] = file[f] \/ (\A c : c = file'[f] => Sound(c)')
    BY <1>2, <1>3, <2>2, <2>3 DEF Sound
  <2>9. \A f \in Files \ FilesOf(p) : file'[f] = file[f]
    BY <1>2, <1>3, <2>3, FilesOfFacts
  <2>10. file'[Ops[p][k].file] # p
    BY <1>3, <1>4, <2>3
  <2> QED
    BY <1>1, <2>1, <2>2, <2>4, <2>5, <2>6, <2>7, <2>8, <2>9, <2>10, EndStep, Zenon DEF grantVars
<1>6. CASE k # 1
  <2>1. Goto(r, req[r].pc, SubSeq(q, 1, k - 1))
    BY <1>6 DEF UndoFile
  <2>2. PICK q2 : /\ q2 = SubSeq(q, 1, k - 1) /\ q2 \in Seq(Contents) /\ Len(q2) = k - 1
                  /\ \A i \in 1 .. k - 1 : q2[i] = q[i]
    <3>1. /\ SubSeq(q, 1, k - 1) \in Seq(Contents) /\ Len(SubSeq(q, 1, k - 1)) = k - 1
          /\ \A i \in 1 .. k - 1 : SubSeq(q, 1, k - 1)[i] = q[i]
      BY <1>2, <1>3, <1>6, SubSeqProperties
    <3> QED
      BY <3>1
  <2>3. Goto(r, req[r].pc, q2) /\ req[r].pc \in Patching \union Restoring
    BY <1>1, <2>1, <2>2 DEF Patching
  <2>4. /\ req' \in [Requests -> Request] /\ \A s \in Requests \ {r} : req'[s] = req[s]
        /\ req'[r].pc = req[r].pc /\ req'[r].p = req[r].p /\ req'[r].pre = q2
        /\ req'[r] # Idle
    BY <1>1, <1>2, <2>2, <2>3, GotoFacts, Zenon
  <2>5. GoesWell(req[r], req'[r], k, q[k])
    <3>1. k > 1
      <4>1. \A n \in Nat : n \in 1 .. n /\ n # 1 => n > 1
        OBVIOUS
      <4> QED
        BY <1>2, <1>3, <1>6, <4>1, Zenon
    <3>2. /\ Len(req'[r].pre) = k - 1
          /\ \A i \in 1 .. k - 1 : req'[r].pre[i] = req[r].pre[i]
      BY <2>2, <2>4
    <3> QED
      BY <1>1, <1>2, <2>4, <3>1, <3>2, UndoesOne
  <2>6. \A i \in 1 .. Len(req'[r].pre) : Sound(req'[r].pre[i])
    BY <1>2, <1>3, <2>2, <2>4
  <2>7. OnFiles(r)' /\ q[k] \in Contents /\ Sound(q[k])
    BY <1>1, <1>2, <1>3, <2>4 DEF OnFiles
  <2> QED
    BY <1>1, <1>3, <2>4, <2>5, <2>6, <2>7, GoesOn
<1> QED
  BY <1>5, <1>6

(* A repair that fails muddles the files, and may leave its content.        *)
LEMMA MuddleStep ==
  ASSUME ReviewInv, NEW r \in Requests, UndoFails(r) \/ RestoreFails(r)
  PROVE  ReviewInv'
<1>1. /\ OnFiles(r) /\ Done(r) /\ muddled' = muddled \union FilesOf(req[r].p)
      /\ UNCHANGED <<status, snap, saved, order, approval, grant, uses, lapsed, file, crashes,
                     decided>>
      /\ \/ leaked' = leaked \union {req[r].p}
         \/ leaked' = leaked /\ req[r].pc \in Restoring
  BY DEF UndoFails, RestoreFails, OnFiles, Patching, patchVars, grantVars
<1>2. /\ req[r].p \in Patches /\ req \in [Requests -> Request] /\ ProposalTypeOK
  BY <1>1, OnFilesFacts
<1>3. /\ \A i \in 1 .. Len(Ops[req[r].p]) : /\ Ops[req[r].p][i].file \in Files
                                            /\ Ops[req[r].p][i].file \in FilesOf(req[r].p)
      /\ FilesOf(req[r].p) \subseteq Files
  BY <1>2, OpsFacts, FilesOfFacts
<1>4. req' \in [Requests -> Request]
  BY <1>1, <1>2, DoneFacts
<1>5. ProposalTypeOK'
  BY <1>1, <1>2, <1>3, <1>4 DEF ProposalTypeOK
<1>6. leaked \subseteq leaked' /\ muddled \subseteq muddled'
  BY <1>1
<1>7. SavedOK'
  BY <1>1, <1>6, SavedKept
<1>8. \A i : Wrote(req[r], i) => req[r].p \in leaked'
  BY <1>1 DEF Wrote, Patching, Restoring
<1> QED
  BY <1>1, <1>3, <1>5, <1>6, <1>7, <1>8, EndStep DEF grantVars

(* Where a suffix of n of m contents stands.                               *)
LEMMA SuffixFacts ==
  ASSUME NEW m \in Nat, NEW n \in 1 .. m
  PROVE  /\ n \in Nat /\ m - n + 1 \in 1 .. m /\ m - n + 1 \in Nat /\ 1 \in 1 .. n
         /\ n # 1 => n - 1 \in 1 .. m
         /\ \A i \in 1 .. n - 1 : i + 1 \in 1 .. n /\ m - n + (i + 1) = m - (n - 1) + i
         /\ \A i \in 1 .. m : i <= m - (n - 1) => i = m - n + 1 \/ i <= m - n
OBVIOUS

(* Restoring one file, the next of the snapshot.                           *)
LEMMA RestoresOne ==
  ASSUME NEW R, NEW R2, R.p \in Patches, R.pc = "restore",
         NEW n \in Nat, n = Len(R.pre),
         R2.pc = IF n = 1 THEN "restored" ELSE "restore",
         R2.p = R.p, Len(R2.pre) = n - 1, n = 1 => R2.pre = <<>>,
         \A i \in 1 .. n - 1 : R2.pre[i] = R.pre[i + 1], ShapeOK(R), KeepsBefore(R),
         NEW m \in Nat, m = Len(Ops[R.p]), NEW k, k = m - n + 1
  PROVE  GoesWell(R, R2, k, R.pre[1])
<1>1. n \in 1 .. m
  BY DEF ShapeOK
<1>2. \A i \in 1 .. n : R.pre[i] = Ops[R.p][m - n + i].before
  BY DEF KeepsBefore
<1>3. ShapeOK(R2)
  <2>1. CASE n = 1
    BY <2>1 DEF ShapeOK
  <2>2. CASE n # 1
    <3>1. n - 1 \in 1 .. m
      BY <1>1, <2>2, SuffixFacts, Zenon
    <3>2. R2.pc = "restore"
      BY <2>2
    <3> QED
      BY <3>1, <3>2 DEF ShapeOK
  <2> QED
    BY <2>1, <2>2
<1>4. KeepsBefore(R2)
  <2>1. ASSUME NEW i \in 1 .. Len(R2.pre)
        PROVE  R2.pre[i] = Ops[R2.p][Len(Ops[R2.p]) - Len(R2.pre) + i].before
    <3>1. i \in 1 .. n - 1 /\ R2.pre[i] = R.pre[i + 1]
      BY <2>1
    <3>2. i + 1 \in 1 .. n /\ m - n + (i + 1) = m - (n - 1) + i
      BY <1>1, <3>1, SuffixFacts, Zenon
    <3>3. Ops[R.p][m - n + (i + 1)] = Ops[R2.p][Len(Ops[R2.p]) - Len(R2.pre) + i]
      BY <3>2, Zenon
    <3> QED
      BY <1>2, <3>1, <3>2, <3>3, Zenon
  <2>2. R2.pc \in {"restore", "restored"}
    OBVIOUS
  <2> QED
    BY <2>1, <2>2 DEF KeepsBefore, Patching
<1>5. R.pre[1] = Ops[R.p][k].before
  BY <1>1, <1>2, SuffixFacts, Zenon
<1>6. R2.pc \in Restoring /\ R2.pc \notin Patching /\ R.pc \notin Patching /\ R.pc \in Restoring
  BY DEF Patching, Restoring
<1>7. ASSUME NEW i \in 1 .. Len(Ops[R.p]), NEW x, NEW d, MidwayOK(R, i, x, d),
             NEW z, IF i = k THEN z = R.pre[1] ELSE z = x
      PROVE  MidwayOK(R2, i, z, d)
  <2>1. i <= Len(Ops[R2.p]) - Len(R2.pre) => i = k \/ i <= Len(Ops[R.p]) - Len(R.pre)
    BY <1>1, SuffixFacts, Zenon
  <2>2. i <= Len(Ops[R2.p]) - Len(R2.pre) => z = Ops[R.p][i].before
    BY <1>5, <1>6, <1>7, <2>1 DEF MidwayOK
  <2>3. R2.pc \notin {"read", "write", "marked"}
    OBVIOUS
  <2> QED
    BY <1>6, <2>2, <2>3 DEF MidwayOK
<1>8. \A i : ~Wrote(R, i)
  BY <1>6 DEF Wrote
<1>9. R.pc # "undo_late"
  OBVIOUS
<1> QED
  BY <1>3, <1>4, <1>5, <1>6, <1>7, <1>8, <1>9 DEF GoesWell

(* RestoreFile puts back the next content of the snapshot.                 *)
LEMMA RestoreStep ==
  ASSUME ReviewInv, NEW r \in Requests, RestoreFile(r)
  PROVE  ReviewInv'
<1> PICK p, q, m, n, k, c, q2 :
      /\ p = req[r].p /\ q = req[r].pre
      /\ m = Len(Ops[p]) /\ n = Len(q) /\ k = m - n + 1
      /\ c = IF n = 1 THEN "restored" ELSE "restore"
      /\ q2 = Tail(q)
  OBVIOUS
<1>1. /\ req[r].pc = "restore" /\ OnFiles(r) /\ c \in Patching \union Restoring
      /\ file' = [file EXCEPT ![Ops[req[r].p][k].file] = Head(q)]
      /\ Goto(r, c, q2)
      /\ UNCHANGED <<status, patchVars, grantVars, lapsed, crashes, history>>
  BY DEF RestoreFile, OnFiles, Restoring
<1>2. /\ p \in Patches /\ q \in Seq(Contents) /\ n \in Nat
      /\ ShapeOK(req[r]) /\ KeepsBefore(req[r]) /\ req \in [Requests -> Request]
      /\ \A i \in 1 .. n : q[i] \in Contents /\ Sound(q[i])
  BY <1>1, OnFilesFacts
<1>3. m \in Nat /\ n \in 1 .. m
  BY <1>1, <1>2, OpsFacts DEF ShapeOK
<1>4. k \in 1 .. m /\ 1 \in 1 .. n
  BY <1>3, SuffixFacts, Zenon
<1>5. /\ q2 \in Seq(Contents) /\ Len(q2) = n - 1
      /\ \A i \in 1 .. n - 1 : q2[i] = q[i + 1]
  BY <1>2, <1>4, HeadTailProperties, EmptySeq
<1>6. Head(q) = q[1]
  BY <1>2, <1>4
<1>7. /\ req' \in [Requests -> Request] /\ \A s \in Requests \ {r} : req'[s] = req[s]
      /\ req'[r].pc = c /\ req'[r].p = req[r].p /\ req'[r].pre = q2
      /\ req'[r] # Idle
  BY <1>1, <1>2, <1>5, GotoFacts, Zenon
<1>8. n = 1 => req'[r].pre = <<>>
  BY <1>5, <1>7, EmptySeq
<1>9. Len(req'[r].pre) = n - 1
  BY <1>5, <1>7
<1>10. \A i \in 1 .. n - 1 : req'[r].pre[i] = req[r].pre[i + 1]
  BY <1>5, <1>7
<1>11. GoesWell(req[r], req'[r], k, q[1])
  BY <1>1, <1>2, <1>3, <1>7, <1>8, <1>9, <1>10, RestoresOne
<1>12. \A i \in 1 .. Len(req'[r].pre) : Sound(req'[r].pre[i])
  BY <1>2, <1>3, <1>5, <1>7
<1>13. OnFiles(r)' /\ q[1] \in Contents /\ Sound(q[1]) /\ k \in 1 .. Len(Ops[req[r].p])
  BY <1>1, <1>2, <1>4, <1>7 DEF OnFiles
<1> QED
  BY <1>1, <1>6, <1>7, <1>11, <1>12, <1>13, GoesOn

(* Pruning snapshots makes none available.                                  *)
LEMMA PrunedFacts ==
  ASSUME NEW o, NEW sn \in [Patches -> {"none", "available", "rolled_back", "pruned"}]
  PROVE  /\ Pruned(sn, o) \in [Patches -> {"none", "available", "rolled_back", "pruned"}]
         /\ \A p \in Patches : Pruned(sn, o)[p] = "available" => sn[p] = "available"
BY DEF Pruned

(* COMMIT of an accept: the row is still pending, so the patch is accepted, *)
(* its files are decided and its snapshot is what it was made on.           *)
LEMMA RecordFacts ==
  ASSUME ReviewInv, NEW r \in Requests, req[r].pc = "marked",
         RecordAccept(req[r].p, req[r].pre),
         req' \in [Requests -> Request], muddled' \subseteq Files,
         UNCHANGED <<approval, grant, uses, lapsed, file, crashes, leaked>>
  PROVE  /\ ProposalTypeOK' /\ SavedOK'
         /\ status'[req[r].p] = "accepted"
         /\ \A x \in Proposals :
              \/ status'[x] = status[x]
              \/ Holds(r, x) /\ status[x] = "pending" /\ status'[x] = "accepted"
         /\ \A f \in Files :
              decided'[f] = IF f \in FilesOf(req[r].p) THEN req[r].p ELSE decided[f]
         /\ \A c : Sound(c) => Sound(c)'
<1> PICK p, q : p = req[r].p /\ q = req[r].pre
  OBVIOUS
<1>1. /\ req[r].pc = "marked" /\ OnFiles(r)
      /\ status' = [status EXCEPT ![p] = IF @ = "pending" THEN "accepted" ELSE @]
      /\ saved' = [saved EXCEPT ![p] = q]
      /\ order' = Append(order, p)
      /\ snap' = Pruned([snap EXCEPT ![p] = "available"], Append(order, p))
      /\ decided' = [f \in Files |-> IF f \in FilesOf(p) THEN p ELSE decided[f]]
      /\ UNCHANGED <<approval, grant, uses, lapsed, file, crashes, leaked>>
  BY DEF RecordAccept, OnFiles, Patching
<1>2. /\ p \in Patches /\ q \in Seq(Contents) /\ ProposalTypeOK
      /\ ShapeOK(req[r]) /\ KeepsBefore(req[r]) /\ req \in [Requests -> Request]
      /\ \A i \in 1 .. Len(q) : Sound(q[i])
  BY <1>1, OnFilesFacts
<1>3. /\ Len(q) = Len(Ops[p])
      /\ \A i \in 1 .. Len(Ops[p]) : q[i] = Ops[p][i].before
  BY <1>1, <1>2 DEF ShapeOK, KeepsBefore, Patching
<1>4. /\ p \in Proposals /\ p \in Contents /\ Patches \subseteq Proposals
      /\ Patches \subseteq Contents
  BY <1>2 DEF Proposals, Contents
<1>5. status[p] = "pending" /\ Holds(r, p)
  BY <1>1, <1>2, <1>4 DEF ReviewInv, LocksOK, Holds, Patching, Idle
<1>6. /\ status' \in [Proposals -> {"none", "pending", "accepted", "rejected"}]
      /\ status'[p] = "accepted"
      /\ \A x \in Proposals : x # p => status'[x] = status[x]
  BY <1>1, <1>2, <1>4, <1>5 DEF ProposalTypeOK
<1>7. [snap EXCEPT ![p] = "available"]
        \in [Patches -> {"none", "available", "rolled_back", "pruned"}]
  BY <1>2 DEF ProposalTypeOK
<1>8. /\ snap' \in [Patches -> {"none", "available", "rolled_back", "pruned"}]
      /\ \A x \in Patches : snap'[x] = "available" => x = p \/ snap[x] = "available"
  <2> PICK sn : sn = [snap EXCEPT ![p] = "available"]
    OBVIOUS
  <2>1. \A x \in Patches : sn[x] = "available" => x = p \/ snap[x] = "available"
    BY <1>2 DEF ProposalTypeOK
  <2>2. /\ Pruned(sn, Append(order, p))
             \in [Patches -> {"none", "available", "rolled_back", "pruned"}]
        /\ \A x \in Patches :
             Pruned(sn, Append(order, p))[x] = "available" => sn[x] = "available"
    BY <1>7, PrunedFacts, Zenon
  <2>3. snap' = Pruned(sn, Append(order, p))
    BY <1>1
  <2> QED
    BY <2>1, <2>2, <2>3
<1>9. /\ saved' \in [Patches -> Seq(Contents)] /\ saved'[p] = q
       /\ \A x \in Patches : x # p => saved'[x] = saved[x]
  BY <1>1, <1>2 DEF ProposalTypeOK
<1>10. order' \in Seq(Patches)
  BY <1>1, <1>2, AppendProperties DEF ProposalTypeOK
<1>11. /\ decided' \in [Files -> Contents]
       /\ \A f \in Files : decided'[f] = IF f \in FilesOf(p) THEN p ELSE decided[f]
  BY <1>1, <1>2, <1>4 DEF ProposalTypeOK
<1>12. ProposalTypeOK'
  <2>1. /\ approval' = approval /\ grant' = grant /\ uses' = uses /\ lapsed' = lapsed
        /\ file' = file /\ crashes' = crashes /\ leaked' = leaked
        /\ req' \in [Requests -> Request] /\ muddled' \subseteq Files
    BY <1>1
  <2> QED
    BY <1>2, <1>6, <1>8, <1>9, <1>10, <1>11, <2>1 DEF ProposalTypeOK
<1>13. \A c : Sound(c) => Sound(c)'
  BY <1>1, <1>4, <1>6 DEF Sound
<1>14. SavedOK'
  <2>1. ASSUME NEW x \in Patches, snap'[x] = "available", NEW i \in 1 .. Len(Ops[x]), NEW c,
               c = saved'[x][i]
        PROVE  Len(saved'[x]) = Len(Ops[x]) /\ c = Ops[x][i].before /\ Sound(c)
    <3>1. CASE x = p
      BY <1>2, <1>3, <1>9, <2>1, <3>1
    <3>2. CASE x # p
      BY <1>8, <1>9, <2>1, <3>2 DEF ReviewInv, SavedOK
    <3> QED
      BY <3>1, <3>2
  <2>2. ASSUME NEW x \in Patches, snap'[x] = "available"
        PROVE  Len(saved'[x]) = Len(Ops[x])
    BY <1>3, <1>8, <1>9, <2>2 DEF ReviewInv, SavedOK
  <2>3. ASSUME NEW x \in Patches, snap'[x] = "available", NEW i \in 1 .. Len(Ops[x])
        PROVE  saved'[x][i] = Ops[x][i].before /\ Sound(saved[x][i])'
    BY <1>13, <2>1, <2>3
  <2> QED
    BY <2>2, <2>3 DEF SavedOK
<1>15. \A x \in Proposals :
         \/ status'[x] = status[x]
         \/ Holds(r, x) /\ status[x] = "pending" /\ status'[x] = "accepted"
  BY <1>5, <1>6
<1> QED
  BY <1>6, <1>11, <1>12, <1>13, <1>14, <1>15

(* Its reply arrives: the files hold what they are decided to hold.         *)
LEMMA CommitAcceptStep ==
  ASSUME ReviewInv, NEW r \in Requests, CommitAccept(r)
  PROVE  ReviewInv'
<1> PICK p : p = req[r].p
  OBVIOUS
<1>1. /\ req[r].pc = "marked" /\ OnFiles(r) /\ Done(r)
      /\ RecordAccept(req[r].p, req[r].pre)
      /\ UNCHANGED <<approval, grant, uses, lapsed, file, crashes, muddled, leaked>>
  BY DEF CommitAccept, OnFiles, Patching, grantVars
<1>2. /\ p \in Patches /\ ProposalTypeOK /\ ShapeOK(req[r])
      /\ req \in [Requests -> Request]
      /\ \A i \in 1 .. Len(Ops[p]) : \A f \in Files : UndisturbedAt(r, i, f)
  BY <1>1, OnFilesFacts
<1>3. \A i \in 1 .. Len(Ops[p]) : /\ Ops[p][i].file \in Files
                                  /\ Ops[p][i].file \in FilesOf(p)
                                  /\ Wrote(req[r], i)
  BY <1>1, <1>2, OpsFacts, FilesOfFacts DEF ShapeOK, Patching, Wrote
<1>4. req' \in [Requests -> Request] /\ muddled' \subseteq Files
  BY <1>1, <1>2, DoneFacts DEF ProposalTypeOK
<1>5. /\ ProposalTypeOK' /\ SavedOK' /\ status'[p] = "accepted"
      /\ \A x \in Proposals :
           \/ status'[x] = status[x]
           \/ Holds(r, x) /\ status[x] = "pending" /\ status'[x] = "accepted"
      /\ \A f \in Files : decided'[f] = IF f \in FilesOf(p) THEN p ELSE decided[f]
  BY <1>1, <1>4, RecordFacts
<1>6. ASSUME NEW i \in 1 .. Len(Ops[p]), Ops[p][i].file \notin muddled
      PROVE  file[Ops[p][i].file] = decided'[Ops[p][i].file]
  <2>1. MidwayOK(req[r], i, file[Ops[p][i].file], decided[Ops[p][i].file])
    BY <1>2, <1>3, <1>6 DEF UndisturbedAt
  <2> QED
    BY <1>1, <1>3, <1>5, <2>1 DEF MidwayOK
<1> QED
  BY <1>1, <1>5, <1>6, EndStep DEF grantVars

(* Its reply is lost: the patch is accepted, its files are to be put back,  *)
(* and muddled.                                                            *)
LEMMA ReplyLostStep ==
  ASSUME ReviewInv, NEW r \in Requests, CommitReplyLost(r)
  PROVE  ReviewInv'
<1> PICK p, q : p = req[r].p /\ q = req[r].pre
  OBVIOUS
<1>1. /\ req[r].pc = "marked" /\ OnFiles(r) /\ Goto(r, "undo_late", q)
      /\ RecordAccept(req[r].p, req[r].pre)
      /\ muddled' = muddled \union FilesOf(p)
      /\ UNCHANGED <<approval, grant, uses, lapsed, file, crashes, leaked>>
  BY DEF CommitReplyLost, OnFiles, Patching, grantVars
<1>2. /\ p \in Patches /\ q \in Seq(Contents) /\ ProposalTypeOK
      /\ ShapeOK(req[r]) /\ KeepsBefore(req[r]) /\ req \in [Requests -> Request]
      /\ \A i \in 1 .. Len(q) : Sound(q[i])
  BY <1>1, OnFilesFacts
<1>3. /\ Len(Ops[p]) \in Nat \ {0} /\ Len(q) = Len(Ops[p])
      /\ FilesOf(p) \subseteq Files
      /\ \A i \in 1 .. Len(Ops[p]) : Ops[p][i].file \in FilesOf(p)
  BY <1>1, <1>2, OpsFacts, FilesOfFacts DEF ShapeOK
<1>4. /\ req' \in [Requests -> Request] /\ \A s \in Requests \ {r} : req'[s] = req[s]
      /\ req'[r].pc = "undo_late" /\ req'[r].p = p /\ req'[r].pre = q /\ req'[r] # Idle
  <2>1. "undo_late" \in Patching \union Restoring
    BY DEF Patching
  <2> QED
    BY <1>1, <1>2, <2>1, GotoFacts, Zenon
<1>5. muddled' \subseteq Files
  BY <1>1, <1>2, <1>3 DEF ProposalTypeOK
<1>6. /\ ProposalTypeOK' /\ SavedOK' /\ status'[p] = "accepted"
      /\ \A x \in Proposals :
           \/ status'[x] = status[x]
           \/ Holds(r, x) /\ status[x] = "pending" /\ status'[x] = "accepted"
      /\ \A f \in Files : decided'[f] = IF f \in FilesOf(p) THEN p ELSE decided[f]
      /\ \A c : Sound(c) => Sound(c)'
  BY <1>1, <1>4, <1>5, RecordFacts
<1>7. OnFiles(r)'
  BY <1>4 DEF OnFiles, Patching
<1>8. FileMove(r)
  BY <1>1, <1>4, <1>6, <1>7 DEF FileMove, grantVars
<1>9. RequestOK(r)'
  <2>1. ShapeOK(req'[r]) /\ KeepsBefore(req'[r])
    BY <1>1, <1>2, <1>3, <1>4 DEF ShapeOK, KeepsBefore, Patching
  <2>2. \A i \in 1 .. Len(q) : Sound(q[i])'
    <3> SUFFICES ASSUME NEW i \in 1 .. Len(q), NEW c, c = q[i] PROVE Sound(c)'
      BY <1>4
    <3> QED
      BY <1>2, <1>6
  <2> QED
    BY <1>4, <2>1, <2>2 DEF RequestOK
<1>10. UndisturbedOK(r)'
  BY <1>1, <1>3, <1>4 DEF UndisturbedOK, UndisturbedAt
<1>11. \A i \in 1 .. Len(Ops[p]) : Wrote(req'[r], i)
  BY <1>3, <1>4 DEF Wrote, Patching
<1> QED
  BY <1>1, <1>4, <1>6, <1>8, <1>9, <1>10, <1>11, FileMoveStep

(* COMMIT of a rollback: the files hold what the patch was made on.         *)
LEMMA CommitRollbackStep ==
  ASSUME ReviewInv, NEW r \in Requests, CommitRollback(r)
  PROVE  ReviewInv'
<1> PICK p : p = req[r].p
  OBVIOUS
<1>1. /\ req[r].pc = "restored" /\ OnFiles(r) /\ Done(r)
      /\ snap' = [snap EXCEPT ![p] = IF @ = "available" THEN "rolled_back" ELSE @]
      /\ decided' = [f \in Files |->
           IF \E i \in DOMAIN Ops[p] : Ops[p][i].file = f
           THEN Ops[p][CHOOSE i \in DOMAIN Ops[p] : Ops[p][i].file = f].before
           ELSE decided[f]]
      /\ UNCHANGED <<status, saved, order, approval, grant, uses, lapsed, file, crashes,
                     muddled, leaked>>
  BY DEF CommitRollback, OnFiles, Restoring, grantVars
<1>2. /\ p \in Patches /\ ProposalTypeOK /\ req[r].pre = <<>>
      /\ req \in [Requests -> Request]
      /\ \A i \in 1 .. Len(Ops[p]) : \A f \in Files : UndisturbedAt(r, i, f)
  BY <1>1, OnFilesFacts DEF ShapeOK
<1>3. /\ Len(Ops[p]) \in Nat /\ DOMAIN Ops[p] = 1 .. Len(Ops[p]) /\ Len(req[r].pre) = 0
      /\ \A i \in 1 .. Len(Ops[p]) : Ops[p][i].file \in Files /\ Ops[p][i].before \in Contents
      /\ \A i, j \in 1 .. Len(Ops[p]) : Ops[p][i].file = Ops[p][j].file => i = j
  BY <1>2, OpsFacts
<1>4. \A i \in 1 .. Len(Ops[p]) :
        (CHOOSE j \in DOMAIN Ops[p] : Ops[p][j].file = Ops[p][i].file) = i
  BY <1>3
<1>5. \A i \in 1 .. Len(Ops[p]) : decided'[Ops[p][i].file] = Ops[p][i].before
  BY <1>1, <1>3, <1>4, Zenon
<1>6. \A f \in Files \ FilesOf(p) : decided'[f] = decided[f]
  BY <1>1 DEF FilesOf
<1>7. decided' \in [Files -> Contents]
  <2>1. ASSUME NEW f \in Files PROVE decided'[f] \in Contents
    <3>1. CASE f \in FilesOf(p)
      BY <1>2, <1>3, <1>5, <3>1, FilesOfFacts
    <3>2. CASE f \notin FilesOf(p)
      BY <1>2, <1>6, <3>2 DEF ProposalTypeOK
    <3> QED
      BY <3>1, <3>2
  <2>2. decided' = [f \in Files |-> decided'[f]]
    BY <1>1
  <2> QED
    BY <2>1, <2>2
<1>8. /\ snap' \in [Patches -> {"none", "available", "rolled_back", "pruned"}]
      /\ \A x \in Patches : snap'[x] = "available" => snap[x] = "available"
  BY <1>1, <1>2 DEF ProposalTypeOK
<1>9. req' \in [Requests -> Request]
  BY <1>1, <1>2, DoneFacts
<1>10. ProposalTypeOK'
  BY <1>1, <1>2, <1>7, <1>8, <1>9 DEF ProposalTypeOK
<1>11. SavedOK'
  BY <1>1, <1>8 DEF ReviewInv, SavedOK, Sound
<1>12. ASSUME NEW i \in 1 .. Len(Ops[p]), Ops[p][i].file \notin muddled
       PROVE  file[Ops[p][i].file] = Ops[p][i].before
  <2>1. MidwayOK(req[r], i, file[Ops[p][i].file], decided[Ops[p][i].file])
    BY <1>2, <1>3, <1>12 DEF UndisturbedAt
  <2>2. i <= Len(Ops[p]) - Len(req[r].pre)
    BY <1>3
  <2> QED
    BY <1>1, <2>1, <2>2 DEF MidwayOK, Restoring
<1>13. \A i : ~Wrote(req[r], i)
  BY <1>1 DEF Wrote, Patching
<1>14. \A i \in 1 .. Len(Ops[req[r].p]) : Ops[req[r].p][i].file \notin muddled' =>
         file'[Ops[req[r].p][i].file] = decided'[Ops[req[r].p][i].file]
  BY <1>1, <1>5, <1>12, Zenon
<1>15. /\ OnFiles(r) /\ Done(r) /\ UNCHANGED <<status, file, muddled, leaked>>
       /\ UNCHANGED grantVars
       /\ \A f \in Files \ FilesOf(req[r].p) : decided'[f] = decided[f]
  BY <1>1, <1>6 DEF grantVars
<1> QED
  BY <1>10, <1>11, <1>13, <1>14, <1>15, EndStep

-----------------------------------------------------------------------------
(* A request starts with nothing done to its files.                        *)
LEMMA Starts ==
  ASSUME NEW R, R.p \in Patches,
         \/ R.pc = "read" /\ R.pre = <<>>
         \/ /\ R.pc = "restore" /\ Len(R.pre) = Len(Ops[R.p])
            /\ \A i \in 1 .. Len(Ops[R.p]) : R.pre[i] = Ops[R.p][i].before
  PROVE  /\ ShapeOK(R) /\ KeepsBefore(R)
         /\ \A i \in 1 .. Len(Ops[R.p]) : \A x : MidwayOK(R, i, x, x)
<1> PICK m : m = Len(Ops[R.p])
  OBVIOUS
<1>1. m \in Nat /\ m > 0
  BY OpsFacts
<1>2. CASE R.pc = "read" /\ R.pre = <<>>
  <2>1. Len(R.pre) = 0
    BY <1>2
  <2>2. ShapeOK(R) /\ KeepsBefore(R)
    BY <1>1, <1>2, <2>1 DEF ShapeOK, KeepsBefore
  <2>3. ASSUME NEW i \in 1 .. m, NEW x PROVE MidwayOK(R, i, x, x)
    BY <1>1, <1>2, <2>1 DEF MidwayOK, Wrote, Restoring
  <2> QED
    BY <2>2, <2>3
<1>3. CASE /\ R.pc = "restore" /\ Len(R.pre) = m
           /\ \A i \in 1 .. m : R.pre[i] = Ops[R.p][i].before
  <2>1. ShapeOK(R)
    BY <1>1, <1>3 DEF ShapeOK
  <2>2. \A i \in 1 .. m : i = m - m + i
    BY <1>1
  <2>3. \A i \in 1 .. m : Ops[R.p][Len(Ops[R.p]) - Len(R.pre) + i] = Ops[R.p][i]
    BY <1>3, <2>2, Zenon
  <2>4. KeepsBefore(R)
    BY <1>3, <2>3 DEF KeepsBefore, Patching
  <2>5. ASSUME NEW i \in 1 .. m, NEW x PROVE MidwayOK(R, i, x, x)
    <3>1. ~(i <= m - m)
      BY <1>1
    <3> QED
      BY <1>3, <3>1 DEF MidwayOK, Patching
  <2> QED
    BY <2>1, <2>4, <2>5
<1> QED
  BY <1>2, <1>3

(* An accept or rollback begins with files as they are decided; those of a  *)
(* patch another request works on are muddled from there.                  *)
LEMMA BeginStep ==
  ASSUME ReviewInv, NEW r \in Requests, NEW p \in Patches,
         BeginAccept(r, p) \/ BeginRollback(r, p)
  PROVE  ReviewInv'
<1> PICK c, q : \/ c = "read" /\ q = <<>> /\ BeginAccept(r, p)
                \/ c = "restore" /\ q = saved[p] /\ BeginRollback(r, p)
  OBVIOUS
<1>1. /\ req[r] = Idle /\ ~Locked(p)
      /\ req' = [req EXCEPT ![r] = [pc |-> c, p |-> p, pre |-> q]]
      /\ muddled' = muddled \union
           {f \in FilesOf(p) : \E s \in Requests : OnFiles(s) /\ f \in FilesOf(req[s].p)}
      /\ UNCHANGED <<status, snap, saved, order, approval, grant, uses, lapsed, file, crashes,
                     decided, leaked>>
  BY DEF BeginAccept, BeginRollback, Begin, patchVars, grantVars
<1>2. /\ ProposalTypeOK /\ req \in [Requests -> Request]
      /\ \A i \in 1 .. Len(Ops[p]) : Ops[p][i].file \in Files
      /\ FilesOf(p) \subseteq Files /\ p \in Proposals
  <2>1. ProposalTypeOK /\ req \in [Requests -> Request]
    BY DEF ReviewInv, ProposalTypeOK
  <2>2. \A i \in 1 .. Len(Ops[p]) : Ops[p][i].file \in Files
    BY OpsFacts
  <2> QED
    BY <2>1, <2>2, FilesOfFacts DEF Proposals
<1>3. /\ c = "read" => q = <<>> /\ status[p] = "pending"
      /\ c = "restore" => q = saved[p] /\ snap[p] = "available"
      /\ c \in {"read", "restore"}
      /\ q \in Seq(Contents)
  <2>1. saved[p] \in Seq(Contents) /\ <<>> \in Seq(Contents)
    BY <1>2, EmptySeq DEF ProposalTypeOK
  <2>2. /\ BeginAccept(r, p) => status[p] = "pending"
        /\ BeginRollback(r, p) => snap[p] = "available"
    BY DEF BeginAccept, BeginRollback
  <2> QED
    BY <2>1, <2>2
<1>4. /\ [pc |-> c, p |-> p, pre |-> q] \in Request
      /\ [pc |-> c, p |-> p, pre |-> q] # Idle
  BY <1>3 DEF Request, Idle, Patching, Restoring
<1>5. /\ req' \in [Requests -> Request] /\ \A s \in Requests \ {r} : req'[s] = req[s]
      /\ req'[r] = [pc |-> c, p |-> p, pre |-> q]
  BY <1>1, <1>2, <1>4
<1>6. /\ req'[r].pc = c /\ req'[r].p = p /\ req'[r].pre = q /\ req'[r] # Idle
      /\ OnFiles(r)' /\ ~OnFiles(r) /\ ~Consumed(r) /\ ~Consumed(r)'
      /\ req[r].pc \notin Patching
  BY <1>1, <1>3, <1>4, <1>5 DEF OnFiles, Consumed, Idle, Patching, Restoring
<1>7. ProposalTypeOK'
  BY <1>1, <1>2, <1>5 DEF ProposalTypeOK
<1>8. LocksOK'
  <2>1. \A s \in Requests : \A x \in Proposals :
          Holds(s, x)' => Holds(s, x) \/ (s = r /\ x = p)
    BY <1>5, <1>6 DEF Holds
  <2>2. \A s, t \in Requests : \A x \in Proposals : Holds(s, x)' /\ Holds(t, x)' => s = t
    BY <1>1, <2>1 DEF ReviewInv, LocksOK, Locked
  <2>3. ASSUME NEW s \in Requests, Consumed(s)' \/ req'[s].pc \in Patching \ {"undo_late"}
        PROVE  status[req'[s].p] = "pending"
    <3>1. CASE s = r
      BY <1>3, <1>6, <2>3, <3>1 DEF Patching
    <3>2. CASE s # r
      BY <1>5, <2>3, <3>2 DEF ReviewInv, LocksOK, Consumed
    <3> QED
      BY <3>1, <3>2
  <2>4. \A s \in Requests : Consumed(s)' => Consumed(s) /\ req'[s] = req[s]
    BY <1>5, <1>6 DEF Consumed
  <2> QED
    BY <1>1, <2>2, <2>3, <2>4 DEF ReviewInv, LocksOK
<1>9. ApprovalsStand' /\ GrantsCountTheirUses' /\ SavedOK'
  BY <1>1 DEF ReviewInv, ApprovalsStand, GrantsCountTheirUses, SavedOK, Sound
<1>10. /\ ShapeOK(req'[r]) /\ KeepsBefore(req'[r])
       /\ \A i \in 1 .. Len(Ops[p]) : \A x : MidwayOK(req'[r], i, x, x)
  BY <1>3, <1>6, Starts DEF ReviewInv, SavedOK
<1>11. RequestsOK'
  <2>1. \A i \in 1 .. Len(q) : Sound(q[i])
    BY <1>3 DEF ReviewInv, SavedOK
  <2>2. \A i \in 1 .. Len(req'[r].pre) : Sound(req[r].pre[i])'
    BY <1>1, <1>6, <2>1 DEF Sound
  <2>3. RequestOK(r)'
    BY <1>10, <2>2 DEF RequestOK
  <2>4. ASSUME NEW s \in Requests \ {r} PROVE RequestOK(s)'
    <3>1. RequestOK(s) /\ req'[s] = req[s]
      BY <1>5 DEF ReviewInv, RequestsOK
    <3> QED
      BY <1>1, <3>1 DEF RequestOK, OnFiles, Sound
  <2> QED
    BY <2>3, <2>4 DEF RequestsOK
<1>12. UnfinishedIsOwned'
  <2>1. \A s \in Requests : \A i : Wrote(req[s], i) => req'[s] = req[s]
    BY <1>5, <1>6 DEF Wrote
  <2> QED
    BY <1>1, <2>1 DEF ReviewInv, UnfinishedIsOwned
<1>13. \A s \in Requests \ {r} : OnFiles(s)' => OnFiles(s) /\ req'[s] = req[s]
  BY <1>5 DEF OnFiles
<1>14. OneAtATime'
  BY <1>1, <1>6, <1>13 DEF ReviewInv, OneAtATime
<1>15. MuddleFree'
  <2>1. ASSUME NEW i \in 1 .. Len(Ops[p]), NEW f \in Files, Ops[p][i].file = f, f \notin muddled'
        PROVE  MidwayOK(req'[r], i, file[f], decided[f])
    <3>1. f \in FilesOf(p)
      BY <2>1, FilesOfFacts
    <3>2. file[f] = decided[f]
      BY <1>1, <2>1, <3>1 DEF ReviewInv, FilesFollowTheDecisions
    <3> QED
      BY <1>10, <3>2
  <2>2. UndisturbedOK(r)'
    BY <1>1, <1>6, <2>1 DEF UndisturbedOK, UndisturbedAt
  <2>3. ASSUME NEW s \in Requests \ {r} PROVE UndisturbedOK(s)'
    BY <1>1, <1>13 DEF ReviewInv, MuddleFree, UndisturbedOK, UndisturbedAt
  <2> QED
    BY <2>2, <2>3 DEF MuddleFree
<1>16. FilesFollowTheDecisions'
  BY <1>1, <1>5, <1>6 DEF ReviewInv, FilesFollowTheDecisions, OnFiles
<1> QED
  BY <1>7, <1>8, <1>9, <1>11, <1>12, <1>14, <1>15, <1>16 DEF ReviewInv

-----------------------------------------------------------------------------
(* What a transaction on rows alone leaves of the files.                    *)
LEMMA FilesKept ==
  ASSUME ReviewInv,
         \A s \in Requests : OnFiles(s)' <=> OnFiles(s),
         \A s \in Requests : OnFiles(s) => req'[s] = req[s],
         UNCHANGED <<snap, saved, file, decided, muddled, leaked>>,
         \A x \in Proposals : status[x] = "accepted" => status'[x] = "accepted"
  PROVE  /\ SavedOK' /\ RequestsOK' /\ UnfinishedIsOwned'
         /\ OneAtATime' /\ MuddleFree' /\ FilesFollowTheDecisions'
<1>1. SavedOK'
  BY SavedKept
<1>2. RequestsOK'
  <2>1. ASSUME NEW s \in Requests, OnFiles(s) PROVE RequestOK(s)'
    <3>1. /\ ShapeOK(req'[s]) /\ KeepsBefore(req'[s])
          /\ \A i \in 1 .. Len(req'[s].pre) : Sound(req'[s].pre[i])
      BY <2>1 DEF ReviewInv, RequestsOK, RequestOK
    <3>2. \A i \in 1 .. Len(req'[s].pre) : Sound(req[s].pre[i])'
      BY <3>1 DEF Sound, Proposals
    <3> QED
      BY <3>1, <3>2 DEF RequestOK
  <2> QED
    BY <2>1 DEF RequestsOK, RequestOK
<1>3. UnfinishedIsOwned'
  <2>1. \A s \in Requests : \A i : Wrote(req[s], i) => req'[s] = req[s]
    BY DEF Wrote, OnFiles
  <2>2. \A p \in Patches : status'[p] # "accepted" => status[p] # "accepted"
    BY DEF Proposals
  <2> SUFFICES ASSUME NEW p \in Patches \ leaked, status'[p] # "accepted",
                      NEW f \in Files, file[f] = p
               PROVE  \E s \in Requests : \E i \in 1 .. Len(Ops[p]) :
                        Wrote(req'[s], i) /\ req'[s].p = p /\ Ops[p][i].file = f
    BY DEF UnfinishedIsOwned
  <2>3. PICK s \in Requests, i \in 1 .. Len(Ops[p]) :
               Wrote(req[s], i) /\ req[s].p = p /\ Ops[p][i].file = f
    BY <2>2 DEF ReviewInv, UnfinishedIsOwned
  <2> QED
    BY <2>1, <2>3
<1>4. OneAtATime' /\ FilesFollowTheDecisions'
  BY DEF ReviewInv, OneAtATime, FilesFollowTheDecisions
<1>5. MuddleFree'
  BY DEF ReviewInv, MuddleFree, UndisturbedOK, UndisturbedAt
<1> QED
  BY <1>1, <1>2, <1>3, <1>4, <1>5

(* A decision on rows alone waits for the request that holds the proposal,  *)
(* and no grant has approved what it decides.                              *)
LEMMA DecideStep ==
  ASSUME ReviewInv, NEW p \in Proposals, NEW v \in {"rejected", "accepted"}, Decide(p, v)
  PROVE  ReviewInv'
<1>1. /\ ~Locked(p) /\ status[p] = "pending" /\ status' = [status EXCEPT ![p] = v]
      /\ UNCHANGED <<snap, saved, order, approval, grant, uses, lapsed, file, req, crashes,
                     decided, muddled, leaked>>
  BY DEF Decide, patchVars, grantVars, history
<1>2. ProposalTypeOK /\ LocksOK /\ ApprovalsStand /\ GrantsCountTheirUses
  BY DEF ReviewInv
<1>3. /\ status' \in [Proposals -> {"none", "pending", "accepted", "rejected"}]
      /\ status'[p] = v /\ \A x \in Proposals : x # p => status'[x] = status[x]
  BY <1>1, <1>2 DEF ProposalTypeOK
<1>4. ProposalTypeOK'
  BY <1>1, <1>2, <1>3 DEF ProposalTypeOK
<1>5. LocksOK'
  <2>1. ASSUME NEW s \in Requests, Consumed(s) \/ req[s].pc \in Patching \ {"undo_late"}
        PROVE  status'[req[s].p] = "pending"
    <3>1. req[s] \in Request /\ status[req[s].p] = "pending"
      BY <1>2, <2>1 DEF ProposalTypeOK, LocksOK
    <3>2. req[s].p \in Proposals /\ Holds(s, req[s].p)
      BY <2>1, <3>1, RequestFacts DEF Holds, Proposals, Consumed, Patching, Idle
    <3> QED
      BY <1>1, <1>3, <3>1, <3>2 DEF Locked
  <2> QED
    BY <1>1, <1>2, <2>1 DEF LocksOK, Consumed, Holds
<1>6. ApprovalsStand' /\ (p \in Actions => approval[p] = NoGrant)
  BY <1>1, <1>2, <1>3 DEF ApprovalsStand, Proposals
<1>7. GrantsCountTheirUses'
  <2>1. ASSUME NEW g \in Grants
        PROVE  {a \in Actions : approval[a] = g /\ status'[a] = "accepted"}
                 = {a \in Actions : approval[a] = g /\ status[a] = "accepted"}
    BY <1>3, <1>6, GrantsAssumption DEF Proposals
  <2> QED
    BY <1>1, <1>2, <2>1 DEF GrantsCountTheirUses
<1>8. \A x \in Proposals : status[x] = "accepted" => status'[x] = "accepted"
  BY <1>1, <1>3
<1> QED
  BY <1>1, <1>4, <1>5, <1>6, <1>7, <1>8, FilesKept DEF ReviewInv, OnFiles

(* consumeMatching takes a grant nobody else holds and that has a use left. *)
LEMMA ConsumeStep ==
  ASSUME ReviewInv, NEW r \in Requests, NEW a \in Actions, NEW g \in Grants,
         ConsumeMatching(r, a, g)
  PROVE  ReviewInv'
<1>1. /\ req[r] = Idle /\ ~Locked(a) /\ status[a] = "pending"
      /\ grant[g] = "active" /\ uses[g] < MaxUses[g] /\ ~GrantLocked(g)
      /\ req' = [req EXCEPT ![r] = [pc |-> "consumed", p |-> a, g |-> g]]
      /\ UNCHANGED <<status, snap, saved, order, approval, grant, uses, lapsed, file, crashes,
                     decided, muddled, leaked>>
  BY DEF ConsumeMatching, Usable, patchVars, grantVars, history
<1>2. ProposalTypeOK /\ LocksOK /\ req \in [Requests -> Request] /\ a \in Proposals
  BY DEF ReviewInv, ProposalTypeOK, Proposals
<1>3. [pc |-> "consumed", p |-> a, g |-> g] \in Request
  BY DEF Request
<1>4. /\ req' \in [Requests -> Request] /\ \A s \in Requests \ {r} : req'[s] = req[s]
      /\ req'[r] = [pc |-> "consumed", p |-> a, g |-> g]
  BY <1>1, <1>2, <1>3
<1>5. /\ req'[r].pc = "consumed" /\ req'[r].p = a /\ req'[r].g = g
      /\ Consumed(r)' /\ ~Consumed(r) /\ ~OnFiles(r) /\ ~OnFiles(r)'
  BY <1>1, <1>4 DEF Consumed, OnFiles, Idle, Patching, Restoring
<1>6. ProposalTypeOK'
  BY <1>1, <1>2, <1>4 DEF ProposalTypeOK
<1>7. LocksOK'
  <2>1. \A s \in Requests : \A x \in Proposals :
          Holds(s, x)' => Holds(s, x) \/ (s = r /\ x = a)
    BY <1>4, <1>5 DEF Holds
  <2>2. \A s, t \in Requests : \A x \in Proposals : Holds(s, x)' /\ Holds(t, x)' => s = t
    BY <1>1, <1>2, <2>1 DEF LocksOK, Locked
  <2>3. ASSUME NEW s \in Requests, Consumed(s)' \/ req'[s].pc \in Patching \ {"undo_late"}
        PROVE  /\ status[req'[s].p] = "pending"
               /\ Consumed(s)' => /\ grant[req'[s].g] = "active"
                                  /\ uses[req'[s].g] < MaxUses[req'[s].g]
    <3>1. CASE s = r
      BY <1>1, <1>5, <3>1
    <3>2. CASE s # r
      BY <1>2, <1>4, <2>3, <3>2 DEF LocksOK, Consumed
    <3> QED
      BY <3>1, <3>2
  <2>4. \A s, t \in Requests : Consumed(s)' /\ Consumed(t)' /\ req'[s].g = req'[t].g => s = t
    BY <1>1, <1>2, <1>4, <1>5 DEF LocksOK, Consumed, GrantLocked
  <2> QED
    BY <1>1, <2>2, <2>3, <2>4 DEF LocksOK
<1>8. ApprovalsStand' /\ GrantsCountTheirUses'
  BY <1>1 DEF ReviewInv, ApprovalsStand, GrantsCountTheirUses
<1>9. \A s \in Requests : (OnFiles(s)' <=> OnFiles(s)) /\ (OnFiles(s) => req'[s] = req[s])
  BY <1>4, <1>5 DEF OnFiles
<1> QED
  BY <1>1, <1>6, <1>7, <1>8, <1>9, FilesKept DEF ReviewInv

(* A request that has consumed a grant ends; what it approves is one use.   *)
LEMMA GrantedStepKeeps ==
  ASSUME ReviewInv, NEW r \in Requests, FinishGranted(r)
  PROVE  ReviewInv'
<1> PICK a, g : a = req[r].p /\ g = req[r].g
  OBVIOUS
<1>1. /\ Consumed(r) /\ Done(r)
      /\ \/ /\ uses' = [uses EXCEPT ![g] = @ + 1]
            /\ approval' = [approval EXCEPT ![a] = g]
            /\ status' = [status EXCEPT ![a] = IF @ = "pending" THEN "accepted" ELSE @]
         \/ UNCHANGED <<uses, approval, status>>
      /\ UNCHANGED <<snap, saved, order, grant, lapsed, file, crashes,
                     decided, muddled, leaked>>
  BY DEF FinishGranted, Consumed, patchVars, history
<1>2. /\ ProposalTypeOK /\ LocksOK /\ ApprovalsStand /\ GrantsCountTheirUses
      /\ req \in [Requests -> Request] /\ req[r] \in Request
  BY DEF ReviewInv, ProposalTypeOK
<1>3. /\ a \in Actions /\ g \in Grants /\ a \in Proposals
  BY <1>1, <1>2, RequestFacts DEF Consumed, Proposals
<1>4. /\ status[a] = "pending" /\ grant[g] = "active" /\ uses[g] < MaxUses[g]
      /\ Holds(r, a) /\ approval[a] = NoGrant
  BY <1>1, <1>2, <1>3 DEF LocksOK, ApprovalsStand, Holds, Consumed, Idle
<1>5. /\ req' \in [Requests -> Request] /\ \A s \in Requests \ {r} : req'[s] = req[s]
      /\ req'[r] = Idle /\ ~Consumed(r)' /\ ~OnFiles(r)' /\ ~OnFiles(r)
  BY <1>1, <1>2, DoneFacts DEF Consumed, OnFiles, Idle, Patching, Restoring
<1>6. /\ \A s \in Requests : \A x \in Proposals : Holds(s, x)' => Holds(s, x) /\ s # r
      /\ \A s \in Requests : Consumed(s)' => Consumed(s) /\ s # r /\ req'[s] = req[s]
      /\ \A s \in Requests : (OnFiles(s)' <=> OnFiles(s)) /\ (OnFiles(s) => req'[s] = req[s])
      /\ \A s \in Requests : req'[s].pc \in Patching => s # r
  BY <1>5 DEF Holds, Consumed, OnFiles, Idle, Patching
<1>7. ASSUME NEW s \in Requests \ {r}, Consumed(s) \/ req[s].pc \in Patching \ {"undo_late"}
      PROVE  req[s].p \in Proposals /\ Holds(s, req[s].p) /\ req[s].p # a
  <2>1. req[s] \in Request
    BY <1>2
  <2>2. req[s].p \in Proposals /\ Holds(s, req[s].p)
    BY <1>7, <2>1, RequestFacts DEF Holds, Proposals, Consumed, Patching, Idle
  <2> QED
    BY <1>2, <1>3, <1>4, <2>2 DEF LocksOK
<1>8. CASE UNCHANGED <<uses, approval, status>>
  <2>1. ProposalTypeOK'
    BY <1>1, <1>2, <1>5, <1>8 DEF ProposalTypeOK
  <2>2. LocksOK'
    BY <1>1, <1>2, <1>5, <1>6, <1>8 DEF LocksOK
  <2>3. ApprovalsStand' /\ GrantsCountTheirUses'
    BY <1>2, <1>8 DEF ApprovalsStand, GrantsCountTheirUses
  <2> QED
    BY <1>1, <1>6, <1>8, <2>1, <2>2, <2>3, FilesKept DEF ReviewInv
<1>9. CASE /\ uses' = [uses EXCEPT ![g] = @ + 1]
           /\ approval' = [approval EXCEPT ![a] = g]
           /\ status' = [status EXCEPT ![a] = IF @ = "pending" THEN "accepted" ELSE @]
  <2>1. /\ status' \in [Proposals -> {"none", "pending", "accepted", "rejected"}]
        /\ status'[a] = "accepted" /\ \A x \in Proposals : x # a => status'[x] = status[x]
    BY <1>2, <1>3, <1>4, <1>9 DEF ProposalTypeOK
  <2>2. /\ approval' \in [Actions -> Grants \union {NoGrant}]
        /\ approval'[a] = g /\ \A x \in Actions : x # a => approval'[x] = approval[x]
    BY <1>2, <1>3, <1>9 DEF ProposalTypeOK
  <2>3. MaxUses[g] \in Nat /\ uses[g] \in Nat
    BY <1>2, <1>3, GrantsAssumption DEF ProposalTypeOK
  <2>4. \A h \in Grants : uses'[h] = IF h = g THEN uses[g] + 1 ELSE uses[h]
    BY <1>2, <1>3, <1>9 DEF ProposalTypeOK
  <2>5. uses' \in [Grants -> Nat] /\ \A h \in Grants : uses'[h] <= MaxUses[h]
    BY <1>2, <1>3, <1>4, <1>9, <2>3, <2>4 DEF ProposalTypeOK
  <2>6. ProposalTypeOK'
    BY <1>1, <1>2, <1>5, <2>1, <2>2, <2>5 DEF ProposalTypeOK
  <2>7. LocksOK'
    <3>1. \A s \in Requests : Consumed(s)' => req[s].g \in Grants /\ req[s].g # g
      BY <1>1, <1>2, <1>6, RequestFacts DEF LocksOK, Consumed
    <3>2. ASSUME NEW s \in Requests,
                 Consumed(s)' \/ req'[s].pc \in Patching \ {"undo_late"}
          PROVE  status'[req'[s].p] = "pending"
      <4>1. /\ s # r /\ req'[s] = req[s]
            /\ Consumed(s) \/ req[s].pc \in Patching \ {"undo_late"}
        BY <1>5, <1>6, <3>2
      <4> QED
        BY <1>2, <1>7, <2>1, <4>1 DEF LocksOK
    <3>3. \A s \in Requests : Consumed(s)' =>
            grant'[req'[s].g] = "active" /\ uses'[req'[s].g] < MaxUses[req'[s].g]
      BY <1>1, <1>2, <1>6, <2>4, <3>1 DEF LocksOK
    <3>4. /\ \A s, t \in Requests : \A x \in Proposals : Holds(s, x)' /\ Holds(t, x)' => s = t
          /\ \A s, t \in Requests :
               Consumed(s)' /\ Consumed(t)' /\ req'[s].g = req'[t].g => s = t
      BY <1>2, <1>6 DEF LocksOK
    <3> QED
      BY <3>2, <3>3, <3>4 DEF LocksOK
  <2>8. ApprovalsStand'
    BY <1>2, <1>3, <2>1, <2>2 DEF ApprovalsStand, Proposals
  <2>9. GrantsCountTheirUses'
    <3> DEFINE Used(h) == {x \in Actions : approval[x] = h /\ status[x] = "accepted"}
               Now(h) == {x \in Actions : approval'[x] = h /\ status'[x] = "accepted"}
    <3>1. \A h \in Grants : h # g => Now(h) = Used(h)
      BY <1>3, <1>4, <2>1, <2>2, GrantsAssumption DEF Proposals
    <3>2. Now(g) = Used(g) \union {a} /\ a \notin Used(g)
      BY <1>3, <1>4, <2>1, <2>2 DEF Proposals
    <3>3. IsFiniteSet(Used(g))
      BY ProposalsAssumption, FS_Subset
    <3>4. Cardinality(Now(g)) = Cardinality(Used(g)) + 1
      BY <3>2, <3>3, FS_AddElement
    <3>5. \A h \in Grants : uses[h] = Cardinality(Used(h))
      BY <1>2 DEF GrantsCountTheirUses
    <3>6. \A h \in Grants : uses'[h] = Cardinality(Now(h))
      BY <1>3, <2>4, <3>1, <3>4, <3>5
    <3> QED
      BY <2>5, <3>6 DEF GrantsCountTheirUses
  <2>10. \A x \in Proposals : status[x] = "accepted" => status'[x] = "accepted"
    BY <2>1
  <2> QED
    BY <1>1, <1>6, <2>6, <2>7, <2>8, <2>9, <2>10, FilesKept DEF ReviewInv
<1> QED
  BY <1>1, <1>8, <1>9

(* The steps on grants, and time.                                          *)
LEMMA GrantStep ==
  ASSUME ReviewInv, UNCHANGED <<status, snap, saved, order, approval, uses, file, req, crashes,
                                decided, muddled, leaked>>,
         grant' \in [Grants -> {"none", "active", "revoked", "expired"}],
         lapsed' \subseteq Grants \union Patches,
         \A g \in Grants : grant[g] = "active" /\ GrantLocked(g) => grant'[g] = "active"
  PROVE  ReviewInv'
<1>1. ProposalTypeOK'
  BY DEF ReviewInv, ProposalTypeOK
<1>2. LocksOK'
  <2>1. ASSUME NEW s \in Requests, Consumed(s) PROVE grant'[req[s].g] = "active"
    <3>1. req[s] \in Request /\ grant[req[s].g] = "active"
      BY <2>1 DEF ReviewInv, ProposalTypeOK, LocksOK
    <3>2. req[s].g \in Grants /\ GrantLocked(req[s].g)
      BY <2>1, <3>1, RequestFacts DEF Consumed, GrantLocked
    <3> QED
      BY <3>1, <3>2
  <2> QED
    BY <2>1 DEF ReviewInv, LocksOK, Consumed, Holds
<1>3. ApprovalsStand' /\ GrantsCountTheirUses'
  BY DEF ReviewInv, ApprovalsStand, GrantsCountTheirUses
<1> QED
  BY <1>1, <1>2, <1>3, FilesKept DEF ReviewInv, OnFiles

(* A crash ends every request and muddles the files of those on files.      *)
LEMMA CrashStep ==
  ASSUME ReviewInv, Crash
  PROVE  ReviewInv'
<1>1. /\ crashes < MaxCrashes /\ crashes' = crashes + 1
      /\ req' = [r \in Requests |-> Idle]
      /\ muddled' = muddled \union UNION {FilesOf(req[r].p) : r \in {s \in Requests : OnFiles(s)}}
      /\ leaked' = leaked \union
           {req[r].p : r \in {s \in {t \in Requests : OnFiles(t)} : req[s].pc \in Patching}}
      /\ UNCHANGED <<status, snap, saved, order, approval, grant, uses, lapsed, file, decided>>
  BY DEF Crash, patchVars, grantVars
<1>2. /\ ProposalTypeOK
      /\ \A s \in Requests : OnFiles(s) => req[s].p \in Patches
  BY RequestFacts DEF ReviewInv, ProposalTypeOK, OnFiles
<1>3. /\ \A s \in Requests : OnFiles(s) => FilesOf(req[s].p) \subseteq Files
  BY <1>2, OpsFacts, FilesOfFacts
<1>4. /\ req' \in [Requests -> Request] /\ \A s \in Requests : req'[s] = Idle
  BY <1>1 DEF Request
<1>5. muddled \subseteq muddled' /\ muddled' \subseteq Files
  BY <1>1, <1>2, <1>3 DEF ProposalTypeOK
<1>6. leaked \subseteq leaked' /\ leaked' \subseteq Patches
  BY <1>1, <1>2 DEF ProposalTypeOK
<1>7. crashes' \in 0 .. MaxCrashes
  BY <1>1, <1>2, BoundsAssumption DEF ProposalTypeOK
<1>8. ProposalTypeOK'
  BY <1>1, <1>2, <1>4, <1>5, <1>6, <1>7 DEF ProposalTypeOK
<1>9. \A s \in Requests : ~Consumed(s)' /\ ~OnFiles(s)' /\ req'[s].pc \notin Patching
  BY <1>4 DEF Consumed, OnFiles, Idle, Patching, Restoring
<1>10. LocksOK'
  BY <1>4, <1>9 DEF LocksOK, Holds
<1>11. ApprovalsStand' /\ GrantsCountTheirUses'
  BY <1>1 DEF ReviewInv, ApprovalsStand, GrantsCountTheirUses
<1>12. SavedOK'
  BY <1>1, <1>6, SavedKept
<1>13. RequestsOK' /\ OneAtATime' /\ MuddleFree'
  BY <1>9 DEF RequestsOK, RequestOK, OneAtATime, MuddleFree, UndisturbedOK
<1>14. UnfinishedIsOwned'
  <2> SUFFICES ASSUME NEW p \in Patches \ leaked', status[p] # "accepted",
                      NEW f \in Files, file[f] = p
               PROVE  FALSE
    BY <1>1 DEF UnfinishedIsOwned
  <2>1. PICK s \in Requests : req[s].pc \in Patching /\ req[s].p = p
    BY <1>6 DEF ReviewInv, UnfinishedIsOwned, Wrote
  <2> QED
    BY <1>1, <2>1 DEF OnFiles
<1>15. FilesFollowTheDecisions'
  <2>1. \A f \in Files \ muddled' : \A s \in Requests : OnFiles(s) => f \notin FilesOf(req[s].p)
    BY <1>1
  <2> QED
    BY <1>1, <1>5, <2>1 DEF ReviewInv, FilesFollowTheDecisions
<1> QED
  BY <1>8, <1>10, <1>11, <1>12, <1>13, <1>14, <1>15 DEF ReviewInv

(* At first nothing is decided, used or kept.                              *)
LEMMA StartOK == Init => ReviewInv
<1> SUFFICES ASSUME Init PROVE ReviewInv
  OBVIOUS
<1>1. \A r \in Requests : req[r] = Idle /\ ~Consumed(r) /\ ~OnFiles(r) /\ req[r].pc \notin Patching
  BY DEF Init, Consumed, OnFiles, Idle, Patching, Restoring
<1>2. ProposalTypeOK
  <2>1. /\ approval \in [Actions -> Grants \union {NoGrant}]
        /\ snap \in [Patches -> {"none", "available", "rolled_back", "pruned"}]
        /\ status \in [Proposals -> {"none", "pending", "accepted", "rejected"}]
        /\ grant \in [Grants -> {"none", "active", "revoked", "expired"}]
    BY DEF Init
  <2>2. <<>> \in Seq(Contents) /\ <<>> \in Seq(Patches)
    BY EmptySeq
  <2>3. saved \in [Patches -> Seq(Contents)] /\ order \in Seq(Patches)
    BY <2>2 DEF Init
  <2>4. uses \in [Grants -> Nat] /\ \A g \in Grants : uses[g] <= MaxUses[g]
    BY GrantsAssumption DEF Init
  <2>5. file \in [Files -> Contents] /\ decided \in [Files -> Contents]
    BY DEF Init, Contents
  <2>6. req \in [Requests -> Request] /\ crashes \in 0 .. MaxCrashes
    BY BoundsAssumption DEF Init, Request
  <2>7. lapsed = {} /\ muddled = {} /\ leaked = {}
    BY DEF Init
  <2> QED
    BY <2>1, <2>3, <2>4, <2>5, <2>6, <2>7 DEF ProposalTypeOK
<1>3. LocksOK
  BY <1>1 DEF LocksOK, Holds
<1>4. ApprovalsStand
  BY DEF ApprovalsStand, Init
<1>5. GrantsCountTheirUses
  <2>1. ASSUME NEW g \in Grants
        PROVE  {a \in Actions : approval[a] = g /\ status[a] = "accepted"} = {}
    BY GrantsAssumption DEF Init
  <2>2. Cardinality({}) = 0
    BY FS_EmptySet
  <2>3. \A g \in Grants : uses[g] = 0 /\ 0 <= MaxUses[g]
    BY GrantsAssumption DEF Init
  <2> QED
    BY <2>1, <2>2, <2>3 DEF GrantsCountTheirUses
<1>6. SavedOK
  BY DEF SavedOK, Init
<1>7. RequestsOK /\ OneAtATime /\ MuddleFree
  BY <1>1 DEF RequestsOK, RequestOK, OneAtATime, MuddleFree, UndisturbedOK
<1>8. UnfinishedIsOwned
  BY ProposalsAssumption DEF UnfinishedIsOwned, Init
<1>9. FilesFollowTheDecisions
  BY DEF FilesFollowTheDecisions, Init
<1> QED
  BY <1>2, <1>3, <1>4, <1>5, <1>6, <1>7, <1>8, <1>9 DEF ReviewInv

-----------------------------------------------------------------------------
(* Every step keeps the invariant.                                         *)
LEMMA NextKeeps == ReviewInv /\ [Next]_vars => ReviewInv'
<1> SUFFICES ASSUME ReviewInv, [Next]_vars PROVE ReviewInv'
  OBVIOUS
<1>1. ASSUME NEW r \in Requests, PatchStep(r) PROVE ReviewInv'
  <2>1. ASSUME NEW p \in Patches, BeginAccept(r, p) \/ BeginRollback(r, p) PROVE ReviewInv'
    BY <2>1, BeginStep
  <2>2. CASE ReadFile(r)
    BY <2>2, ReadStep
  <2>3. CASE WriteFile(r)
    BY <2>3, WriteStep
  <2>4. CASE Fail(r) \/ CommitFails(r)
    BY <2>4, FailStep
  <2>5. CASE CommitAccept(r) \/ CommitReplyLost(r)
    BY <2>5, CommitAcceptStep, ReplyLostStep
  <2>6. CASE UndoFile(r)
    BY <2>6, UndoStep
  <2>7. CASE UndoFails(r) \/ RestoreFails(r)
    BY <2>7, MuddleStep
  <2>8. CASE RestoreFile(r)
    BY <2>8, RestoreStep
  <2>9. CASE CommitRollback(r)
    BY <2>9, CommitRollbackStep
  <2> QED
    BY <1>1, <2>1, <2>2, <2>3, <2>4, <2>5, <2>6, <2>7, <2>8, <2>9 DEF PatchStep
<1>2. ASSUME NEW r \in Requests, GrantedStep(r) PROVE ReviewInv'
  BY <1>2, ConsumeStep, GrantedStepKeeps DEF GrantedStep
<1>3. ASSUME NEW p \in Proposals, Decide(p, "rejected") PROVE ReviewInv'
  BY <1>3, DecideStep
<1>4. ASSUME NEW a \in Actions, Decide(a, "accepted") PROVE ReviewInv'
  <2>1. a \in Proposals
    BY DEF Proposals
  <2> QED
    BY <1>4, <2>1, DecideStep
<1>5. ASSUME NEW g \in Grants, CreateGrant(g) \/ Revoke(g) PROVE ReviewInv'
  <2>1. grant \in [Grants -> {"none", "active", "revoked", "expired"}]
        /\ lapsed \subseteq Grants \union Patches
    BY DEF ReviewInv, ProposalTypeOK
  <2>2. CASE CreateGrant(g)
    <3>1. /\ grant[g] = "none"
          /\ \A h \in Grants : Scope[h] = Scope[g] /\ grant[h] = "active" => ~GrantLocked(h)
          /\ grant' = [h \in Grants |->
               IF h = g THEN "active"
               ELSE IF h \in {x \in Grants : Scope[x] = Scope[g] /\ grant[x] = "active"}
                    THEN "expired" ELSE grant[h]]
          /\ UNCHANGED <<status, snap, saved, order, approval, uses, lapsed, file, req, crashes,
                         decided, muddled, leaked>>
      BY <2>2 DEF CreateGrant, patchVars, history
    <3>2. grant' \in [Grants -> {"none", "active", "revoked", "expired"}]
      BY <2>1, <3>1
    <3>3. \A h \in Grants : grant[h] = "active" /\ GrantLocked(h) => grant'[h] = "active"
      BY <2>1, <3>1
    <3> QED
      BY <2>1, <3>1, <3>2, <3>3, GrantStep
  <2>3. CASE Revoke(g)
    <3>1. /\ ~GrantLocked(g) /\ grant' = [grant EXCEPT ![g] = "revoked"]
          /\ UNCHANGED <<status, snap, saved, order, approval, uses, lapsed, file, req, crashes,
                         decided, muddled, leaked>>
      BY <2>3 DEF Revoke, patchVars, history
    <3>2. /\ grant' \in [Grants -> {"none", "active", "revoked", "expired"}]
          /\ \A h \in Grants : grant[h] = "active" /\ GrantLocked(h) => grant'[h] = "active"
      BY <2>1, <3>1
    <3> QED
      BY <2>1, <3>1, <3>2, GrantStep
  <2> QED
    BY <1>5, <2>2, <2>3
<1>6. ASSUME NEW x \in Grants \union Patches, Lapse(x) PROVE ReviewInv'
  <2>1. /\ lapsed' = lapsed \union {x}
        /\ UNCHANGED <<status, snap, saved, order, approval, grant, uses, file, req, crashes,
                       decided, muddled, leaked>>
    BY <1>6 DEF Lapse, patchVars, grantVars, history
  <2>2. /\ grant \in [Grants -> {"none", "active", "revoked", "expired"}]
        /\ lapsed' \subseteq Grants \union Patches
    BY <2>1 DEF ReviewInv, ProposalTypeOK
  <2> QED
    BY <2>1, <2>2, GrantStep
<1>7. CASE Crash
  BY <1>7, CrashStep
<1>8. CASE UNCHANGED vars
  <2>1. UNCHANGED <<status, snap, saved, order, approval, grant, uses, lapsed, file, req, crashes,
                    decided, muddled, leaked>>
    BY <1>8 DEF vars, patchVars, grantVars, history
  <2>2. /\ grant \in [Grants -> {"none", "active", "revoked", "expired"}]
        /\ lapsed \subseteq Grants \union Patches
    BY DEF ReviewInv, ProposalTypeOK
  <2> QED
    BY <2>1, <2>2, GrantStep
<1> QED
  BY <1>1, <1>2, <1>3, <1>4, <1>5, <1>6, <1>7, <1>8 DEF Next

(* The invariant holds throughout, crashes included.                       *)
LEMMA ReviewIsInvariant == Spec => []ReviewInv
<1> QED
  BY StartOK, NextKeeps, PTL DEF Spec

(* The rows, files and requests keep their types, and no grant is used more *)
(* often than max_uses allows.                                             *)
THEOREM ProposalTypeCorrect == Spec => []ProposalTypeOK
<1>1. ReviewInv => ProposalTypeOK
  BY DEF ReviewInv
<1> QED
  BY <1>1, ReviewIsInvariant, PTL

(* actionApprovalGrantService.ts: use_count is the number of proposals      *)
(* accepted on the grant, however many requests run and whatever fails.     *)
THEOREM GrantsAreCounted == Spec => []GrantsCountTheirUses
<1>1. ReviewInv => GrantsCountTheirUses
  BY DEF ReviewInv
<1> QED
  BY <1>1, ReviewIsInvariant, PTL

(* applyService.ts and codePatch.ts: a file holds what a patch writes only  *)
(* if it was accepted, or while its request works on it, unless a crash, a  *)
(* failed repair or a later reader leaked it.                              *)
THEOREM AcceptedPatchesStand == Spec => []OnlyAcceptedPatchesStand
<1>1. ReviewInv => OnlyAcceptedPatchesStand
  <2> SUFFICES ASSUME ReviewInv, NEW p \in Patches \ leaked, NEW f \in Files, file[f] = p,
                      status[p] # "accepted"
               PROVE  \E r \in Requests : OnFiles(r) /\ req[r].p = p
    BY DEF OnlyAcceptedPatchesStand
  <2>1. PICK r \in Requests : req[r].pc \in Patching /\ req[r].p = p
    BY DEF ReviewInv, UnfinishedIsOwned, Wrote
  <2> QED
    BY <2>1 DEF OnFiles
<1> QED
  BY <1>1, ReviewIsInvariant, PTL

(* codePatch.ts: accepts, failures and rollbacks are all or nothing for     *)
(* every file that met no crash, failed repair, COMMIT with a lost reply or *)
(* second request.                                                         *)
THEOREM FilesFollow == Spec => []FilesFollowTheDecisions
<1>1. ReviewInv => FilesFollowTheDecisions
  BY DEF ReviewInv
<1> QED
  BY <1>1, ReviewIsInvariant, PTL

(* revoke and the replacement of a grant are final: a request that consumed *)
(* it still holds its row, so they wait for it.                             *)
THEOREM RevokedIsFinal == Spec => RevokedGrantsApproveNothing
<1> DEFINE Final ==
      \A g \in Grants : grant[g] \in {"revoked", "expired"} =>
        /\ grant'[g] = grant[g]
        /\ \A a \in Actions : approval'[a] = g => approval[a] = g
<1>1. ReviewInv /\ [Next]_vars => Final
  <2> SUFFICES ASSUME ReviewInv, [Next]_vars PROVE Final
    OBVIOUS
  <2>1. CASE UNCHANGED <<grant, approval>>
    BY <2>1
  <2>2. ASSUME NEW r \in Requests, FinishGranted(r) PROVE Final
    <3>1. /\ Consumed(r) /\ UNCHANGED grant
          /\ approval' = [approval EXCEPT ![req[r].p] = req[r].g] \/ UNCHANGED approval
      BY <2>2 DEF FinishGranted, Consumed
    <3>2. /\ approval \in [Actions -> Grants \union {NoGrant}]
          /\ grant[req[r].g] = "active"
      BY <3>1 DEF ReviewInv, ProposalTypeOK, LocksOK
    <3> QED
      BY <3>1, <3>2
  <2>3. ASSUME NEW g \in Grants, CreateGrant(g) PROVE Final
    <3>1. /\ grant[g] = "none" /\ UNCHANGED approval
          /\ \A h \in Grants : grant[h] # "active" /\ h # g => grant'[h] = grant[h]
      BY <2>3 DEF CreateGrant
    <3> QED
      BY <3>1
  <2>4. ASSUME NEW g \in Grants, Revoke(g) PROVE Final
    <3>1. /\ grant[g] = "active" /\ UNCHANGED approval
          /\ grant' = [grant EXCEPT ![g] = "revoked"]
          /\ grant \in [Grants -> {"none", "active", "revoked", "expired"}]
      BY <2>4 DEF Revoke, ReviewInv, ProposalTypeOK
    <3> QED
      BY <3>1
  <2>5. ASSUME NEW r \in Requests, PatchStep(r) PROVE UNCHANGED <<grant, approval>>
    BY <2>5, Zenon DEF PatchStep, BeginAccept, BeginRollback, Begin, ReadFile, WriteFile, Fail,
      CommitAccept, CommitReplyLost, CommitFails, UndoFile, UndoFails, RestoreFile, RestoreFails,
      CommitRollback, grantVars
  <2>6. ASSUME NEW r \in Requests, NEW a \in Actions, NEW g \in Grants, ConsumeMatching(r, a, g)
        PROVE  UNCHANGED <<grant, approval>>
    BY <2>6 DEF ConsumeMatching, grantVars
  <2>7. ASSUME NEW p, NEW v, Decide(p, v) PROVE UNCHANGED <<grant, approval>>
    BY <2>7 DEF Decide, grantVars
  <2>8. ASSUME NEW x, Lapse(x) PROVE UNCHANGED <<grant, approval>>
    BY <2>8 DEF Lapse, grantVars
  <2>9. Crash \/ UNCHANGED vars => UNCHANGED <<grant, approval>>
    BY DEF Crash, vars, grantVars
  <2> HIDE DEF Final
  <2>10. ASSUME NEW r \in Requests, PatchStep(r) \/ GrantedStep(r) PROVE Final
    BY <2>1, <2>2, <2>5, <2>6, <2>10 DEF GrantedStep
  <2> QED
    BY <2>1, <2>3, <2>4, <2>7, <2>8, <2>9, <2>10 DEF Next
<1> QED
  BY <1>1, ReviewIsInvariant, PTL DEF Spec, RevokedGrantsApproveNothing

=============================================================================
