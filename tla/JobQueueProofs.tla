--------------------------- MODULE JobQueueProofs ---------------------------
(***************************************************************************)
(* For any sets of jobs and workers and any attempt limits: the types, the  *)
(* fencing of stale claims, the alerts and the refinement of LeasedWork.   *)
(***************************************************************************)
EXTENDS JobQueue, TLAPS

(* attempts counts the claims of a row and never passes its limit; a row    *)
(* that is not inserted yet has none.                                      *)
AttemptsBounded ==
  \A j \in Jobs : /\ attempts[j] <= MaxAttempts[j]
                  /\ status[j] = "absent" => attempts[j] = 0

(* The claim a worker holds is one the row has already counted.             *)
HeldClaimCounted ==
  \A w \in Workers : pc[w] \in Holding =>
    held[w] \in Jobs /\ claim[w] <= attempts[held[w]]

(* What a worker is about to alert on has failed for good.                  *)
AlertListExhausted ==
  \A w \in Workers : \A j \in toAlert[w] :
    status[j] = "failed" /\ attempts[j] = MaxAttempts[j]

FencingInv ==
  TypeOK /\ AttemptsBounded /\ HeldClaimCounted
    /\ OwnerHoldsCurrentClaim /\ ClaimsAreDistinct

USE DEF Active, Terminal, JobStatus, WorkerPC, Holding

-----------------------------------------------------------------------------
(* The columns of the jobs table have their types.                          *)
RowTypes ==
  /\ status \in [Jobs -> JobStatus]
  /\ claimedBy \in [Jobs -> Workers \union {NoWorker}]
  /\ attempts \in [Jobs -> Nat]
  /\ stale \in [Jobs -> BOOLEAN]
  /\ result \in [Jobs -> Nat]

(* Each statement of the repository keeps them.                             *)
LEMMA StatementTypes ==
  ASSUME TypeOK, NEW w \in Workers, NEW j \in Jobs,
         \/ ClaimRow(w, j) \/ StartRow(w, j) \/ CompleteRow(w, j) \/ FailRow(w, j)
         \/ ReclaimRows \/ UNCHANGED rowVars
  PROVE  RowTypes'
<1> USE DEF TypeOK, RowTypes
<1>1. CASE ClaimRow(w, j)   BY <1>1 DEF ClaimRow
<1>2. CASE StartRow(w, j)   BY <1>2 DEF StartRow
<1>3. CASE CompleteRow(w, j)   BY <1>3 DEF CompleteRow
<1>4. CASE FailRow(w, j)   BY <1>4 DEF FailRow
<1>5. CASE ReclaimRows   BY <1>5 DEF ReclaimRows, Exhausted, Stuck
<1>6. CASE UNCHANGED rowVars   BY <1>6 DEF rowVars
<1> QED BY <1>1, <1>2, <1>3, <1>4, <1>5, <1>6

(* Every action of the queue leaves every variable in its type.            *)
LEMMA TypeStep == TypeOK /\ HeldClaimCounted /\ [Next]_vars => TypeOK'
<1> SUFFICES ASSUME TypeOK, HeldClaimCounted, [Next]_vars PROVE TypeOK'
  OBVIOUS
<1>1. ASSUME NEW j \in Jobs, Client(j) PROVE TypeOK'
  BY <1>1 DEF Client, Enqueue, RequestCancel, CancelJob, GoStale, workerVars, rowVars, TypeOK
<1>2. ASSUME NEW w \in Workers, Work(w) PROVE TypeOK'
  <2> DEFINE Locals == /\ pc' \in [Workers -> WorkerPC]
                       /\ held' \in [Workers -> Jobs \union {NoJob}]
                       /\ claim' \in [Workers -> Nat]
                       /\ toAlert' \in [Workers -> SUBSET Jobs]
                       /\ alerted' \in SUBSET Jobs
                       /\ cancelling' \in SUBSET Jobs
  <2> SUFFICES RowTypes' /\ Locals
    BY DEF TypeOK, RowTypes
  <2>0. pc[w] \in Holding => held[w] \in Jobs
    BY DEF HeldClaimCounted
  <2>1. CASE Boot(w) \/ Sweep(w) \/ PollNothing(w) \/ HandlerReturns(w) \/ HandlerThrows(w)
    BY <2>1 DEF Boot, Sweep, PollNothing, HandlerReturns, HandlerThrows, TypeOK, RowTypes, rowVars
  <2>2. CASE Reclaim(w) \/ ReclaimReplyLost(w)
    <3>1. RowTypes'
      BY <2>2 DEF Reclaim, ReclaimReplyLost, ReclaimRows, Exhausted, Stuck, TypeOK, RowTypes
    <3>2. Exhausted \in SUBSET Jobs
      BY DEF Exhausted, Stuck
    <3>3. Locals
      BY <2>2, <3>2 DEF Reclaim, ReclaimReplyLost, TypeOK
    <3> QED BY <3>1, <3>3
  <2>3. CASE Claim(w)
    <3>1. PICK j \in Jobs : /\ ClaimRow(w, j)
                            /\ held' = [held EXCEPT ![w] = j]
                            /\ claim' = [claim EXCEPT ![w] = attempts'[j]]
      BY <2>3 DEF Claim
    <3>2. RowTypes'
      BY <3>1, StatementTypes
    <3>3. Locals
      BY <2>3, <3>1, <3>2 DEF Claim, TypeOK, RowTypes
    <3> QED BY <3>2, <3>3
  <2>4. CASE ClaimReplyLost(w)
    <3>1. PICK j \in Jobs : ClaimRow(w, j)
      BY <2>4 DEF ClaimReplyLost
    <3>2. RowTypes'
      BY <3>1, StatementTypes
    <3>3. Locals
      BY <2>4 DEF ClaimReplyLost, TypeOK
    <3> QED BY <3>2, <3>3
  <2>5. CASE Start(w) \/ StartSkipped(w) \/ StartFails(w)
    <3>1. RowTypes'
      BY <2>0, <2>5, StatementTypes DEF Start, StartSkipped, StartFails
    <3>2. Locals
      BY <2>5 DEF Start, StartSkipped, StartFails, Release, TypeOK
    <3> QED BY <3>1, <3>2
  <2>6. CASE Heartbeat(w)
    BY <2>6 DEF Heartbeat, workerVars, TypeOK, RowTypes
  <2>7. CASE Complete(w) \/ CompleteFails(w)
    <3>1. RowTypes'
      BY <2>0, <2>7, StatementTypes DEF Complete, CompleteFails
    <3>2. Locals
      BY <2>7 DEF Complete, CompleteFails, Release, TypeOK
    <3> QED BY <3>1, <3>2
  <2>8. CASE Fail(w) \/ FailFails(w)
    <3>1. RowTypes'
      BY <2>0, <2>8, StatementTypes DEF Fail, FailFails
    <3>2. Locals
      BY <2>0, <2>8 DEF Fail, FailFails, Release, TypeOK
    <3> QED BY <3>1, <3>2
  <2>9. CASE Alert(w)
    BY <2>9 DEF Alert, TypeOK, RowTypes, rowVars
  <2> QED BY <1>2, <2>1, <2>2, <2>3, <2>4, <2>5, <2>6, <2>7, <2>8, <2>9 DEF Work
<1>3. ASSUME NEW w \in Workers, Crash(w) PROVE TypeOK'
  BY <1>3 DEF Crash, Release, rowVars, TypeOK
<1>4. CASE UNCHANGED vars
  BY <1>4 DEF vars, rowVars, workerVars, TypeOK
<1> QED BY <1>1, <1>2, <1>3, <1>4 DEF Next

-----------------------------------------------------------------------------
(* A step that claims nothing: no claim is counted, no worker comes to own  *)
(* a row or to hold a job it did not hold, and no row becomes absent.       *)
Claimless ==
  /\ attempts' = attempts
  /\ \A j \in Jobs : status'[j] = "absent" => status[j] = "absent"
  /\ \A v \in Workers : \A j \in Jobs :
       status'[j] \in Active /\ claimedBy'[j] = v => Owns(v, j)
  /\ \A v \in Workers : pc'[v] \in Holding =>
       pc[v] \in Holding /\ held'[v] = held[v] /\ claim'[v] = claim[v]

(* Only claimNext claims.                                                  *)
LEMMA OnlyClaimsClaim ==
  ASSUME TypeOK, HeldClaimCounted, [Next]_vars,
         ~ \E w \in Workers : Claim(w) \/ ClaimReplyLost(w)
  PROVE  Claimless
<1> USE DEF TypeOK, Claimless, Owns
<1>1. ASSUME NEW j \in Jobs, Client(j) PROVE Claimless
  BY <1>1, NullAssumption DEF Client, Enqueue, RequestCancel, CancelJob, GoStale, workerVars, rowVars
<1>2. ASSUME NEW w \in Workers, Work(w) PROVE Claimless
  <2>0. pc[w] \in Holding => held[w] \in Jobs
    BY DEF HeldClaimCounted
  <2>1. CASE Boot(w) \/ Sweep(w) \/ PollNothing(w) \/ HandlerReturns(w) \/ HandlerThrows(w)
    BY <2>1 DEF Boot, Sweep, PollNothing, HandlerReturns, HandlerThrows, rowVars
  <2>2. CASE Reclaim(w) \/ ReclaimReplyLost(w)
    <3>1. Exhausted \in SUBSET Stuck
      BY DEF Exhausted
    <3>2. /\ attempts' = attempts
          /\ \A j \in Jobs : /\ status'[j] = "absent" => status[j] = "absent"
                             /\ status'[j] \in Active =>
                                  status'[j] = status[j] /\ claimedBy'[j] = claimedBy[j]
      BY <2>2, <3>1 DEF Reclaim, ReclaimReplyLost, ReclaimRows
    <3>3. \A v \in Workers : pc'[v] \in Holding =>
            pc[v] \in Holding /\ held'[v] = held[v] /\ claim'[v] = claim[v]
      BY <2>2 DEF Reclaim, ReclaimReplyLost
    <3> QED BY <3>2, <3>3
  <2>3. CASE Start(w) \/ StartSkipped(w) \/ StartFails(w)
    BY <2>0, <2>3 DEF Start, StartSkipped, StartFails, StartRow, Release, rowVars
  <2>4. CASE Heartbeat(w) \/ Alert(w)
    BY <2>4 DEF Heartbeat, Alert, workerVars, rowVars
  <2>5. CASE Complete(w) \/ CompleteFails(w)
    BY <2>0, <2>5 DEF Complete, CompleteFails, CompleteRow, Release, rowVars
  <2>6. CASE Fail(w) \/ FailFails(w)
    <3>1. FailRow(w, held[w]) \/ UNCHANGED rowVars
      BY <2>6 DEF Fail, FailFails
    <3>2. /\ attempts' = attempts
          /\ \A j \in Jobs : status'[j] = "absent" => status[j] = "absent"
          /\ \A v \in Workers : \A j \in Jobs :
               status'[j] \in Active /\ claimedBy'[j] = v => Owns(v, j)
      BY <2>0, <2>6, <3>1 DEF FailRow, rowVars, Fail, FailFails
    <3>3. \A v \in Workers : pc'[v] \in Holding =>
            pc[v] \in Holding /\ held'[v] = held[v] /\ claim'[v] = claim[v]
      BY <2>6 DEF Fail, FailFails, Release
    <3> QED BY <3>2, <3>3
  <2> QED BY <1>2, <2>1, <2>2, <2>3, <2>4, <2>5, <2>6 DEF Work
<1>3. ASSUME NEW w \in Workers, Crash(w) PROVE Claimless
  BY <1>3 DEF Crash, Release, rowVars
<1>4. CASE UNCHANGED vars
  BY <1>4 DEF vars, rowVars, workerVars
<1> QED BY <1>1, <1>2, <1>3, <1>4 DEF Next

(* A claim is numbered above every claim counted before, so it is new and   *)
(* current; everything else leaves claims as they are.                     *)
LEMMA FencingStep == FencingInv /\ [Next]_vars => FencingInv'
<1> SUFFICES ASSUME FencingInv, [Next]_vars PROVE FencingInv'
  OBVIOUS
<1> USE MaxAttemptsAssumption, NullAssumption
<1>0. TypeOK /\ TypeOK'
  BY TypeStep DEF FencingInv
<1>1. CASE \E w \in Workers : Claim(w)
  <2>1. PICK w \in Workers : Claim(w)
    BY <1>1
  <2>2. PICK j \in Jobs : /\ ClaimRow(w, j)
                          /\ held' = [held EXCEPT ![w] = j]
                          /\ claim' = [claim EXCEPT ![w] = attempts'[j]]
    BY <2>1 DEF Claim
  <2>3. /\ pc[w] \notin Holding
        /\ pc' = [pc EXCEPT ![w] = "claimed"]
        /\ attempts' = [attempts EXCEPT ![j] = attempts[j] + 1]
        /\ status' = [status EXCEPT ![j] = "claimed"]
        /\ claimedBy' = [claimedBy EXCEPT ![j] = w]
        /\ status[j] = "pending" /\ attempts[j] < MaxAttempts[j]
    BY <2>1, <2>2 DEF Claim, ClaimRow, Claimable
  <2>4. AttemptsBounded'
    BY <1>0, <2>3 DEF FencingInv, AttemptsBounded, TypeOK
  <2>5. HeldClaimCounted'
    BY <1>0, <2>2, <2>3 DEF FencingInv, HeldClaimCounted, TypeOK
  <2>6. OwnerHoldsCurrentClaim'
    BY <1>0, <2>2, <2>3 DEF FencingInv, OwnerHoldsCurrentClaim, Owns, TypeOK
  <2>7. ClaimsAreDistinct'
    BY <1>0, <2>2, <2>3 DEF FencingInv, ClaimsAreDistinct, HeldClaimCounted, TypeOK
  <2> QED BY <1>0, <2>4, <2>5, <2>6, <2>7 DEF FencingInv
<1>2. CASE \E w \in Workers : ClaimReplyLost(w)
  <2>1. PICK w \in Workers : ClaimReplyLost(w)
    BY <1>2
  <2>2. PICK j \in Jobs : ClaimRow(w, j)
    BY <2>1 DEF ClaimReplyLost
  <2>3. /\ pc[w] \notin Holding
        /\ pc' = [pc EXCEPT ![w] = "idle"]
        /\ held' = held /\ claim' = claim
        /\ attempts' = [attempts EXCEPT ![j] = attempts[j] + 1]
        /\ status' = [status EXCEPT ![j] = "claimed"]
        /\ claimedBy' = [claimedBy EXCEPT ![j] = w]
        /\ status[j] = "pending" /\ attempts[j] < MaxAttempts[j]
    BY <2>1, <2>2 DEF ClaimReplyLost, ClaimRow, Claimable
  <2>4. AttemptsBounded'
    BY <1>0, <2>3 DEF FencingInv, AttemptsBounded, TypeOK
  <2>5. HeldClaimCounted'
    BY <1>0, <2>3 DEF FencingInv, HeldClaimCounted, TypeOK
  <2>6. OwnerHoldsCurrentClaim'
    BY <1>0, <2>3 DEF FencingInv, OwnerHoldsCurrentClaim, Owns, TypeOK
  <2>7. ClaimsAreDistinct'
    BY <1>0, <2>3 DEF FencingInv, ClaimsAreDistinct, TypeOK
  <2> QED BY <1>0, <2>4, <2>5, <2>6, <2>7 DEF FencingInv
<1>3. CASE ~ \E w \in Workers : Claim(w) \/ ClaimReplyLost(w)
  <2>1. Claimless
    BY <1>3, OnlyClaimsClaim DEF FencingInv
  <2>2. AttemptsBounded' /\ HeldClaimCounted'
    BY <2>1 DEF Claimless, FencingInv, AttemptsBounded, HeldClaimCounted
  <2>3. OwnerHoldsCurrentClaim' /\ ClaimsAreDistinct'
    BY <2>1 DEF Claimless, FencingInv, OwnerHoldsCurrentClaim, ClaimsAreDistinct, Owns
  <2> QED BY <1>0, <2>2, <2>3 DEF FencingInv
<1> QED BY <1>1, <1>2, <1>3

(* Before the first worker boots nothing is held.                          *)
LEMMA FencingInit == Init => FencingInv
BY MaxAttemptsAssumption
DEF Init, FencingInv, TypeOK, AttemptsBounded, HeldClaimCounted,
    OwnerHoldsCurrentClaim, ClaimsAreDistinct

(* The queue is well typed in every reachable state.                        *)
THEOREM TypeCorrect == Spec => []TypeOK
<1>1. FencingInv => TypeOK
  BY DEF FencingInv
<1> QED BY <1>1, FencingInit, FencingStep, PTL DEF Spec

(* A worker that owns a row holds its current claim, and no two workers     *)
(* hold the same claim: a reclaimed worker is fenced off, for any number   *)
(* of workers, jobs, attempts, crashes and lost replies.                   *)
THEOREM Fencing == Spec => [](OwnerHoldsCurrentClaim /\ ClaimsAreDistinct)
<1>1. FencingInv => OwnerHoldsCurrentClaim /\ ClaimsAreDistinct
  BY DEF FencingInv
<1> QED BY <1>1, FencingInit, FencingStep, PTL DEF Spec

-----------------------------------------------------------------------------
(* Each statement of the repository is one step of LeasedWork.              *)
LEMMA StatementLeases ==
  ASSUME TypeOK, NEW w \in Workers, NEW j \in Jobs
  PROVE  /\ ClaimRow(w, j) => Leases!Lease(j)
         /\ StartRow(w, j) => UNCHANGED Leases!lwVars
         /\ CompleteRow(w, j) /\ claim[w] = attempts[j] => Leases!Answer(j)
         /\ FailRow(w, j) => Leases!Expire({j})
<1> USE DEF TypeOK, LeaseState, Leases!lwVars
<1>1. ClaimRow(w, j) => Leases!Lease(j)
  BY DEF ClaimRow, Claimable, Leases!Lease
<1>2. StartRow(w, j) => UNCHANGED Leases!lwVars
  BY DEF StartRow
<1>3. ASSUME CompleteRow(w, j), claim[w] = attempts[j] PROVE Leases!Answer(j)
  <2>1. LeaseState[j] = "leased"
    BY <1>3 DEF CompleteRow, Owns
  <2>2. LeaseState' = [LeaseState EXCEPT ![j] = "completed"]
    BY <1>3 DEF CompleteRow
  <2>3. result' = [result EXCEPT ![j] = attempts[j]] /\ attempts' = attempts
    BY <1>3 DEF CompleteRow
  <2> QED BY <2>1, <2>2, <2>3 DEF Leases!Answer
<1>4. ASSUME FailRow(w, j) PROVE Leases!Expire({j})
  <2>1. LeaseState[j] = "leased"
    BY <1>4 DEF FailRow, Owns
  <2>2. ASSUME NEW k \in Jobs
        PROVE  LeaseState'[k] = IF k \notin {j} THEN LeaseState[k]
                                ELSE IF attempts[k] < MaxAttempts[k] THEN "open"
                                ELSE "failed"
    <3>1. status' = [status EXCEPT ![j] = IF attempts[j] < MaxAttempts[j]
                                            THEN "pending" ELSE "failed"]
      BY <1>4 DEF FailRow
    <3>2. CASE k = j   BY <3>1, <3>2
    <3>3. CASE k # j   BY <3>1, <3>3
    <3> QED BY <3>2, <3>3
  <2>3. LeaseState' = [k \in Jobs |-> IF k \notin {j} THEN LeaseState[k]
                                      ELSE IF attempts[k] < MaxAttempts[k] THEN "open"
                                      ELSE "failed"]
    BY <2>2
  <2> QED BY <1>4, <2>1, <2>3 DEF FailRow, Leases!Expire
<1> QED BY <1>1, <1>2, <1>3, <1>4

(* Reclaiming ends every stuck lease at once.                              *)
LEMMA ReclaimLeases ==
  ASSUME TypeOK, ReclaimRows
  PROVE  Stuck \in SUBSET Jobs /\ Leases!Expire(Stuck)
<1> USE DEF TypeOK, LeaseState
<1>1. /\ \A k \in Stuck : k \in Jobs /\ status[k] \in Active
      /\ \A k \in Jobs : k \in Exhausted <=> k \in Stuck /\ ~(attempts[k] < MaxAttempts[k])
  BY MaxAttemptsAssumption DEF Exhausted, Stuck
<1>2. \A k \in Stuck : LeaseState[k] = "leased"
  BY <1>1
<1>3. LeaseState' = [k \in Jobs |-> IF k \notin Stuck THEN LeaseState[k]
                                    ELSE IF attempts[k] < MaxAttempts[k] THEN "open"
                                    ELSE "failed"]
  <2>1. ASSUME NEW k \in Jobs
        PROVE  LeaseState'[k] = IF k \notin Stuck THEN LeaseState[k]
                                ELSE IF attempts[k] < MaxAttempts[k] THEN "open"
                                ELSE "failed"
    BY <1>1 DEF ReclaimRows
  <2> QED BY <2>1
<1> QED BY <1>1, <1>2, <1>3 DEF ReclaimRows, Leases!Expire

(* Every action of the queue is a step of LeasedWork or leaves it alone.   *)
LEMMA LeaseStep == FencingInv /\ [Next]_vars => [Leases!Next]_(Leases!lwVars)
<1> SUFFICES ASSUME FencingInv, [Next]_vars PROVE [Leases!Next]_(Leases!lwVars)
  OBVIOUS
<1>0. TypeOK /\ (UNCHANGED rowVars => UNCHANGED Leases!lwVars)
  BY DEF FencingInv, rowVars, Leases!lwVars, LeaseState
<1>1. ASSUME NEW j \in Jobs, Client(j) PROVE [Leases!Next]_(Leases!lwVars)
  <2>1. CASE Enqueue(j)
    <3>1. Leases!Submit(j)
      BY <1>0, <2>1 DEF Enqueue, Leases!Submit, LeaseState, TypeOK
    <3> QED BY <3>1 DEF Leases!Next
  <2>2. CASE RequestCancel(j)
    BY <1>0, <2>2 DEF RequestCancel
  <2>3. CASE CancelJob(j)
    <3>1. CASE status[j] \in {"pending"} \union Active
      <4>1. Leases!Withdraw(j)
        BY <1>0, <2>3, <3>1 DEF CancelJob, Leases!Withdraw, LeaseState, TypeOK
      <4> QED BY <4>1 DEF Leases!Next
    <3>2. CASE status[j] \notin {"pending"} \union Active
      BY <1>0, <2>3, <3>2 DEF CancelJob, rowVars
    <3> QED BY <3>1, <3>2
  <2>4. CASE GoStale(j)
    BY <2>4 DEF GoStale, Leases!lwVars, LeaseState
  <2> QED BY <1>1, <2>1, <2>2, <2>3, <2>4 DEF Client
<1>2. ASSUME NEW w \in Workers, Work(w) PROVE [Leases!Next]_(Leases!lwVars)
  <2>0. pc[w] \in Holding => held[w] \in Jobs
    BY DEF FencingInv, HeldClaimCounted
  <2>1. CASE Boot(w) \/ Sweep(w) \/ PollNothing(w) \/ HandlerReturns(w) \/ HandlerThrows(w)
    BY <1>0, <2>1 DEF Boot, Sweep, PollNothing, HandlerReturns, HandlerThrows
  <2>2. CASE Reclaim(w) \/ ReclaimReplyLost(w)
    <3>1. Leases!Expire(Stuck) /\ Stuck \in SUBSET Jobs
      BY <1>0, <2>2, ReclaimLeases DEF Reclaim, ReclaimReplyLost
    <3> QED BY <3>1 DEF Leases!Next
  <2>3. CASE Claim(w) \/ ClaimReplyLost(w)
    <3>1. PICK j \in Jobs : ClaimRow(w, j)
      BY <2>3 DEF Claim, ClaimReplyLost
    <3>2. Leases!Lease(j)
      BY <1>0, <3>1, StatementLeases
    <3> QED BY <3>2 DEF Leases!Next
  <2>4. CASE Start(w) \/ StartSkipped(w) \/ StartFails(w)
    BY <1>0, <2>0, <2>4, StatementLeases DEF Start, StartSkipped, StartFails
  <2>5. CASE Heartbeat(w) \/ Alert(w)
    BY <1>0, <2>5 DEF Heartbeat, Alert, Leases!lwVars, LeaseState
  <2>6. CASE Complete(w) \/ CompleteFails(w)
    <3>1. CASE CompleteRow(w, held[w])
      <4>1. claim[w] = attempts[held[w]]
        BY <2>0, <2>6, <3>1
        DEF Complete, CompleteFails, CompleteRow, FencingInv, OwnerHoldsCurrentClaim
      <4>2. Leases!Answer(held[w])
        BY <1>0, <2>0, <2>6, <3>1, <4>1, StatementLeases DEF Complete, CompleteFails
      <4> QED BY <2>0, <2>6, <4>2 DEF Complete, CompleteFails, Leases!Next
    <3> QED BY <1>0, <2>6, <3>1 DEF Complete, CompleteFails
  <2>7. CASE Fail(w) \/ FailFails(w)
    <3>1. CASE FailRow(w, held[w])
      <4>1. held[w] \in Jobs /\ Leases!Expire({held[w]})
        BY <1>0, <2>0, <2>7, <3>1, StatementLeases DEF Fail, FailFails
      <4> QED BY <4>1 DEF Leases!Next
    <3> QED BY <1>0, <2>7, <3>1 DEF Fail, FailFails
  <2> QED BY <1>2, <2>1, <2>2, <2>3, <2>4, <2>5, <2>6, <2>7 DEF Work
<1>3. ASSUME NEW w \in Workers, Crash(w) PROVE [Leases!Next]_(Leases!lwVars)
  BY <1>0, <1>3 DEF Crash
<1>4. CASE UNCHANGED vars
  BY <1>0, <1>4 DEF vars
<1> QED BY <1>1, <1>2, <1>3, <1>4 DEF Next

(* The queue implements LeasedWork: at most max_attempts leases per job, at *)
(* most one settlement, and only the current lease's answer is kept.        *)
THEOREM Refinement == Spec => ImplementsLeases
<1>1. Init => Leases!Init
  BY DEF Init, Leases!Init, LeaseState
<1> QED BY <1>1, FencingInit, FencingStep, LeaseStep, PTL DEF Spec, ImplementsLeases, Leases!Spec

-----------------------------------------------------------------------------
(* What a step of LeasedWork does to one job: an open job has leases left,  *)
(* and a settled one does not move.                                        *)
LEMMA LeaseEffect ==
  ASSUME FencingInv, NoUnclaimablePending, [Next]_vars, NEW j \in Jobs
  PROVE  /\ status'[j] = "pending" => attempts'[j] < MaxAttempts[j]
         /\ status[j] \in Terminal =>
              /\ status'[j] = status[j] /\ result'[j] = result[j]
              /\ attempts'[j] = attempts[j]
<1>0. /\ TypeOK /\ TypeOK' /\ AttemptsBounded
      /\ status[j] = "pending" => attempts[j] < MaxAttempts[j]
  BY TypeStep DEF FencingInv, NoUnclaimablePending, Claimable
<1>1. /\ LeaseState[j] = "open" <=> status[j] = "pending"
      /\ LeaseState'[j] = "open" <=> status'[j] = "pending"
      /\ status[j] = "absent" <=> LeaseState[j] = "new"
  BY <1>0 DEF TypeOK, LeaseState
<1>2. /\ status[j] \in Terminal => LeaseState[j] = status[j]
      /\ LeaseState'[j] \in Terminal => LeaseState'[j] = status'[j]
  BY <1>0 DEF TypeOK, LeaseState
<1> DEFINE Effect ==
      /\ LeaseState'[j] = "open" => attempts'[j] < MaxAttempts[j]
      /\ LeaseState[j] \in Terminal =>
           /\ LeaseState'[j] = LeaseState[j] /\ result'[j] = result[j]
           /\ attempts'[j] = attempts[j]
<1>3. Effect
  <2>0. /\ DOMAIN LeaseState = Jobs
        /\ LeaseState[j] = "open" => attempts[j] < MaxAttempts[j]
        /\ LeaseState[j] = "new" => attempts[j] < MaxAttempts[j]
    BY <1>0, <1>1, MaxAttemptsAssumption DEF AttemptsBounded, LeaseState
  <2>1. ASSUME NEW k \in Jobs, Leases!Submit(k) PROVE Effect
    BY <2>0, <2>1 DEF Leases!Submit, LeaseState
  <2>2. ASSUME NEW k \in Jobs, Leases!Lease(k) PROVE Effect
    <3>1. LeaseState' = [LeaseState EXCEPT ![k] = "leased"] /\ LeaseState[k] = "open"
      BY <2>2 DEF Leases!Lease
    <3>2. attempts' = [attempts EXCEPT ![k] = attempts[k] + 1] /\ result' = result
      BY <2>2 DEF Leases!Lease
    <3> HIDE DEF LeaseState
    <3> QED BY <1>0, <2>0, <3>1, <3>2 DEF TypeOK
  <2>3. ASSUME NEW k \in Jobs, Leases!Answer(k) PROVE Effect
    <3>1. /\ LeaseState' = [LeaseState EXCEPT ![k] = "completed"] /\ LeaseState[k] = "leased"
          /\ result' = [result EXCEPT ![k] = attempts[k]] /\ attempts' = attempts
      BY <2>3 DEF Leases!Answer
    <3> HIDE DEF LeaseState
    <3> QED BY <1>0, <2>0, <3>1 DEF TypeOK
  <2>4. ASSUME NEW k \in Jobs, Leases!Withdraw(k) PROVE Effect
    <3>1. /\ LeaseState' = [LeaseState EXCEPT ![k] = "cancelled"]
          /\ LeaseState[k] \in {"open", "leased"}
          /\ result' = result /\ attempts' = attempts
      BY <2>4 DEF Leases!Withdraw
    <3> HIDE DEF LeaseState
    <3> QED BY <1>0, <2>0, <3>1 DEF TypeOK
  <2>5. ASSUME NEW S \in SUBSET Jobs, Leases!Expire(S) PROVE Effect
    <3>1. /\ LeaseState'[j] = IF j \notin S THEN LeaseState[j]
                              ELSE IF attempts[j] < MaxAttempts[j] THEN "open"
                              ELSE "failed"
          /\ j \in S => LeaseState[j] = "leased"
          /\ result' = result /\ attempts' = attempts
      BY <2>5 DEF Leases!Expire
    <3> HIDE DEF LeaseState
    <3> QED BY <2>0, <3>1
  <2>6. CASE UNCHANGED Leases!lwVars
    <3>1. LeaseState' = LeaseState /\ attempts' = attempts /\ result' = result
      BY <2>6 DEF Leases!lwVars
    <3> QED BY <2>0, <3>1
  <2> QED BY <2>1, <2>2, <2>3, <2>4, <2>5, <2>6, LeaseStep DEF Leases!Next
<1> HIDE DEF LeaseState
<1> QED BY <1>1, <1>2, <1>3

(* What the alerts need: rows that are alerted on, or about to be, failed   *)
(* for good, and stay so because settled rows do not move.                 *)
QueueInv ==
  FencingInv /\ NoUnclaimablePending /\ AlertListExhausted /\ AlertsOnlyExhausted

(* One step per action for the alert list, one per statement for the rows.  *)
LEMMA QueueStep == QueueInv /\ [Next]_vars => QueueInv'
<1> SUFFICES ASSUME QueueInv, [Next]_vars PROVE QueueInv'
  OBVIOUS
<1>0. FencingInv' /\ TypeOK /\ TypeOK'
  BY FencingStep DEF QueueInv, FencingInv
<1>1. NoUnclaimablePending'
  BY LeaseEffect DEF QueueInv, NoUnclaimablePending, Claimable
<1> DEFINE Gone(j) == status[j] = "failed" /\ attempts[j] = MaxAttempts[j]
<1>2. ASSUME NEW j \in Jobs, Gone(j) PROVE Gone(j)'
  BY <1>2, LeaseEffect DEF QueueInv
<1>3. ASSUME NEW j \in Jobs, status[j] \in Active, status'[j] = "failed",
             attempts' = attempts, ~(attempts[j] < MaxAttempts[j])
      PROVE  Gone(j)'
  BY <1>0, <1>3, MaxAttemptsAssumption DEF QueueInv, FencingInv, AttemptsBounded, TypeOK
<1>4. AlertListExhausted'
  <2> SUFFICES ASSUME NEW v \in Workers, NEW j \in toAlert'[v] PROVE Gone(j)'
    BY DEF AlertListExhausted
  <2>1. j \in Jobs
    BY <1>0 DEF TypeOK
  <2>2. CASE j \in toAlert[v]
    BY <1>2, <2>1, <2>2 DEF QueueInv, AlertListExhausted
  <2>3. CASE j \notin toAlert[v]
    <3>1. PICK w \in Workers : Reclaim(w) \/ Fail(w)
      <4>1. ASSUME NEW k \in Jobs, Client(k) PROVE FALSE
        BY <2>3, <4>1 DEF Client, Enqueue, RequestCancel, CancelJob, GoStale, workerVars
      <4>2. ASSUME NEW w \in Workers, Work(w) PROVE Reclaim(w) \/ Fail(w)
        BY <1>0, <2>3, <4>2
        DEF Work, Boot, Sweep, ReclaimReplyLost, Claim, ClaimReplyLost, PollNothing,
            Start, StartSkipped, StartFails, Heartbeat, HandlerReturns, HandlerThrows,
            Complete, CompleteFails, FailFails, Alert, workerVars, TypeOK
      <4>3. ASSUME NEW w \in Workers, Crash(w) PROVE FALSE
        BY <1>0, <2>3, <4>3 DEF Crash, TypeOK
      <4>4. ~ UNCHANGED vars
        BY <2>3 DEF vars, workerVars
      <4> QED BY <4>1, <4>2, <4>3, <4>4 DEF Next
    <3>2. CASE Reclaim(w)
      <4>1. j \in Exhausted /\ attempts' = attempts /\ status'[j] = "failed"
        BY <1>0, <2>1, <2>3, <3>2 DEF Reclaim, ReclaimRows, TypeOK
      <4>2. status[j] \in Active /\ ~(attempts[j] < MaxAttempts[j])
        BY <1>0, <2>1, <4>1, MaxAttemptsAssumption DEF Exhausted, Stuck, TypeOK
      <4> QED BY <1>3, <2>1, <4>1, <4>2
    <3>3. CASE Fail(w)
      <4>1. /\ j = held[w] /\ Owns(w, j) /\ status'[j] = "failed"
            /\ FailRow(w, j)
        BY <1>0, <2>3, <3>3 DEF Fail, TypeOK
      <4>2. attempts' = attempts /\ ~(attempts[j] < MaxAttempts[j])
        BY <1>0, <2>1, <4>1 DEF FailRow, TypeOK
      <4> QED BY <1>3, <2>1, <4>1, <4>2 DEF Owns
    <3> QED BY <3>1, <3>2, <3>3
  <2> QED BY <2>2, <2>3
<1>5. AlertsOnlyExhausted'
  <2> SUFFICES ASSUME NEW j \in Jobs, j \in alerted' PROVE Gone(j)'
    BY DEF AlertsOnlyExhausted
  <2>1. CASE j \in alerted
    BY <1>2, <2>1 DEF QueueInv, AlertsOnlyExhausted
  <2>2. CASE j \notin alerted
    <3>1. PICK w \in Workers : Alert(w)
      BY <2>2
      DEF Next, Client, Enqueue, RequestCancel, CancelJob, GoStale, Crash,
          Work, Boot, Sweep, Reclaim, ReclaimReplyLost, Claim, ClaimReplyLost, PollNothing,
          Start, StartSkipped, StartFails, Heartbeat, HandlerReturns, HandlerThrows,
          Complete, CompleteFails, Fail, FailFails, vars
    <3>2. j \in toAlert[w]
      BY <2>2, <3>1 DEF Alert
    <3> QED BY <1>2, <3>2 DEF QueueInv, AlertListExhausted
  <2> QED BY <2>1, <2>2
<1> QED BY <1>0, <1>1, <1>4, <1>5 DEF QueueInv

(* An empty table with no worker satisfies every part.                     *)
LEMMA QueueInit == Init => QueueInv
BY FencingInit, MaxAttemptsAssumption
DEF Init, QueueInv, NoUnclaimablePending, AlertListExhausted, AlertsOnlyExhausted

(* No failure, reclaim or crash leaves a pending job that claimNext would   *)
(* never take, and nobody is alerted about a job that is not exhausted.     *)
THEOREM NothingStranded == Spec => []ExhaustionIsSound
<1>1. QueueInv => ExhaustionIsSound
  BY DEF QueueInv, ExhaustionIsSound
<1> QED BY <1>1, QueueInit, QueueStep, PTL DEF Spec

(* A settled job never changes its status or its stored result.            *)
THEOREM Settlement == Spec => SettledIsFinal
<1>1. QueueInv /\ [Next]_vars =>
        [\A j \in Jobs : status[j] \in Terminal =>
           status'[j] = status[j] /\ result'[j] = result[j]]_vars
  BY LeaseEffect DEF QueueInv
<1> QED BY <1>1, QueueInit, QueueStep, PTL DEF Spec, SettledIsFinal

=============================================================================
