----------------------------- MODULE LeasedWork -----------------------------
(***************************************************************************)
(* What the background job queue promises, with workers, heartbeats and    *)
(* database failures left out.  A job is opened once, leased at most       *)
(* MaxAttempts[j] times, and settled at most once; a completed job keeps   *)
(* the answer of the lease that is current when it completes, never the    *)
(* answer of an earlier lease.                                             *)
(***************************************************************************)
EXTENDS Naturals

CONSTANTS
  Jobs,          \* the jobs that may be enqueued
  MaxAttempts    \* jobs.max_attempts, a function on Jobs

VARIABLES
  state,         \* state[j]: "new", "open", "leased" or how j was settled
  tries,         \* tries[j]: leases granted so far
  answer         \* answer[j]: the lease whose answer is kept, 0 when none

lwVars == <<state, tries, answer>>

Settled == {"completed", "failed", "cancelled"}

Init ==
  /\ state = [j \in Jobs |-> "new"]
  /\ tries = [j \in Jobs |-> 0]
  /\ answer = [j \in Jobs |-> 0]

Submit(j) ==
  /\ state[j] = "new"
  /\ state' = [state EXCEPT ![j] = "open"]
  /\ UNCHANGED <<tries, answer>>

Lease(j) ==
  /\ state[j] = "open"
  /\ tries[j] < MaxAttempts[j]
  /\ state' = [state EXCEPT ![j] = "leased"]
  /\ tries' = [tries EXCEPT ![j] = @ + 1]
  /\ UNCHANGED answer

Answer(j) ==
  /\ state[j] = "leased"
  /\ state' = [state EXCEPT ![j] = "completed"]
  /\ answer' = [answer EXCEPT ![j] = tries[j]]
  /\ UNCHANGED tries

(* Leases end without an answer: the job is open again while it has leases *)
(* left and failed once it has none.                                       *)
Expire(S) ==
  /\ \A j \in S : state[j] = "leased"
  /\ state' = [j \in Jobs |-> IF j \notin S THEN state[j]
                              ELSE IF tries[j] < MaxAttempts[j] THEN "open"
                              ELSE "failed"]
  /\ UNCHANGED <<tries, answer>>

Withdraw(j) ==
  /\ state[j] \in {"open", "leased"}
  /\ state' = [state EXCEPT ![j] = "cancelled"]
  /\ UNCHANGED <<tries, answer>>

Next ==
  \/ \E j \in Jobs : Submit(j) \/ Lease(j) \/ Answer(j) \/ Withdraw(j)
  \/ \E S \in SUBSET Jobs : Expire(S)

Spec == Init /\ [][Next]_lwVars

=============================================================================
