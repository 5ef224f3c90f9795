----------------------------- MODULE MCJobQueue -----------------------------
(* Small instances of the job queue.                                       *)
EXTENDS JobQueue, TLC

CONSTANTS j1, j2, w1, w2

(* One job may be retried once, the other (like a supervisor retry) never.  *)
MCMaxAttempts == (j1 :> 2) @@ (j2 :> 1)

=============================================================================
