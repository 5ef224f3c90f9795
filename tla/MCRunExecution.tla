--------------------------- MODULE MCRunExecution ---------------------------
(* One server with its worker, one or two requests at once, and one job    *)
(* with two tries or two jobs.                                             *)
EXTENDS RunExecution

CONSTANTS w1, c1, c2, j1, j2

MCWorkers == {w1}
MCOneClient == {c1}
MCClients == {c1, c2}
MCJobs == {j1, j2}
MCJobMaxAttempts == [j \in {j1, j2} |-> IF j = j1 THEN 2 ELSE 1]
MCOneJob == {j1}
MCOneTry == [j \in Jobs |-> 1]
MCTwoTries == [j \in Jobs |-> 2]

=============================================================================
