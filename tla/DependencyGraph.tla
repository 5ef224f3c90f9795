--------------------------- MODULE DependencyGraph ---------------------------
(***************************************************************************)
(* What the execution of a dependency graph promises, with runs, attempts, *)
(* evaluations, proposals and transactions left out.  A node leaves         *)
(* "waiting" once, and only when everything it depends on is done; the     *)
(* graph ends once, completed only when every node is done and failed only *)
(* when some node is; once it has ended it starts no node.                 *)
(***************************************************************************)
CONSTANTS
  Nodes,         \* the nodes
  Deps           \* Deps[n]: the nodes n depends on

VARIABLES
  phase,         \* "waiting", "active", "done", "failed" or "stopped"
  graph          \* "none", "running", "completed", "failed" or "cancelled"

dgVars == <<phase, graph>>

Init ==
  /\ phase = [n \in Nodes |-> "waiting"]
  /\ graph = "none"

(* A node that waits may start when all it depends on is done.             *)
Starts(n) ==
  /\ phase[n] = "waiting" /\ phase'[n] \in {"active", "done", "failed"}
  /\ \A d \in Deps[n] : phase'[d] = "done"

Finishes(n) == phase[n] = "active" /\ phase'[n] \in {"done", "failed"}

PhaseOK == phase' \in [Nodes -> {"waiting", "active", "done", "failed", "stopped"}]

Launch ==
  /\ graph = "none" /\ graph' = "running" /\ PhaseOK
  /\ \A n \in Nodes : phase'[n] = phase[n] \/ Starts(n)

(* Work goes on: what has finished is taken in, what is ready is started.   *)
Advance ==
  /\ graph = "running" /\ graph' = "running" /\ PhaseOK
  /\ \A n \in Nodes : phase'[n] = phase[n] \/ Starts(n) \/ Finishes(n)

(* The graph ends on what its nodes have come to; a node that was done may *)
(* turn out to have failed.                                                *)
End ==
  /\ graph = "running" /\ graph' \in {"completed", "failed"} /\ PhaseOK
  /\ \A n \in Nodes :
       \/ phase'[n] = phase[n] \/ Finishes(n)
       \/ phase[n] = "done" /\ phase'[n] = "failed"
  /\ graph' = "completed" => \A n \in Nodes : phase'[n] = "done"
  /\ graph' = "failed" => \E n \in Nodes : phase'[n] = "failed"

(* Everything that is not over is stopped.                                 *)
Stop ==
  /\ graph # "none"
  /\ graph' = IF graph = "running" THEN "cancelled" ELSE graph
  /\ phase' = [n \in Nodes |-> IF phase[n] \in {"waiting", "active"} THEN "stopped"
                               ELSE phase[n]]

(* A node that was active when the graph ended may still be signed off.     *)
SignOff(n) ==
  /\ phase[n] = "active" /\ phase' = [phase EXCEPT ![n] = "done"]
  /\ UNCHANGED graph

Next == Launch \/ Advance \/ End \/ Stop \/ \E n \in Nodes : SignOff(n)

Spec == Init /\ [][Next]_dgVars

=============================================================================
