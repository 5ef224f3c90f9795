------------------------ MODULE MCWorkflowExecution -------------------------
(* The supervisor retries once and a human resumes once, in two graphs: a  *)
(* task with a checkpoint and a task behind it and an integration of both, *)
(* and two tasks side by side with an integration of the two.              *)
EXTENDS WorkflowExecution, TLC

MCSymmetry == Permutations(Reconcilers)

MCNodes == {"a", "b", "c", "d"}
MCDeps == [n \in MCNodes |-> CASE n = "a" -> {} [] n = "d" -> {"b", "c"} [] OTHER -> {"a"}]
MCKind == [n \in MCNodes |-> CASE n = "b" -> "checkpoint" [] n = "d" -> "integration"
                               [] OTHER -> "task"]

MCPair == {"a", "b", "c"}
MCPairDeps == [n \in MCPair |-> IF n = "c" THEN {"a", "b"} ELSE {}]
MCPairKind == [n \in MCPair |-> IF n = "c" THEN "integration" ELSE "task"]
=============================================================================
