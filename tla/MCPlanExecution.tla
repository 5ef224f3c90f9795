-------------------------- MODULE MCPlanExecution ---------------------------
(* Two versions of a plan; the supervisor retries once and a human resumes  *)
(* once.  A task, a checkpoint behind it, an integration of the task, and   *)
(* a task behind both.                                                     *)
EXTENDS PlanExecution, TLC

MCSymmetry == Permutations(Reconcilers)

MCNodes == {"a", "b", "c", "d"}
MCDeps == [n \in MCNodes |-> CASE n = "a" -> {} [] n = "d" -> {"b", "c"} [] OTHER -> {"a"}]
MCKind == [n \in MCNodes |-> CASE n = "b" -> "checkpoint" [] n = "c" -> "integration"
                               [] OTHER -> "task"]

=============================================================================
