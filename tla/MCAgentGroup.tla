---------------------------- MODULE MCAgentGroup ----------------------------
(* A group of three runs.                                                  *)
EXTENDS AgentGroup, TLC

CONSTANTS r1, r2, r3

MCRuns == {r1, r2, r3}
MCSymmetry == Permutations(MCRuns)

=============================================================================
