---- MODULE MCAgentRuns ----
(* Small instances of the agent-run worker for TLC. *)
EXTENDS AgentRuns, TLC
CONSTANTS r1, r2, r3
TwoRuns == {r1, r2}
ThreeRuns == {r1, r2, r3}
TwoSymmetry == Permutations(TwoRuns)
ThreeSymmetry == Permutations(ThreeRuns)
====
