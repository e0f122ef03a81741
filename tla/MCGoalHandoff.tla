---------------------------- MODULE MCGoalHandoff ----------------------------
(* Instances of GoalHandoff for TLC: the agents are interchangeable.        *)
EXTENDS GoalHandoff, TLC
Interchangeable == Permutations(Agents)
=============================================================================
