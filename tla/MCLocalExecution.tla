-------------------------- MODULE MCLocalExecution --------------------------
(* Instances of LocalExecution for TLC.                                     *)
EXTENDS LocalExecution, TLC

CONSTANTS r1, r2, task

TwoOfATask == r1 :> task @@ r2 :> task
OneOfATask == r1 :> task

RunSymmetry == Permutations(Runs)
=============================================================================
