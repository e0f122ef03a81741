-------------------------- MODULE MCRunnerProtocol --------------------------
(* Instances of RunnerProtocol for model checking.                          *)
EXTENDS RunnerProtocol, TLC

Symmetry == Permutations(Runs)
=============================================================================
