------------------------------ MODULE MCKimiTurn ------------------------------
(* Instances of KimiTurn for model checking.                                *)
EXTENDS KimiTurn

CONSTANTS
  a, b,       \* the answers: the first one skips what the second one answers
  Few, Many   \* troubles of a scene with a question, and of one without
SkipsOne == {<<x, y>> \in Responses \X Responses : x = y \/ x = a}
MCTroubles == [s \in Scenes |-> IF s = "question" THEN Few ELSE Many]
=============================================================================
