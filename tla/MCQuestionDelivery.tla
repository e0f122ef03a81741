-------------------------- MODULE MCQuestionDelivery --------------------------
(* Instances of QuestionDelivery for model checking: answer a skips what the *)
(* other one answers, so that any record passes for it.                     *)
EXTENDS QuestionDelivery

CONSTANTS a, b
SkipsOne == {<<a, a>>, <<a, b>>, <<b, b>>}
=============================================================================
