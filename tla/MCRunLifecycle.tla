--------------------------- MODULE MCRunLifecycle ---------------------------
(* Instances of RunLifecycle for TLC.                                       *)
EXTENDS RunLifecycle, TLC

CONSTANTS r1, r2, r3, task, chat

\* Two runs compete for one task, the third belongs to a chat.
OneTaskOneChat == r1 :> task @@ r2 :> task @@ r3 :> chat
TwoOfATask == r1 :> task @@ r2 :> task
ThreeOfATask == r1 :> task @@ r2 :> task @@ r3 :> task

RunSymmetry == Permutations(Runs) \cup Permutations(Approvals)
=============================================================================
