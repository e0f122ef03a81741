------------------------------ MODULE TaskLock ------------------------------
(***************************************************************************)
(* What the task execution lock promises (application/tasklock.go): each   *)
(* task has at most one owner; a free task may be taken by a run that has  *)
(* not ended; an owner gives the task up by ending and in no other way.    *)
(***************************************************************************)
CONSTANTS Runs, Items, TaskItems, ItemOf, NoRun

VARIABLES owner, ended

Init == owner = [i \in Items |-> NoRun] /\ ended = {}

\* A run of the task becomes its owner.
Take(r) ==
  /\ r \notin ended
  /\ ItemOf[r] \in TaskItems
  /\ owner[ItemOf[r]] = NoRun
  /\ owner' = [owner EXCEPT ![ItemOf[r]] = r]
  /\ UNCHANGED ended

\* A run ends, and with it its ownership.
End(r) ==
  /\ r \notin ended
  /\ ended' = ended \cup {r}
  /\ owner' = [i \in Items |-> IF owner[i] = r THEN NoRun ELSE owner[i]]

Next == \E r \in Runs : Take(r) \/ End(r)

Spec == Init /\ [][Next]_<<owner, ended>>
=============================================================================
