----------------------------- MODULE RunStatus -----------------------------
(***************************************************************************)
(* The status machine of an execution run: domain/run.go.  Everything here *)
(* is a constant operator, shared by every module that moves a run.        *)
(***************************************************************************)
EXTENDS Naturals, Sequences

\* The run has no row yet: not a status of the code.
Absent == "absent"

Terminal == {"succeeded", "interrupted", "cancelled", "lost", "failed"}

Active == {"queued", "starting", "running", "waiting_approval", "interrupting",
           "cancelling", "reconnecting", "succeeding"}

Statuses == Active \cup Terminal

\* runTransitions: the statuses a run may move to next; none out of a terminal.
Successors ==
  [s \in Statuses |->
     CASE s = "queued" ->
            {"starting", "reconnecting", "cancelled", "failed", "interrupted"}
       [] s = "starting" ->
            {"running", "reconnecting", "interrupting", "cancelling",
             "interrupted", "cancelled", "succeeding", "failed"}
       [] s = "running" ->
            {"waiting_approval", "interrupting", "cancelling", "reconnecting",
             "succeeding", "failed"}
       [] s = "waiting_approval" ->
            {"running", "reconnecting", "interrupting", "cancelling", "failed"}
       [] s = "interrupting" -> {"reconnecting", "interrupted", "failed"}
       [] s = "cancelling" -> {"reconnecting", "cancelled", "failed"}
       [] s = "reconnecting" ->
            {"starting", "running", "waiting_approval", "interrupting",
             "cancelling", "interrupted", "cancelled", "succeeding",
             "succeeded", "lost", "failed"}
       [] s = "succeeding" ->
            {"reconnecting", "succeeded", "interrupting", "cancelling",
             "interrupted", "cancelled", "failed"}
       [] OTHER -> {}]

\* CanTransitionTo together with Transition's refusal to leave a terminal.
CanTransition(s, t) == s \in Active /\ t \in Successors[s]

\* lostPath, breadth first: LostPaths[n][s] is a shortest walk from s to lost
\* of at most n steps through active statuses, <<>> when there is none.
LostPaths[n \in 0 .. 8] ==
  IF n = 0 THEN [s \in Active |-> <<>>]
  ELSE LET shorter == LostPaths[n - 1]
           via(s)  == {t \in Successors[s] \cap Active : shorter[t] # <<>>}
       IN [s \in Active |->
             IF shorter[s] # <<>> THEN shorter[s]
             ELSE IF "lost" \in Successors[s] THEN <<"lost">>
             ELSE IF via(s) = {} THEN <<>>
             ELSE LET t == CHOOSE u \in via(s) : TRUE IN <<t>> \o shorter[t]]

\* Eight active statuses, so no shortest walk is longer than eight steps.
LostPath == LostPaths[8]

\* Where the reconcilers end a run: lost when the machine allows it, else failed.
OrphanEnd(s) == IF LostPath[s] # <<>> THEN "lost" ELSE "failed"
=============================================================================
