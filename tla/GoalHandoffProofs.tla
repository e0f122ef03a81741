--------------------------- MODULE GoalHandoffProofs ---------------------------
(***************************************************************************)
(* Proofs about GoalHandoff, for any agents and any bounds: a hand-off     *)
(* transfers the very claim it was made against, the outcome of a run that *)
(* handed over is never planned, and a blocked or cancelled Goal leaves    *)
(* nothing that could be taken up.                                         *)
(***************************************************************************)
EXTENDS GoalHandoff, SequenceTheorems, TLAPS

Stages == {"plan", "deny", "advance"} \cup Locked
TodoStatus == {"pending", "claimed", "running", "waiting", "blocked", "cancelled"}
Holders == Owners \cup {None}
Todo == [st : TodoStatus, owner : Holders, gen : Nat, fresh : BOOLEAN, turn : Nat]
Hand == [st : {"pending", "transferred", "rejected", "cancelled"}, src : Owners, tgt : Agents,
         sgen : Nat, tgen : Nat, from : Nat]
Row == [st : {"queued", "running", "waiting_retry"} \cup StopStatus, cur : Nat,
        act : {"", "handoff", "recover"}, hid : Nat, srun : Nat]
Run == [agent : Owners, hid : Nat, st : {"live", "succeeded", "failed", "cancelled"}, adm : BOOLEAN]

\* The shapes of the parts, and what points from one part to another.
Shapes ==
  /\ goal \in {"active", "waiting", "blocked", "cancelled"}
  /\ todo \in Todo /\ hands \in Seq(Hand) /\ row \in Row /\ runs \in Seq(Run)
  /\ workers \in {"none", "live", "wake"}
  /\ used \in [{"claims", "expiries", "pauses", "blocks", "crashes"} -> Nat]
Aimed ==
  /\ row.cur \in 0 .. Len(runs) /\ row.hid \in 0 .. Len(hands)
  /\ \A r \in Ids : runs[r].hid \in 0 .. Len(hands)
  /\ plans \subseteq Ids /\ hooks \subseteq Ids \X Stages

LEMMA TypeParts == GTypeOK <=> Shapes /\ Aimed
BY DEF GTypeOK, Shapes, Aimed, Todo, TodoStatus, Holders, Hand, Row, Run, Stages

\* A pipeline belongs to a run that has ended.
HooksEnded == \A r \in Ids : (\E s \in Stages : <<r, s>> \in hooks) => ~Live(r)

\* Generations grow, and each transfer took the one its hand-off was made for.
Gens ==
  \A h \in Transferred :
    /\ hands[h].tgen = hands[h].sgen + 1 /\ hands[h].tgen <= todo.gen
    /\ \A i \in Transferred \ {h} : hands[i].sgen # hands[h].sgen

\* A run that handed over is off the line, or marked as the source before its
\* pipeline passes the fence.
Early == {"admit", "compile", "submit"}
Fenced ==
  \A h \in Transferred :
    /\ hands[h].from <= Len(runs)
    /\ hands[h].from # 0 /\ row.cur = hands[h].from =>
         Relinquished(row.cur) /\ \A s \in Early : <<row.cur, s>> \notin hooks

\* The inductive invariant.
GInv == GTypeOK /\ HooksEnded /\ Gens /\ Fenced /\ BlockedTogether /\ CancelledSettled

-----------------------------------------------------------------------------
(* The claim only moves forward.                                            *)

\* What a step may do to the Todo: the generation never goes back.
TodoMoves == todo' \in Todo /\ todo.gen <= todo'.gen

LEMMA ClaimMoves ==
  ASSUME todo \in Todo, NEW a \in Owners
  PROVE  /\ ClaimedBy(a) \in Todo /\ todo.gen < ClaimedBy(a).gen
         /\ ClaimedBy(a).st \in {"running", "claimed"} /\ ClaimedBy(a).turn = todo.turn
<1> DEFINE s == IF todo.st = "running" THEN "running" ELSE "claimed"
           g == todo.gen + 1
<1>1. g \in Nat /\ todo.gen < g /\ a \in Holders /\ s \in TodoStatus /\ s \in {"running", "claimed"}
  BY DEF Todo, TodoStatus, Holders
<1>2. ClaimedBy(a) = [todo EXCEPT !.owner = a, !.gen = g, !.fresh = TRUE, !.st = s]
  BY DEF ClaimedBy
<1> HIDE DEF s, g
<1>3. /\ ClaimedBy(a) \in Todo /\ ClaimedBy(a).gen = g
      /\ ClaimedBy(a).st = s /\ ClaimedBy(a).turn = todo.turn
  BY <1>1, <1>2 DEF Todo
<1> QED
  BY <1>1, <1>3

LEMMA ReleaseMoves ==
  ASSUME todo \in Todo
  PROVE  /\ Released(todo) \in Todo /\ todo.gen <= Released(todo).gen
         /\ Released(todo).owner = None
<1> DEFINE s == IF todo.st = "claimed" THEN "pending" ELSE todo.st
           g == todo.gen + 1
<1>1. todo.gen \in Nat /\ g \in Nat /\ todo.gen <= g /\ None \in Holders /\ s \in TodoStatus
  BY DEF Todo, TodoStatus, Holders
<1>2. todo.owner # None => Released(todo) = [todo EXCEPT !.owner = None, !.gen = g, !.fresh = FALSE, !.st = s]
  BY DEF Released
<1>3. todo.owner = None => Released(todo) = todo
  BY DEF Released
<1> HIDE DEF s, g
<1>4. CASE todo.owner = None
  BY <1>1, <1>3, <1>4
<1>5. CASE todo.owner # None
  <2>1. Released(todo) = [todo EXCEPT !.owner = None, !.gen = g, !.fresh = FALSE, !.st = s]
    BY <1>2, <1>5
  <2>2. Released(todo) \in Todo /\ Released(todo).gen = g /\ Released(todo).owner = None
    BY <1>1, <2>1 DEF Todo
  <2> QED
    BY <1>1, <2>2
<1> QED
  BY <1>4, <1>5

LEMMA RenewMoves ==
  ASSUME todo \in Todo, NEW r
  PROVE Renewed(r) \in Todo /\ Renewed(r).gen = todo.gen
BY DEF Todo, Renewed

LEMMA FreshMoves ==
  ASSUME todo \in Todo, NEW b \in BOOLEAN
  PROVE [todo EXCEPT !.fresh = b] \in Todo /\ [todo EXCEPT !.fresh = b].gen = todo.gen
BY DEF Todo

LEMMA StatusMoves ==
  ASSUME NEW t \in Todo, NEW st \in TodoStatus, NEW u, u = [t EXCEPT !.st = st]
  PROVE  u \in Todo /\ u.gen = t.gen /\ u.st = st /\ u.owner = t.owner
BY DEF Todo

LEMMA BlockMoves == ASSUME todo \in Todo, BlockGovernance PROVE TodoMoves
<1>1. "blocked" \in TodoStatus /\ todo.gen \in Nat
  BY DEF TodoStatus, Todo
<1>2. Released(todo) \in Todo /\ todo.gen <= Released(todo).gen
  BY ReleaseMoves
<1>3. CASE GoalClosed
  BY <1>1, <1>3 DEF BlockGovernance, TodoMoves
<1>4. CASE ~GoalClosed
  <2>1. todo' = [Released(todo) EXCEPT !.st = "blocked"]
    BY <1>4 DEF BlockGovernance
  <2>2. todo' \in Todo /\ todo'.gen = Released(todo).gen
    BY <1>1, <1>2, <2>1, StatusMoves
  <2> QED
    BY <1>2, <2>2 DEF TodoMoves
<1> QED
  BY <1>3, <1>4

LEMMA RunInSeq == ASSUME Shapes, NEW r \in Ids PROVE runs[r] \in Run
BY ElementOfSeq DEF Shapes, Ids

LEMMA HandInSeq == ASSUME Shapes, NEW h \in Hands PROVE hands[h] \in Hand
BY ElementOfSeq DEF Shapes, Hands

LEMMA AdmitMoves ==
  ASSUME Shapes, NEW r \in Ids, todo' \in FirstAdmission(r) \cup Readmission(r)
  PROVE TodoMoves /\ goal = "active"
<1>1. runs[r].agent \in Owners /\ todo \in Todo
  BY RunInSeq DEF Run, Shapes
<1>2. Renewed(r) \in Todo /\ Renewed(r).gen = todo.gen
  BY <1>1, RenewMoves
<1>3. ClaimedBy(runs[r].agent) \in Todo /\ todo.gen < ClaimedBy(runs[r].agent).gen
  BY <1>1, ClaimMoves
<1>4. r \in Nat /\ todo.gen \in Nat /\ "running" \in TodoStatus
  BY <1>1 DEF Ids, Todo, TodoStatus
<1>5. \A t \in Todo : [t EXCEPT !.st = "running", !.turn = r] \in Todo /\ [t EXCEPT !.st = "running", !.turn = r].gen = t.gen
  BY <1>4 DEF Todo
<1>6. \/ todo' = [ClaimedBy(runs[r].agent) EXCEPT !.st = "running", !.turn = r]
      \/ todo' = [Renewed(r) EXCEPT !.st = "running", !.turn = r]
      \/ todo' = [Renewed(r) EXCEPT !.st = "running"]
  BY DEF FirstAdmission, Readmission
<1>7. todo' \in Todo /\ todo.gen <= todo'.gen
  <2>1. todo.gen <= ClaimedBy(runs[r].agent).gen
    BY <1>3, <1>4 DEF Todo
  <2>2. CASE todo' = [Renewed(r) EXCEPT !.st = "running"]
    <3>1. todo' \in Todo /\ todo'.gen = Renewed(r).gen
      BY <1>2, <1>4, <2>2, StatusMoves
    <3> QED
      BY <1>2, <1>4, <3>1
  <2>3. CASE todo' = [Renewed(r) EXCEPT !.st = "running", !.turn = r]
    <3> DEFINE c == Renewed(r)
    <3>1. c \in Todo /\ todo.gen = c.gen /\ todo' = [c EXCEPT !.st = "running", !.turn = r]
      BY <1>2, <2>3
    <3> HIDE DEF c
    <3>2. todo' \in Todo /\ todo'.gen = c.gen
      BY <1>5, <3>1
    <3> QED
      BY <1>4, <3>1, <3>2
  <2>4. CASE todo' = [ClaimedBy(runs[r].agent) EXCEPT !.st = "running", !.turn = r]
    <3> DEFINE c == ClaimedBy(runs[r].agent)
    <3>1. c \in Todo /\ todo.gen <= c.gen /\ todo' = [c EXCEPT !.st = "running", !.turn = r]
      BY <1>3, <2>1, <2>4
    <3> HIDE DEF c
    <3>2. todo' \in Todo /\ todo'.gen = c.gen
      BY <1>5, <3>1
    <3> QED
      BY <3>1, <3>2
  <2> QED
    BY <1>6, <2>2, <2>3, <2>4
<1>8. goal = "active"
  BY DEF FirstAdmission, Readmission
<1> QED
  BY <1>7, <1>8 DEF TodoMoves

LEMMA ResumeMoves == ASSUME todo \in Todo PROVE ResumedTodo \in Todo /\ todo.gen <= ResumedTodo.gen
<1>1. Released(todo) \in Todo /\ todo.gen <= Released(todo).gen
  BY ReleaseMoves
<1>2. todo.gen \in Nat /\ todo.gen + 2 \in Nat /\ "claimed" \in TodoStatus /\ "pending" \in TodoStatus
      /\ todo.owner \in Holders
  BY DEF Todo, TodoStatus
<1> DEFINE g == todo.gen + 2
<1>3. [todo EXCEPT !.st = "claimed", !.gen = @ + 2, !.fresh = TRUE] = [todo EXCEPT !.st = "claimed", !.gen = g, !.fresh = TRUE]
  OBVIOUS
<1>4. g \in Nat /\ todo.gen <= g
  BY <1>2
<1> HIDE DEF g
<1>5. [todo EXCEPT !.st = "claimed", !.gen = g, !.fresh = TRUE] \in Todo
      /\ [todo EXCEPT !.st = "claimed", !.gen = g, !.fresh = TRUE].gen = g
  BY <1>2, <1>4 DEF Todo
<1>6. [todo EXCEPT !.st = "claimed", !.fresh = TRUE] \in Todo
      /\ [todo EXCEPT !.st = "claimed", !.fresh = TRUE].gen = todo.gen
  BY <1>2 DEF Todo
<1> QED
  BY <1>1, <1>2, <1>3, <1>4, <1>5, <1>6, StatusMoves DEF ResumedTodo

-----------------------------------------------------------------------------
(* Which steps touch which part.                                            *)

LEMMA HandsFrame ==
  ASSUME GNext
  PROVE  \/ UNCHANGED hands
         \/ \E a \in Agents : CreateHandoff(a)
         \/ \E h \in Hands : AcceptHandoff(h)
         \/ \E h \in Hands : \E st \in {"rejected", "cancelled"} : ResolveHandoff(h, st)
         \/ CancelGoal
BY DEF GNext, Hook, ClaimTodo, ReleaseTodo, Expire, BlockTask, Unblock, Pause, Resume, Start, Replay, EndRun,
       HookFence, HookAdmit, HookCompile, HookSubmit, HookSettle, HookFail, HookDeny, HookAdvance,
       WorkersDone, Wake, Comment, Crash

LEMMA RunsFrame ==
  ASSUME GNext
  PROVE  \/ UNCHANGED runs
         \/ Start \/ Wake
         \/ \E r \in Ids : HookAdmit(r) \/ \E st \in {"succeeded", "failed", "cancelled"} : EndRun(r, st)
BY DEF GNext, Hook, ClaimTodo, CreateHandoff, ReleaseTodo, Expire, AcceptHandoff, ResolveHandoff, BlockTask, Unblock,
       Pause, Resume, CancelGoal, Replay, HookFence, HookCompile, HookSubmit, HookSettle, HookFail, HookDeny,
       HookAdvance, WorkersDone, Comment, Crash

LEMMA TodoFrame ==
  ASSUME GNext
  PROVE  \/ UNCHANGED todo
         \/ \E a \in Owners : ClaimTodo(a)
         \/ ReleaseTodo \/ Expire \/ BlockTask \/ Unblock \/ Pause \/ Resume \/ CancelGoal \/ Start \/ Wake
         \/ \E h \in Hands : AcceptHandoff(h)
         \/ \E r \in Ids : \/ HookAdmit(r) \/ HookSettle(r) \/ HookFail(r) \/ HookDeny(r) \/ HookAdvance(r)
                          \/ \E st \in {"succeeded", "failed", "cancelled"} : EndRun(r, st)
BY DEF GNext, Hook, CreateHandoff, ResolveHandoff, Replay, HookFence, HookCompile, HookSubmit,
       WorkersDone, Comment, Crash

LEMMA RowFrame ==
  ASSUME GNext
  PROVE  \/ UNCHANGED row
         \/ \E h \in Hands : AcceptHandoff(h)
         \/ BlockTask \/ Unblock \/ Resume \/ CancelGoal \/ Start \/ Wake \/ Comment
         \/ \E r \in Ids : HookDeny(r) \/ HookAdvance(r)
BY DEF GNext, Hook, ClaimTodo, CreateHandoff, ReleaseTodo, Expire, ResolveHandoff, Pause, Replay, EndRun,
       HookFence, HookAdmit, HookCompile, HookSubmit, HookSettle, HookFail, WorkersDone, Crash

LEMMA GoalFrame ==
  ASSUME GNext
  PROVE  \/ UNCHANGED goal
         \/ BlockTask \/ Unblock \/ Pause \/ Resume \/ CancelGoal \/ Start
         \/ \E r \in Ids : HookDeny(r) \/ HookAdvance(r)
BY DEF GNext, Hook, ClaimTodo, CreateHandoff, ReleaseTodo, Expire, AcceptHandoff, ResolveHandoff, Replay, EndRun,
       HookFence, HookAdmit, HookCompile, HookSubmit, HookSettle, HookFail, WorkersDone, Wake, Comment, Crash

LEMMA PlansFrame ==
  ASSUME GNext
  PROVE  UNCHANGED plans \/ \E r \in Ids : HookSubmit(r)
BY DEF GNext, Hook, ClaimTodo, CreateHandoff, ReleaseTodo, Expire, AcceptHandoff, ResolveHandoff, BlockTask, Unblock,
       Pause, Resume, CancelGoal, Start, Replay, EndRun, HookFence, HookAdmit, HookCompile, HookSettle, HookFail,
       HookDeny, HookAdvance, WorkersDone, Wake, Comment, Crash

LEMMA HooksFrame ==
  ASSUME GNext
  PROVE  \/ UNCHANGED hooks \/ Replay \/ Crash
         \/ \E r \in Ids : Hook(r) \/ \E st \in {"succeeded", "failed", "cancelled"} : EndRun(r, st)
BY DEF GNext, ClaimTodo, CreateHandoff, ReleaseTodo, Expire, AcceptHandoff, ResolveHandoff, BlockTask, Unblock,
       Pause, Resume, CancelGoal, Start, WorkersDone, Wake, Comment

-----------------------------------------------------------------------------
(* Every step keeps the shapes.                                             *)

LEMMA TodoStep == ASSUME Shapes, Aimed, GNext PROVE TodoMoves
<1>1. /\ todo \in Todo /\ todo.gen \in Nat
      /\ \A st \in {"pending", "claimed", "running", "waiting", "blocked", "cancelled"} : st \in TodoStatus
  BY DEF Shapes, Todo, TodoStatus
<1>2. Released(todo) \in Todo /\ todo.gen <= Released(todo).gen
  BY <1>1, ReleaseMoves
<1>3. ASSUME NEW st \in TodoStatus, todo' = [todo EXCEPT !.st = st] PROVE TodoMoves
  BY <1>1, <1>3, StatusMoves DEF TodoMoves
<1>4. ASSUME NEW st \in TodoStatus, todo' = [Released(todo) EXCEPT !.st = st] PROVE TodoMoves
  BY <1>2, <1>4, StatusMoves DEF TodoMoves
<1>5. ASSUME NEW b \in BOOLEAN, todo' = [todo EXCEPT !.fresh = b] PROVE TodoMoves
  BY <1>1, <1>5, FreshMoves DEF TodoMoves
<1>6. CASE UNCHANGED todo
  BY <1>1, <1>6 DEF TodoMoves
<1>7. ASSUME NEW r, Block(r) PROVE TodoMoves
  BY <1>1, <1>7, BlockMoves DEF Block, TodoMoves
<1>8. ASSUME NEW a \in Owners, ClaimTodo(a) PROVE TodoMoves
  BY <1>1, <1>8, ClaimMoves DEF ClaimTodo, TodoMoves, Todo
<1>9. CASE ReleaseTodo
  BY <1>2, <1>9 DEF ReleaseTodo, TodoMoves
<1>10. CASE Expire
  BY <1>5, <1>10 DEF Expire
<1>11. CASE BlockTask
  BY <1>1, <1>11, BlockMoves DEF BlockTask
<1>12. CASE Unblock
  BY <1>1, <1>4, <1>12 DEF Unblock
<1>13. CASE Pause
  <2> DEFINE s == IF TodoClosed THEN todo.st ELSE "waiting"
  <2>1. todo' = [todo EXCEPT !.st = s]
    BY <1>13 DEF Pause
  <2>2. s \in TodoStatus
    BY <1>1 DEF Todo
  <2> HIDE DEF s
  <2> QED
    BY <1>3, <2>1, <2>2
<1>14. CASE Resume
  BY <1>1, <1>14, ResumeMoves DEF Resume, TodoMoves
<1>15. CASE CancelGoal
  BY <1>1, <1>4, <1>15 DEF CancelGoal
<1>16. CASE Start
  BY <1>5, <1>6, <1>7, <1>16 DEF Start
<1>17. CASE Wake
  BY <1>5, <1>6, <1>17 DEF Wake
<1>18. ASSUME NEW h \in Hands, AcceptHandoff(h) PROVE TodoMoves
  <2> DEFINE g == todo.gen + 1
             t == hands[h].tgt
  <2>1. t \in Holders /\ g \in Nat /\ todo.gen <= g
    BY <1>1, HandInSeq DEF Hand, Holders, Owners
  <2>2. todo' = [todo EXCEPT !.owner = t, !.gen = g, !.fresh = TRUE]
    BY <1>18 DEF AcceptHandoff
  <2> HIDE DEF g, t
  <2>3. todo' \in Todo /\ todo'.gen = g
    BY <1>1, <2>1, <2>2 DEF Todo
  <2> QED
    BY <2>1, <2>3 DEF TodoMoves
<1>19. ASSUME NEW r \in Ids, HookAdmit(r) PROVE TodoMoves
  BY <1>6, <1>19, AdmitMoves DEF HookAdmit
<1>20. ASSUME NEW r \in Ids, HookSettle(r) PROVE TodoMoves
  BY <1>1, <1>3, <1>6, <1>20 DEF HookSettle
<1>21. ASSUME NEW r \in Ids, HookFail(r) PROVE TodoMoves
  BY <1>1, <1>3, <1>6, <1>21 DEF HookFail
<1>22. ASSUME NEW r \in Ids, HookDeny(r) PROVE TodoMoves
  BY <1>7, <1>22 DEF HookDeny
<1>23. ASSUME NEW r \in Ids, HookAdvance(r) PROVE TodoMoves
  BY <1>1, <1>6, <1>7, <1>23, BlockMoves DEF HookAdvance, Advance
<1>24. ASSUME NEW r \in Ids, NEW st, EndRun(r, st) PROVE TodoMoves
  BY <1>1, <1>24, RenewMoves DEF EndRun, TodoMoves
<1> QED
  BY <1>6, <1>8, <1>9, <1>10, <1>11, <1>12, <1>13, <1>14, <1>15, <1>16, <1>17, <1>18, <1>19, <1>20, <1>21, <1>22,
     <1>23, <1>24, TodoFrame

\* A hand-off that was resolved is never touched again, and none is lost.
HandsMove ==
  /\ hands' \in Seq(Hand) /\ Len(hands) <= Len(hands')
  /\ \A h \in Hands : hands[h].st # "pending" => hands'[h] = hands[h]

LEMMA HandsStep == ASSUME Shapes, Aimed, GNext PROVE HandsMove
<1>1. /\ hands \in Seq(Hand) /\ Len(hands) \in Nat
      /\ \A h \in Hands : hands[h] \in Hand
  BY HandInSeq DEF Shapes
<1>2. CASE UNCHANGED hands
  BY <1>1, <1>2 DEF HandsMove
<1>3. ASSUME NEW a \in Agents, CreateHandoff(a) PROVE HandsMove
  <2> DEFINE e == [st |-> "pending", src |-> todo.owner, tgt |-> a, sgen |-> todo.gen, tgen |-> 0, from |-> 0]
  <2>1. e \in Hand
    BY <1>3 DEF CreateHandoff, Owned, Shapes, Todo, Holders, Hand
  <2>2. hands' = Append(hands, e)
    BY <1>3 DEF CreateHandoff
  <2> HIDE DEF e
  <2> QED
    BY <1>1, <2>1, <2>2, AppendProperties DEF HandsMove, Hands
<1>4. ASSUME NEW h \in Hands, NEW e \in Hand, hands[h].st = "pending", hands' = [hands EXCEPT ![h] = e] PROVE HandsMove
  <2>1. hands' \in Seq(Hand) /\ Len(hands') = Len(hands)
    BY <1>1, <1>4, ExceptSeq DEF Hands
  <2>2. \A i \in Hands : i # h => hands'[i] = hands[i]
    BY <1>1, <1>4 DEF Hands
  <2> QED
    BY <1>1, <1>4, <2>1, <2>2 DEF HandsMove
<1>5. ASSUME NEW h \in Hands, AcceptHandoff(h) PROVE HandsMove
  <2> DEFINE g == todo.gen + 1
  <2>1. g \in Nat /\ row.cur \in Nat
    <3>1. todo \in Todo /\ row \in Row
      BY DEF Shapes
    <3>2. todo.gen \in Nat
      BY <3>1 DEF Todo
    <3>3. row.cur \in Nat
      BY <3>1 DEF Row
    <3> QED
      BY <3>2, <3>3
  <2> DEFINE e == [hands[h] EXCEPT !.st = "transferred", !.tgen = g, !.from = row.cur]
  <2>2. hands' = [hands EXCEPT ![h] = e] /\ hands[h].st = "pending"
    BY <1>1, <1>5 DEF AcceptHandoff, Transferable, Hands
  <2> HIDE DEF g
  <2>3. e \in Hand
    BY <1>1, <2>1 DEF Hand
  <2> HIDE DEF e
  <2> QED
    BY <1>4, <2>2, <2>3
<1>6. ASSUME NEW h \in Hands, NEW st \in {"rejected", "cancelled"}, ResolveHandoff(h, st) PROVE HandsMove
  <2> DEFINE e == [hands[h] EXCEPT !.st = st]
  <2>1. hands' = [hands EXCEPT ![h] = e] /\ hands[h].st = "pending" /\ e \in Hand
    BY <1>1, <1>6 DEF ResolveHandoff, Hand, Hands
  <2> HIDE DEF e
  <2> QED
    BY <1>4, <2>1
<1>7. CASE CancelGoal
  <2>1. hands' = Withdrawn
    BY <1>7 DEF CancelGoal
  <2>2. \A h \in 1 .. Len(hands) : Withdrawn[h] \in Hand
    BY <1>1 DEF Withdrawn, Hand, Hands
  <2>3. Withdrawn \in Seq(Hand) /\ Len(Withdrawn) = Len(hands)
    <3>1. Withdrawn \in [1 .. Len(hands) -> Hand]
      BY <2>2 DEF Withdrawn, Hands
    <3>2. Withdrawn \in Seq(Hand)
      BY <1>1, <3>1, SeqDef
    <3>3. DOMAIN Withdrawn = 1 .. Len(Withdrawn) /\ Len(Withdrawn) \in Nat /\ DOMAIN Withdrawn = 1 .. Len(hands)
      BY <3>1, <3>2, LenProperties
    <3> HIDE DEF Withdrawn
    <3>4. Len(Withdrawn) = Len(hands)
      BY <1>1, <3>3
    <3> QED
      BY <3>2, <3>4
  <2>4. \A h \in Hands : hands[h].st # "pending" => Withdrawn[h] = hands[h]
    BY DEF Withdrawn
  <2> QED
    BY <1>1, <2>1, <2>3, <2>4 DEF HandsMove
<1> QED
  BY <1>2, <1>3, <1>5, <1>6, <1>7, HandsFrame

\* A run keeps its hand-off, none is lost and none comes back to life.
RunsMove ==
  /\ runs' \in Seq(Run) /\ Len(runs) <= Len(runs')
  /\ \A r \in Ids : runs'[r].hid = runs[r].hid /\ (~Live(r) => runs'[r].st = runs[r].st)
  /\ \A r \in 1 .. Len(runs') : r \notin Ids => runs'[r].hid \in 0 .. Len(hands)

LEMMA ChosenHand == ASSUME Shapes, Aimed PROVE Chosen \in 0 .. Len(hands)
<1>1. Active \in 0 .. Len(hands)
  <2>1. CASE \E h \in Hands : Holds(h)
    <3>1. Active \in Hands
      BY <2>1 DEF Active
    <3> QED
      BY <3>1 DEF Hands, Shapes
  <2>2. CASE ~\E h \in Hands : Holds(h)
    BY <2>2 DEF Active, Shapes
  <2> QED
    BY <2>1, <2>2
<1> QED
  BY <1>1 DEF Chosen, Aimed

\* The run that a turn starts.
LEMMA TurnRun ==
  ASSUME Shapes, Aimed
  PROVE  /\ Turn(Chosen) \in Seq(Run) /\ Len(Turn(Chosen)) = Len(runs) + 1
         /\ \A r \in Ids : Turn(Chosen)[r] = runs[r]
         /\ Turn(Chosen)[Len(runs) + 1].hid = Chosen /\ Turn(Chosen)[Len(runs) + 1].st = "live"
<1> DEFINE a == IF Chosen = 0 THEN Sys ELSE hands[Chosen].tgt
           e == [agent |-> a, hid |-> Chosen, st |-> "live", adm |-> FALSE]
<1>1. Chosen \in 0 .. Len(hands) /\ Len(hands) \in Nat /\ runs \in Seq(Run) /\ Len(runs) \in Nat
  BY ChosenHand DEF Shapes
<1>2. a \in Owners
  <2>1. CASE Chosen = 0
    BY <2>1 DEF Owners
  <2>2. CASE Chosen # 0
    <3>1. Chosen \in Hands
      BY <1>1, <2>2 DEF Hands
    <3> QED
      BY <2>2, <3>1, HandInSeq DEF Hand, Owners
  <2> QED
    BY <2>1, <2>2
<1>3. Turn(Chosen) = Append(runs, e)
  BY DEF Turn
<1> HIDE DEF a
<1>4. e \in Run /\ e.hid = Chosen /\ e.st = "live"
  BY <1>1, <1>2 DEF Run
<1> HIDE DEF e
<1> QED
  BY <1>1, <1>3, <1>4, AppendProperties DEF Ids

LEMMA RunsStep == ASSUME Shapes, Aimed, GNext PROVE RunsMove
<1>1. runs \in Seq(Run) /\ Len(runs) \in Nat /\ \A r \in Ids : runs[r] \in Run
  BY RunInSeq DEF Shapes
<1>2. CASE UNCHANGED runs
  BY <1>1, <1>2 DEF RunsMove, Live, Ids
<1>3. CASE runs' = Turn(Chosen)
  <2>1. \A r \in 1 .. Len(runs') : r \notin Ids => r = Len(runs) + 1
    BY <1>1, <1>3, TurnRun DEF Ids
  <2> QED
    BY <1>1, <1>3, <2>1, TurnRun, ChosenHand DEF RunsMove, Live
<1>4. CASE Start
  BY <1>2, <1>3, <1>4 DEF Start
<1>5. CASE Wake
  BY <1>2, <1>3, <1>5 DEF Wake
<1>6. ASSUME NEW r \in Ids, NEW e \in Run, e.hid = runs[r].hid, ~Live(r) => e.st = runs[r].st,
             runs' = [runs EXCEPT ![r] = e]
      PROVE  RunsMove
  <2>1. runs' \in Seq(Run) /\ Len(runs') = Len(runs)
    BY <1>1, <1>6, ExceptSeq DEF Ids
  <2>2. runs'[r] = e /\ \A i \in Ids : i # r => runs'[i] = runs[i]
    BY <1>1, <1>6 DEF Ids
  <2> QED
    BY <1>1, <1>6, <2>1, <2>2 DEF RunsMove, Live, Ids
<1>7. ASSUME NEW r \in Ids, HookAdmit(r) PROVE RunsMove
  <2> DEFINE e == [runs[r] EXCEPT !.adm = TRUE]
  <2>1. UNCHANGED runs \/ runs' = [runs EXCEPT ![r] = e]
    BY <1>1, <1>7 DEF HookAdmit, Ids
  <2>2. e \in Run /\ e.hid = runs[r].hid /\ e.st = runs[r].st
    BY <1>1 DEF Run
  <2> HIDE DEF e
  <2> QED
    BY <1>2, <1>6, <2>1, <2>2
<1>8. ASSUME NEW r \in Ids, NEW st \in {"succeeded", "failed", "cancelled"}, EndRun(r, st) PROVE RunsMove
  <2> DEFINE e == [runs[r] EXCEPT !.st = st]
  <2>1. runs' = [runs EXCEPT ![r] = e] /\ Live(r)
    BY <1>1, <1>8 DEF EndRun, Ids
  <2>2. e \in Run /\ e.hid = runs[r].hid
    BY <1>1 DEF Run
  <2> HIDE DEF e
  <2> QED
    BY <1>6, <2>1, <2>2
<1> QED
  BY <1>2, <1>4, <1>5, <1>7, <1>8, RunsFrame

\* The row stays a row and points to a run and a hand-off that exist.
RowMove == row' \in Row /\ row'.cur \in 0 .. Len(runs') /\ row'.hid \in 0 .. Len(hands')

\* The statuses and the labels a row may carry.
RowStatus == {"queued", "running", "waiting_retry"} \cup StopStatus
Acts == {"", "handoff", "recover"}

LEMMA RowEdit ==
  ASSUME NEW q \in Row, NEW st \in RowStatus, NEW a \in Acts, NEW c \in Nat, NEW h \in Nat, NEW s \in Nat
  PROVE  [q EXCEPT !.st = st, !.cur = c, !.act = a, !.hid = h, !.srun = s] \in Row
BY DEF Row, RowStatus, Acts

LEMMA ClearedRow ==
  ASSUME row \in Row
  PROVE  Cleared \in Row /\ Cleared.cur = row.cur /\ Cleared.hid = 0 /\ Cleared.st = row.st /\ Cleared.act # "handoff"
<1> DEFINE a == IF row.act = "handoff" THEN "" ELSE row.act
<1>1. a \in Acts /\ a # "handoff"
  BY DEF Row, Acts
<1>2. Cleared = [row EXCEPT !.hid = 0, !.srun = 0, !.act = a]
  BY DEF Cleared
<1> HIDE DEF a
<1>3. Cleared \in Row /\ Cleared.cur = row.cur /\ Cleared.hid = 0 /\ Cleared.st = row.st /\ Cleared.act = a
  BY <1>1, <1>2 DEF Row, Acts
<1> QED
  BY <1>1, <1>3

LEMMA BlockedRowMove ==
  ASSUME row \in Row, BlockedRow
  PROVE  row' \in Row /\ row'.cur = 0 /\ row'.hid = 0 /\ row'.st = "blocked"
<1> DEFINE c == Cleared
<1>1. c \in Row /\ c.hid = 0 /\ row' = [c EXCEPT !.st = "blocked", !.cur = 0]
  BY ClearedRow DEF BlockedRow
<1> HIDE DEF c
<1> QED
  BY <1>1 DEF Row, StopStatus

LEMMA ContinuedRow ==
  ASSUME row \in Row, NEW h \in Nat
  PROVE  /\ Continued(h) \in Row /\ Continued(h).hid = h /\ Continued(h).act = "handoff"
         /\ Continued(h).srun = row.cur /\ Continued(h).cur \in {0, row.cur}
         /\ Continued(h).st \in {row.st, "queued"}
         /\ row.cur # 0 /\ Live(row.cur) => Continued(h).cur = row.cur
         /\ row.cur # 0 /\ ~Live(row.cur) => Continued(h).cur = 0
<1> DEFINE over == row.cur = 0 \/ ~Live(row.cur)
           s == IF over THEN "queued" ELSE row.st
           c == IF over THEN 0 ELSE row.cur
<1>1. s \in {row.st, "queued"} /\ c \in {0, row.cur} /\ c \in Nat /\ s \in RowStatus
  BY DEF Row, RowStatus
<1>2. Continued(h) = [row EXCEPT !.hid = h, !.srun = row.cur, !.act = "handoff", !.st = s, !.cur = c]
  BY DEF Continued
<1>3. (row.cur # 0 /\ Live(row.cur) => c = row.cur) /\ (row.cur # 0 /\ ~Live(row.cur) => c = 0)
  OBVIOUS
<1> HIDE DEF over, s, c
<1>4. /\ Continued(h) \in Row /\ Continued(h).hid = h /\ Continued(h).act = "handoff"
      /\ Continued(h).srun = row.cur /\ Continued(h).cur = c /\ Continued(h).st = s
  BY <1>1, <1>2 DEF Row, RowStatus
<1> QED
  BY <1>1, <1>3, <1>4

LEMMA RowStep == ASSUME Shapes, Aimed, GNext PROVE RowMove
<1>1. /\ row \in Row /\ row.cur \in 0 .. Len(runs) /\ row.hid \in 0 .. Len(hands)
      /\ Len(runs) \in Nat /\ Len(hands) \in Nat
  BY DEF Shapes, Aimed
<1>2. /\ Len(runs) <= Len(runs') /\ Len(hands) <= Len(hands')
      /\ Len(runs') \in Nat /\ Len(hands') \in Nat
  BY RunsStep, HandsStep, LenProperties DEF RunsMove, HandsMove
<1>3. ASSUME row' \in Row, row'.cur \in 0 .. Len(runs), row'.hid \in 0 .. Len(hands) PROVE RowMove
  BY <1>1, <1>2, <1>3 DEF RowMove
<1>4. CASE UNCHANGED row
  BY <1>1, <1>3, <1>4
<1>5. CASE BlockedRow
  BY <1>1, <1>3, <1>5, BlockedRowMove
<1>6. ASSUME NEW r, Block(r) PROVE RowMove
  BY <1>4, <1>5, <1>6 DEF Block
<1>7. ASSUME NEW h \in Hands, AcceptHandoff(h) PROVE RowMove
  <2>1. h \in Nat /\ h \in 0 .. Len(hands) /\ row' = Continued(h)
    BY <1>1, <1>7 DEF Hands, AcceptHandoff
  <2>2. Continued(h) \in Row /\ Continued(h).hid = h /\ Continued(h).cur \in {0, row.cur}
    BY <1>1, <2>1, ContinuedRow
  <2> QED
    BY <1>1, <1>3, <2>1, <2>2
<1>8. ASSUME NEW st \in RowStatus, row' = [row EXCEPT !.st = st] PROVE RowMove
  BY <1>1, <1>3, <1>8 DEF Row, RowStatus
<1>9. ASSUME NEW st \in RowStatus, row' = [row EXCEPT !.st = st, !.cur = 0] PROVE RowMove
  <2>1. row' \in Row /\ row'.cur = 0 /\ row'.hid = row.hid
    BY <1>1, <1>9 DEF Row, RowStatus
  <2> QED
    BY <1>1, <1>3, <2>1
<1>10. /\ "queued" \in RowStatus /\ "running" \in RowStatus /\ "waiting_user" \in RowStatus
       /\ "waiting_retry" \in RowStatus /\ "cancelled" \in RowStatus
  BY DEF RowStatus, StopStatus
<1>11. CASE BlockTask
  BY <1>5, <1>11 DEF BlockTask
<1>12. CASE Unblock
  BY <1>9, <1>10, <1>12 DEF Unblock
<1>13. CASE Resume
  <2>1. CASE row' = [row EXCEPT !.st = "queued", !.act = "recover"]
    BY <1>1, <1>3, <2>1 DEF Row
  <2> QED
    BY <1>4, <1>13, <2>1 DEF Resume, ResumedRow
<1>14. CASE CancelGoal
  <2>1. row' = [row EXCEPT !.st = "cancelled", !.cur = 0, !.act = ""]
    BY <1>14 DEF CancelGoal
  <2>2. row' \in Row /\ row'.cur = 0 /\ row'.hid = row.hid
    BY <1>1, <2>1 DEF Row, StopStatus
  <2> QED
    BY <1>1, <1>3, <2>2
<1>15. Chosen \in 0 .. Len(hands) /\ Chosen \in Nat
  BY <1>1, ChosenHand
<1>16. ASSUME runs' = Turn(Chosen), row'.cur = Len(runs) + 1, row'.hid = Chosen, row' \in Row PROVE RowMove
  BY <1>1, <1>2, <1>15, <1>16, TurnRun DEF RowMove
<1>17. CASE Start
  <2>1. CASE Block(0)
    BY <1>6, <2>1
  <2>2. CASE runs' = Turn(Chosen)
             /\ row' = [row EXCEPT !.st = "running", !.cur = Len(runs) + 1, !.act = "", !.hid = Chosen]
    <3> DEFINE c == Chosen
               l == Len(runs) + 1
    <3>1. row' = [row EXCEPT !.st = "running", !.cur = l, !.act = "", !.hid = c] /\ c \in Nat /\ l \in Nat
      BY <1>1, <1>15, <2>2
    <3> HIDE DEF c, l
    <3>2. row' \in Row /\ row'.cur = l /\ row'.hid = c
      BY <1>1, <3>1 DEF Row
    <3> USE DEF c, l
    <3> QED
      BY <1>16, <2>2, <3>2
  <2> QED
    BY <1>17, <2>1, <2>2 DEF Start
<1>18. CASE Wake
  <2>1. CASE runs' = Turn(Chosen)
             /\ row' = [row EXCEPT !.st = "running", !.cur = Len(runs) + 1, !.hid = Chosen]
    <3> DEFINE c == Chosen
               l == Len(runs) + 1
    <3>1. row' = [row EXCEPT !.st = "running", !.cur = l, !.hid = c] /\ c \in Nat /\ l \in Nat
      BY <1>1, <1>15, <2>1
    <3> HIDE DEF c, l
    <3>2. row' \in Row /\ row'.cur = l /\ row'.hid = c
      BY <1>1, <3>1 DEF Row
    <3> USE DEF c, l
    <3> QED
      BY <1>16, <2>1, <3>2
  <2> QED
    BY <1>4, <1>18, <2>1 DEF Wake
<1>19. CASE Comment
  BY <1>8, <1>10, <1>19 DEF Comment
<1>20. ASSUME NEW r \in Ids, HookDeny(r) PROVE RowMove
  BY <1>6, <1>20 DEF HookDeny
<1>21. ASSUME NEW r \in Ids, HookAdvance(r) PROVE RowMove
  <2>1. CASE row' = [row EXCEPT !.st = "waiting_retry", !.cur = 0, !.act = "recover"]
    <3>1. row' \in Row /\ row'.cur = 0 /\ row'.hid = row.hid
      BY <1>1, <2>1 DEF Row
    <3> QED
      BY <1>1, <1>3, <3>1
  <2> QED
    BY <1>4, <1>5, <1>6, <1>9, <1>10, <1>21, <2>1 DEF HookAdvance, Advance
<1> QED
  BY <1>4, <1>7, <1>11, <1>12, <1>13, <1>14, <1>17, <1>18, <1>19, <1>20, <1>21, RowFrame

\* What a step may do to the pipelines: one starts for a run that has ended, or
\* a pipeline of such a run moves on.
HooksMove ==
  \/ hooks' \subseteq hooks
  \/ \E r \in Ids, s \in Stages :
       /\ hooks' \subseteq hooks \cup {<<r, s>>}
       /\ s \in Early => (row.cur = r /\ ~Relinquished(r)) \/ \E t \in Early : <<r, t>> \in hooks
       /\ runs'[r].st # "live"

LEMMA HooksStep == ASSUME Shapes, Aimed, HooksEnded, GNext PROVE HooksMove
<1>1. \A r \in Ids : (\E s \in Stages : <<r, s>> \in hooks) => runs'[r].st # "live"
  BY RunsStep DEF RunsMove, HooksEnded, Live
<1>2. CASE UNCHANGED hooks
  BY <1>2 DEF HooksMove
<1>3. CASE Crash
  BY <1>3 DEF Crash, HooksMove
<1>4. /\ "plan" \in Stages \ Early /\ "deny" \in Stages \ Early /\ "advance" \in Stages \ Early
      /\ "settle" \in Stages \ Early /\ "fail" \in Stages \ Early
      /\ "admit" \in Stages /\ "compile" \in Stages /\ "submit" \in Stages
      /\ "admit" \in Early /\ "compile" \in Early /\ "submit" \in Early
  BY DEF Stages, Locked, Early
<1>5. CASE Replay
  <2>1. row.cur \in Ids /\ ~Live(row.cur) /\ UNCHANGED runs
    BY <1>5 DEF Replay, Aimed, Ids
  <2>2. \E s \in Stages \ Early : hooks' = hooks \cup {<<row.cur, s>>}
    BY <1>4, <1>5 DEF Replay, FirstHook
  <2> QED
    BY <2>1, <2>2 DEF HooksMove, Live
<1>6. ASSUME NEW r \in Ids, NEW st \in {"succeeded", "failed", "cancelled"}, EndRun(r, st) PROVE HooksMove
  <2>1. \E s \in Stages \ Early : hooks' = hooks \cup {<<r, s>>}
    BY <1>4, <1>6 DEF EndRun, FirstHook
  <2>2. runs'[r].st = st
    BY <1>6, RunInSeq DEF EndRun, Run, Ids, Shapes
  <2> QED
    BY <2>1, <2>2 DEF HooksMove
<1>7. ASSUME NEW r \in Ids, NEW from \in Stages, NEW to \in Stages, Go(r, from, to),
             to \in Early => from \in Early \/ (row.cur = r /\ ~Relinquished(r))
      PROVE  HooksMove
  <2>1. hooks' \subseteq hooks \cup {<<r, to>>} /\ <<r, from>> \in hooks
    BY <1>7 DEF Go
  <2> QED
    BY <1>1, <1>7, <2>1 DEF HooksMove
<1>14. ASSUME NEW r \in Ids, NEW from \in Early, NEW to \in Stages, Go(r, from, to) PROVE HooksMove
  <2>1. hooks' \subseteq hooks \cup {<<r, to>>} /\ <<r, from>> \in hooks /\ from \in Stages
    BY <1>14 DEF Go, Early, Stages, Locked
  <2> QED
    BY <1>1, <1>14, <2>1 DEF HooksMove
<1>8. ASSUME NEW r \in Ids, HookFence(r) PROVE HooksMove
  <2>1. \/ Go(r, "plan", "advance") \/ Go(r, "plan", "deny")
        \/ Go(r, "plan", "admit") /\ row.cur = r /\ ~Relinquished(r)
    <3>1. CASE goal # "active" \/ Relinquished(r) \/ row.cur # r
      BY <1>8, <3>1 DEF HookFence
    <3>2. CASE ~(goal # "active" \/ Relinquished(r) \/ row.cur # r)
      <4>1. Go(r, "plan", "admit") \/ Go(r, "plan", "deny")
        BY <1>8, <3>2 DEF HookFence
      <4> QED
        BY <3>2, <4>1
    <3> QED
      BY <3>1, <3>2
  <2>2. CASE Go(r, "plan", "advance")
    BY <1>4, <1>7, <2>2
  <2>3. CASE Go(r, "plan", "deny")
    BY <1>4, <1>7, <2>3
  <2>4. CASE Go(r, "plan", "admit") /\ row.cur = r /\ ~Relinquished(r)
    BY <1>4, <1>7, <2>4
  <2> QED
    BY <2>1, <2>2, <2>3, <2>4
<1>9. ASSUME NEW r \in Ids, HookAdmit(r) PROVE HooksMove
  <2>1. Go(r, "admit", "settle") \/ Go(r, "admit", "deny") \/ Go(r, "admit", "compile")
    BY <1>9 DEF HookAdmit
  <2>2. CASE Go(r, "admit", "settle")
    BY <1>4, <1>14, <2>2
  <2>3. CASE Go(r, "admit", "deny")
    BY <1>4, <1>14, <2>3
  <2>4. CASE Go(r, "admit", "compile")
    BY <1>4, <1>14, <2>4
  <2> QED
    BY <2>1, <2>2, <2>3, <2>4
<1>10. ASSUME NEW r \in Ids, HookCompile(r) PROVE HooksMove
  <2>1. Go(r, "compile", "submit") \/ Go(r, "compile", "fail")
    BY <1>10 DEF HookCompile
  <2>2. CASE Go(r, "compile", "submit")
    BY <1>4, <1>14, <2>2
  <2>3. CASE Go(r, "compile", "fail")
    BY <1>4, <1>14, <2>3
  <2> QED
    BY <2>1, <2>2, <2>3
<1>11. ASSUME NEW r \in Ids, HookSubmit(r) PROVE HooksMove
  BY <1>4, <1>14, <1>11 DEF HookSubmit
<1>12. ASSUME NEW r \in Ids, HookSettle(r) \/ HookFail(r) \/ HookDeny(r) PROVE HooksMove
  BY <1>4, <1>7, <1>12 DEF HookSettle, HookFail, HookDeny
<1>13. ASSUME NEW r \in Ids, HookAdvance(r) PROVE HooksMove
  BY <1>13 DEF HookAdvance, HooksMove
<1> QED
  BY <1>2, <1>3, <1>5, <1>6, <1>8, <1>9, <1>10, <1>11, <1>12, <1>13, HooksFrame DEF Hook

LEMMA ShapesStep == ASSUME Shapes, Aimed, GNext PROVE Shapes'
<1>1. todo' \in Todo /\ hands' \in Seq(Hand) /\ row' \in Row /\ runs' \in Seq(Run)
  BY TodoStep, HandsStep, RowStep, RunsStep DEF TodoMoves, HandsMove, RowMove, RunsMove
<1>2. goal' \in {"active", "waiting", "blocked", "cancelled"}
  BY GoalFrame DEF Shapes, BlockTask, Unblock, Pause, Resume, CancelGoal, Start, HookDeny, HookAdvance, Advance,
                   Block, BlockGovernance
<1>3. workers' \in {"none", "live", "wake"}
  BY DEF GNext, Shapes, Hook, ClaimTodo, CreateHandoff, ReleaseTodo, Expire, AcceptHandoff, ResolveHandoff,
         BlockTask, Unblock, Pause, Resume, CancelGoal, Start, Replay, EndRun, HookFence, HookAdmit, HookCompile,
         HookSubmit, HookSettle, HookFail, HookDeny, HookAdvance, WorkersDone, Wake, Comment, Crash, Advance, Block
<1>4. used' \in [{"claims", "expiries", "pauses", "blocks", "crashes"} -> Nat]
  <2>1. ASSUME NEW b \in {"claims", "expiries", "pauses", "blocks", "crashes"}, NEW max, Spend(b, max)
        PROVE  used' \in [{"claims", "expiries", "pauses", "blocks", "crashes"} -> Nat]
    BY <2>1 DEF Spend, Shapes
  <2>2. UNCHANGED used \/ \E b \in {"claims", "expiries", "pauses", "blocks", "crashes"} : \E max : Spend(b, max)
    BY DEF GNext, Hook, ClaimTodo, CreateHandoff, ReleaseTodo, Expire, AcceptHandoff, ResolveHandoff,
           BlockTask, Unblock, Pause, Resume, CancelGoal, Start, Replay, EndRun, HookFence, HookAdmit, HookCompile,
           HookSubmit, HookSettle, HookFail, HookDeny, HookAdvance, WorkersDone, Wake, Comment, Crash
  <2> QED
    BY <2>1, <2>2 DEF Shapes
<1> QED
  BY <1>1, <1>2, <1>3, <1>4 DEF Shapes

LEMMA AimedStep == ASSUME Shapes, Aimed, HooksEnded, GNext PROVE Aimed'
<1>1. Len(runs) \in Nat /\ Len(runs') \in Nat /\ Len(runs) <= Len(runs')
      /\ Len(hands) \in Nat /\ Len(hands') \in Nat /\ Len(hands) <= Len(hands')
  BY HandsStep, RunsStep, LenProperties DEF HandsMove, RunsMove, Shapes
<1>2. Ids \subseteq Ids'
  BY <1>1 DEF Ids
<1>3. plans' \subseteq Ids'
  <2>1. plans' \subseteq Ids
    BY PlansFrame DEF HookSubmit, Aimed
  <2> QED
    BY <1>2, <2>1
<1>4. hooks' \subseteq Ids' \X Stages
  <2>1. hooks' \subseteq Ids \X Stages
    BY HooksStep DEF HooksMove, Aimed
  <2> QED
    BY <1>2, <2>1
<1>5. \A r \in Ids' : runs'[r].hid \in 0 .. Len(hands')
  <2> TAKE r \in Ids'
  <2>1. CASE r \in Ids
    BY <1>1, <2>1, RunsStep DEF RunsMove, Aimed
  <2>2. CASE r \notin Ids
    BY <1>1, <2>2, RunsStep DEF RunsMove, Ids
  <2> QED
    BY <2>1, <2>2
<1> QED
  BY <1>3, <1>4, <1>5, RowStep DEF Aimed, RowMove

LEMMA HooksEndedStep == ASSUME Shapes, Aimed, HooksEnded, GNext PROVE HooksEnded'
<1> SUFFICES ASSUME NEW r \in Ids', NEW s \in Stages, <<r, s>> \in hooks' PROVE ~Live(r)'
  BY DEF HooksEnded
<1>1. CASE <<r, s>> \in hooks
  BY <1>1, RunsStep DEF RunsMove, Aimed, HooksEnded, Live
<1>2. CASE <<r, s>> \notin hooks
  BY <1>2, HooksStep DEF HooksMove, Live
<1> QED
  BY <1>1, <1>2

-----------------------------------------------------------------------------
(* The claim of a hand-off and the run that made it.                        *)

\* A step other than an acceptance transfers nothing.
LEMMA NothingTransferred ==
  ASSUME Shapes, Aimed, GNext, \A h \in Hands : ~AcceptHandoff(h)
  PROVE  Transferred' \subseteq Transferred
<1>1. /\ hands \in Seq(Hand) /\ hands' \in Seq(Hand)
      /\ Len(hands) \in Nat /\ Len(hands') \in Nat /\ Len(hands) <= Len(hands')
  BY HandsStep, LenProperties DEF HandsMove, Shapes
<1> SUFFICES ASSUME NEW h \in Hands', hands'[h].st = "transferred" PROVE h \in Transferred
  BY DEF Transferred
<1>2. CASE UNCHANGED hands
  BY <1>2 DEF Transferred, Hands
<1>3. ASSUME NEW a \in Agents, CreateHandoff(a) PROVE h \in Transferred
  <2> DEFINE e == [st |-> "pending", src |-> todo.owner, tgt |-> a, sgen |-> todo.gen, tgen |-> 0, from |-> 0]
  <2>1. hands' = Append(hands, e) /\ e \in Hand /\ e.st = "pending"
    BY <1>3 DEF CreateHandoff, Owned, Shapes, Todo, Holders, Hand
  <2> HIDE DEF e
  <2>2. Len(hands') = Len(hands) + 1 /\ hands'[Len(hands) + 1] = e /\ \A i \in Hands : hands'[i] = hands[i]
    BY <1>1, <2>1, AppendProperties DEF Hands
  <2>3. h \in Hands
    BY <1>1, <2>1, <2>2 DEF Hands
  <2> QED
    BY <2>2, <2>3 DEF Transferred
<1>4. ASSUME NEW i \in Hands, NEW st \in {"rejected", "cancelled"}, ResolveHandoff(i, st) PROVE h \in Transferred
  <2> DEFINE e == [hands[i] EXCEPT !.st = st]
  <2>1. hands' = [hands EXCEPT ![i] = e] /\ e \in Hand /\ e.st = st
    BY <1>1, <1>4, HandInSeq DEF ResolveHandoff, Hand, Hands
  <2> HIDE DEF e
  <2>2. Len(hands') = Len(hands) /\ \A j \in Hands : hands'[j] = IF j = i THEN e ELSE hands[j]
    BY <1>1, <2>1, ExceptSeq DEF Hands
  <2>3. h \in Hands /\ h # i
    BY <1>4, <2>1, <2>2 DEF Hands
  <2> QED
    BY <2>2, <2>3 DEF Transferred
<1>5. CASE CancelGoal
  <2>1. hands' = Withdrawn
    BY <1>5 DEF CancelGoal
  <2>2. h \in Hands
    BY <1>1, <2>1, LenProperties DEF Withdrawn, Hands
  <2>3. hands[h] \in Hand
    BY <2>2, HandInSeq
  <2>4. hands[h].st # "pending"
    BY <2>1, <2>2, <2>3 DEF Withdrawn, Hand
  <2> QED
    BY <2>1, <2>2, <2>4 DEF Withdrawn, Transferred
<1> QED
  BY <1>2, <1>3, <1>4, <1>5, HandsFrame

LEMMA AcceptMoves ==
  ASSUME Shapes, Aimed, NEW h \in Hands, AcceptHandoff(h)
  PROVE  /\ Hands' = Hands /\ Transferred' = Transferred \cup {h} /\ h \notin Transferred
         /\ \A i \in Transferred : hands'[i] = hands[i]
         /\ hands'[h].sgen = hands[h].sgen /\ hands'[h].tgen = todo.gen + 1 /\ hands'[h].from = row.cur
         /\ todo.gen = hands[h].sgen /\ todo'.gen = todo.gen + 1
<1> DEFINE g == todo.gen + 1
<1>1. hands \in Seq(Hand) /\ hands[h] \in Hand /\ todo \in Todo /\ row \in Row /\ hands[h].st = "pending"
      /\ todo.gen = hands[h].sgen
  BY HandInSeq DEF Shapes, AcceptHandoff, Transferable
<1>2. g \in Nat /\ row.cur \in Nat
  <2>1. todo.gen \in Nat
    BY <1>1 DEF Todo
  <2>2. row.cur \in Nat
    BY <1>1 DEF Row
  <2> QED
    BY <2>1, <2>2
<1> DEFINE e == [hands[h] EXCEPT !.st = "transferred", !.tgen = g, !.from = row.cur]
<1>3. hands' = [hands EXCEPT ![h] = e]
  BY <1>1 DEF AcceptHandoff, Hands
<1>4. todo' = [todo EXCEPT !.owner = hands[h].tgt, !.gen = g, !.fresh = TRUE]
  BY DEF AcceptHandoff
<1>5. todo'.gen = g
  BY <1>1, <1>4 DEF Todo
<1> HIDE DEF g
<1>6. e \in Hand /\ e.st = "transferred" /\ e.tgen = g /\ e.from = row.cur /\ e.sgen = hands[h].sgen
  BY <1>1, <1>2 DEF Hand
<1> HIDE DEF e
<1>7. Len(hands') = Len(hands) /\ \A j \in Hands : hands'[j] = IF j = h THEN e ELSE hands[j]
  BY <1>1, <1>3, <1>6, ExceptSeq DEF Hands
<1>8. Hands' = Hands
  BY <1>7 DEF Hands
<1>9. Transferred' = Transferred \cup {h} /\ h \notin Transferred
  BY <1>1, <1>6, <1>7, <1>8 DEF Transferred
<1> USE DEF g
<1> QED
  BY <1>1, <1>5, <1>6, <1>7, <1>8, <1>9 DEF Transferred

LEMMA GensStep == ASSUME Shapes, Aimed, Gens, GNext PROVE Gens'
<1>1. /\ todo.gen \in Nat /\ todo'.gen \in Nat /\ todo.gen <= todo'.gen
      /\ \A h \in Transferred : h \in Hands /\ hands[h].sgen \in Nat /\ hands[h].tgen \in Nat
  BY TodoStep, HandInSeq DEF TodoMoves, Shapes, Todo, Transferred, Hand
<1>2. CASE \E h \in Hands : AcceptHandoff(h)
  <2>1. PICK h \in Hands : AcceptHandoff(h)
    BY <1>2
  <2>2. /\ Transferred' = Transferred \cup {h} /\ h \notin Transferred
        /\ \A i \in Transferred : hands'[i] = hands[i]
        /\ hands'[h].sgen = hands[h].sgen /\ hands'[h].tgen = todo.gen + 1
        /\ todo.gen = hands[h].sgen /\ todo'.gen = todo.gen + 1
    BY <2>1, AcceptMoves
  <2>3. \A i \in Transferred : hands[i].sgen # hands[h].sgen
    BY <1>1, <2>2 DEF Gens
  <2> SUFFICES ASSUME NEW i \in Transferred'
               PROVE  /\ hands'[i].tgen = hands'[i].sgen + 1 /\ hands'[i].tgen <= todo'.gen
                      /\ \A j \in Transferred' \ {i} : hands'[j].sgen # hands'[i].sgen
    BY DEF Gens
  <2>4. CASE i = h
    BY <1>1, <2>2, <2>3, <2>4
  <2>5. CASE i \in Transferred
    <3>1. hands'[i].tgen = hands'[i].sgen + 1 /\ hands'[i].tgen <= todo'.gen
      BY <1>1, <2>2, <2>5 DEF Gens
    <3>2. ASSUME NEW j \in Transferred' \ {i} PROVE hands'[j].sgen # hands'[i].sgen
      BY <2>2, <2>3, <2>5, <3>2 DEF Gens
    <3> QED
      BY <3>1, <3>2
  <2> QED
    BY <2>2, <2>4, <2>5
<1>3. CASE \A h \in Hands : ~AcceptHandoff(h)
  <2>1. Transferred' \subseteq Transferred /\ \A h \in Transferred : hands'[h] = hands[h]
    BY <1>3, NothingTransferred, HandsStep DEF HandsMove, Transferred
  <2> QED
    BY <1>1, <2>1 DEF Gens
<1> QED
  BY <1>2, <1>3

\* Without an acceptance the control line is cleared, passed to a new run, or
\* left with its marks.
LEMMA LineMoves ==
  ASSUME Shapes, Aimed, GNext, \A h \in Hands : ~AcceptHandoff(h)
  PROVE  \/ row'.cur = 0 \/ row'.cur = Len(runs) + 1
         \/ row'.cur = row.cur /\ row'.act = row.act /\ row'.srun = row.srun
<1>1. row \in Row
  BY DEF Shapes
<1> DEFINE Moved == \/ row'.cur = 0 \/ row'.cur = Len(runs) + 1
                    \/ row'.cur = row.cur /\ row'.act = row.act /\ row'.srun = row.srun
<1>2. CASE UNCHANGED row
  BY <1>2
<1>3. CASE BlockedRow
  BY <1>1, <1>3, BlockedRowMove
<1>4. ASSUME NEW r, Block(r) PROVE Moved
  BY <1>2, <1>3, <1>4 DEF Block
<1>5. ASSUME NEW st, row' = [row EXCEPT !.st = st, !.cur = 0] PROVE Moved
  BY <1>1, <1>5 DEF Row
<1>6. CASE BlockTask \/ Unblock
  BY <1>3, <1>5, <1>6 DEF BlockTask, Unblock
<1>7. CASE Resume
  <2>1. UNCHANGED row \/ (row.cur = 0 /\ row' = [row EXCEPT !.st = "queued", !.act = "recover"])
    BY <1>7 DEF Resume, ResumedRow
  <2>2. CASE row.cur = 0 /\ row' = [row EXCEPT !.st = "queued", !.act = "recover"]
    BY <1>1, <2>2 DEF Row
  <2> QED
    BY <1>2, <2>1, <2>2
<1>8. CASE CancelGoal
  BY <1>1, <1>8 DEF CancelGoal, Row
<1>9. CASE Start
  <2>1. \/ Block(0) \/ row' = [row EXCEPT !.st = "running", !.cur = Len(runs) + 1, !.act = "", !.hid = Chosen]
    BY <1>9 DEF Start
  <2>2. CASE row' = [row EXCEPT !.st = "running", !.cur = Len(runs) + 1, !.act = "", !.hid = Chosen]
    BY <1>1, <2>2 DEF Row
  <2> QED
    BY <1>4, <2>1, <2>2
<1>10. CASE Wake
  <2>1. UNCHANGED row \/ row' = [row EXCEPT !.st = "running", !.cur = Len(runs) + 1, !.hid = Chosen]
    BY <1>10 DEF Wake
  <2>2. CASE row' = [row EXCEPT !.st = "running", !.cur = Len(runs) + 1, !.hid = Chosen]
    BY <1>1, <2>2 DEF Row
  <2> QED
    BY <1>2, <2>1, <2>2
<1>11. CASE Comment
  BY <1>1, <1>11 DEF Comment, Row
<1>12. ASSUME NEW r \in Ids, HookDeny(r) PROVE Moved
  BY <1>4, <1>12 DEF HookDeny
<1>13. ASSUME NEW r \in Ids, HookAdvance(r) PROVE Moved
  <2>1. CASE row' = [row EXCEPT !.st = "waiting_retry", !.cur = 0, !.act = "recover"]
    BY <1>1, <2>1 DEF Row
  <2> QED
    BY <1>2, <1>3, <1>4, <1>5, <1>13, <2>1 DEF HookAdvance, Advance
<1> QED
  BY <1>2, <1>6, <1>7, <1>8, <1>9, <1>10, <1>11, <1>12, <1>13, RowFrame

LEMMA FencedStep == ASSUME Shapes, Aimed, HooksEnded, Fenced, GNext PROVE Fenced'
<1>1. /\ row.cur \in Nat /\ Len(runs) \in Nat /\ Len(runs') \in Nat /\ Len(runs) <= Len(runs') /\ row.cur <= Len(runs)
      /\ \A h \in Transferred : h \in Hands /\ hands[h].from \in Nat
  BY RunsStep, HandInSeq, LenProperties DEF RunsMove, Shapes, Aimed, Transferred, Hand
<1>2. Early \subseteq Stages
  BY DEF Early, Stages, Locked
<1>3. CASE \E h \in Hands : AcceptHandoff(h)
  <2>1. PICK h \in Hands : AcceptHandoff(h)
    BY <1>3
  <2>2. /\ Transferred' = Transferred \cup {h} /\ \A i \in Transferred : hands'[i] = hands[i]
        /\ hands'[h].from = row.cur
    BY <2>1, AcceptMoves
  <2>3. /\ row'.act = "handoff" /\ row'.srun = row.cur /\ row'.cur \in {0, row.cur}
        /\ row.cur # 0 /\ ~Live(row.cur) => row'.cur = 0
    BY <2>1, ContinuedRow DEF AcceptHandoff, Shapes, Hands
  <2>4. row'.cur # 0 => Relinquished(row.cur)' /\ \A s \in Early : <<row'.cur, s>> \notin hooks'
    <3> SUFFICES ASSUME row'.cur # 0 PROVE Relinquished(row.cur)' /\ \A s \in Early : <<row'.cur, s>> \notin hooks'
      OBVIOUS
    <3>1. row'.cur = row.cur /\ Live(row.cur) /\ row.cur \in Ids
      BY <1>1, <2>3 DEF Ids
    <3>2. \A s \in Early : <<row.cur, s>> \notin hooks
      BY <1>2, <3>1 DEF HooksEnded
    <3>3. UNCHANGED hooks
      BY <2>1 DEF AcceptHandoff
    <3> QED
      BY <2>3, <3>1, <3>2, <3>3 DEF Relinquished
  <2>5. \A i \in Transferred' : hands'[i].from <= Len(runs')
    BY <1>1, <2>2 DEF Fenced
  <2> QED
    BY <2>4, <2>5 DEF Fenced
<1>4. CASE \A h \in Hands : ~AcceptHandoff(h)
  <2> SUFFICES ASSUME NEW h \in Transferred'
               PROVE  /\ hands'[h].from <= Len(runs')
                      /\ hands'[h].from # 0 /\ row'.cur = hands'[h].from =>
                           Relinquished(row.cur)' /\ \A s \in Early : <<row'.cur, s>> \notin hooks'
    BY DEF Fenced
  <2>1. h \in Transferred /\ hands'[h] = hands[h] /\ hands[h].from \in Nat /\ hands[h].from <= Len(runs)
    BY <1>1, <1>4, NothingTransferred, HandsStep DEF HandsMove, Transferred, Fenced
  <2>2. ASSUME hands[h].from # 0, row'.cur = hands[h].from
        PROVE  Relinquished(row.cur)' /\ \A s \in Early : <<row'.cur, s>> \notin hooks'
    <3>1. row'.cur = row.cur /\ row'.act = row.act /\ row'.srun = row.srun
      BY <1>1, <1>4, <2>1, <2>2, LineMoves
    <3>2. Relinquished(row.cur) /\ \A s \in Early : <<row.cur, s>> \notin hooks
      BY <2>1, <2>2, <3>1 DEF Fenced
    <3>3. Relinquished(row.cur)'
      BY <3>1, <3>2 DEF Relinquished
    <3>4. \A s \in Early : <<row.cur, s>> \notin hooks'
      BY <3>2, HooksStep DEF HooksMove
    <3> QED
      BY <3>1, <3>3, <3>4
  <2> QED
    BY <1>1, <2>1, <2>2
<1> QED
  BY <1>3, <1>4

-----------------------------------------------------------------------------
(* A Goal that is blocked or cancelled.                                     *)

\* Nothing of a cancelled Goal moves.
LEMMA CancelledStays ==
  ASSUME Shapes, Aimed, CancelledSettled, goal = "cancelled", GNext
  PROVE  UNCHANGED <<goal, todo, row, hands>>
<1>1. /\ todo.st = "cancelled" /\ todo.owner = None /\ row.st = "cancelled" /\ row.cur = 0
      /\ \A h \in Hands : hands[h].st # "pending"
  BY DEF CancelledSettled
<1>2. \A r : Block(r) => UNCHANGED <<goal, todo, row>>
  BY <1>1 DEF Block
<1>3. UNCHANGED goal
  BY <1>2, GoalFrame DEF BlockTask, Unblock, Pause, Resume, CancelGoal, Start, HookDeny, HookAdvance, Advance
<1>4. UNCHANGED row
  BY <1>1, <1>2, RowFrame DEF AcceptHandoff, Transferable, BlockTask, Unblock, Resume, CancelGoal, Start, Wake,
     Comment, StopStatus, HookDeny, HookAdvance, Advance
<1>5. UNCHANGED hands
  BY <1>1, HandsFrame DEF CreateHandoff, GoalClosed, AcceptHandoff, Transferable, ResolveHandoff, CancelGoal
<1>6. UNCHANGED todo
  <2>1. ASSUME NEW r \in Ids, HookAdmit(r) PROVE UNCHANGED todo
    BY <2>1, AdmitMoves DEF HookAdmit
  <2>2. ASSUME NEW r \in Ids, HookSettle(r) \/ HookFail(r) PROVE UNCHANGED todo
    BY <1>1, <2>2 DEF HookSettle, HookFail
  <2>3. ASSUME NEW r \in Ids, HookDeny(r) \/ HookAdvance(r) PROVE UNCHANGED todo
    BY <1>2, <2>3 DEF HookDeny, HookAdvance, Advance
  <2>4. ASSUME NEW r \in Ids, NEW st, EndRun(r, st) PROVE UNCHANGED todo
    BY <2>4 DEF EndRun, Renewed, RenewalSkipped
  <2> QED
    BY <1>1, <2>1, <2>2, <2>3, <2>4, TodoFrame DEF ClaimTodo, ReleaseTodo, GoalClosed, Owned, Expire, BlockTask,
       Unblock, Pause, Resume, CancelGoal, Start, Wake, AcceptHandoff, Transferable, TodoClosed
<1> QED
  BY <1>3, <1>4, <1>5, <1>6

LEMMA CancelStep == ASSUME Shapes, Aimed, CancelledSettled, GNext PROVE CancelledSettled'
<1>1. CASE CancelGoal
  <2>1. /\ goal' = "cancelled" /\ todo' = [Released(todo) EXCEPT !.st = "cancelled"] /\ hands' = Withdrawn
        /\ row' = [row EXCEPT !.st = "cancelled", !.cur = 0, !.act = ""]
    BY <1>1 DEF CancelGoal
  <2>2. todo'.st = "cancelled" /\ todo'.owner = None
    <3> DEFINE t == Released(todo)
    <3>1. t \in Todo /\ t.owner = None /\ todo' = [t EXCEPT !.st = "cancelled"]
      BY <2>1, ReleaseMoves DEF Shapes
    <3> HIDE DEF t
    <3> QED
      BY <3>1 DEF Todo
  <2>3. row'.st = "cancelled" /\ row'.cur = 0
    BY <2>1 DEF Shapes, Row
  <2>4. ASSUME NEW h \in Hands' PROVE hands'[h].st # "pending"
    <3>1. h \in Hands
      BY <2>1, HandsStep, LenProperties DEF HandsMove, Withdrawn, Hands, Shapes
    <3>2. hands[h] \in Hand
      BY <3>1, HandInSeq
    <3> QED
      BY <2>1, <3>1, <3>2 DEF Withdrawn, Hand
  <2> QED
    BY <2>2, <2>3, <2>4 DEF CancelledSettled
<1>2. CASE goal = "cancelled"
  BY <1>2, CancelledStays DEF CancelledSettled, Hands
<1>3. CASE goal # "cancelled" /\ ~CancelGoal
  BY <1>3, GoalFrame DEF CancelledSettled, BlockTask, Unblock, Pause, Resume, Start, HookDeny, HookAdvance, Advance,
     Block, BlockGovernance
<1> QED
  BY <1>1, <1>2, <1>3

\* The Goal, the row and the Todo are blocked in one transaction.
LEMMA BlocksTogether ==
  ASSUME Shapes, BlockedRow, BlockGovernance, ~GoalClosed
  PROVE  goal' = "blocked" /\ row'.st = "blocked" /\ todo'.st = "blocked" /\ todo'.owner = None
<1> DEFINE t == Released(todo)
<1>1. goal' = "blocked" /\ t \in Todo /\ t.owner = None /\ todo' = [t EXCEPT !.st = "blocked"]
  BY ReleaseMoves DEF Shapes, BlockGovernance
<1>2. row'.st = "blocked"
  BY BlockedRowMove DEF Shapes
<1> HIDE DEF t
<1> QED
  BY <1>1, <1>2 DEF Todo

LEMMA BlockStep ==
  ASSUME Shapes, Aimed, BlockedTogether, CancelledSettled, GNext
  PROVE  BlockedTogether'
<1>1. /\ row \in Row /\ (goal = "blocked" <=> row.st = "blocked")
      /\ (goal = "blocked" => todo.st = "blocked" /\ todo.owner = None)
      /\ (GoalClosed => goal = "cancelled" /\ row.st = "cancelled")
  BY DEF Shapes, BlockedTogether, CancelledSettled, GoalClosed
<1>2. ASSUME UNCHANGED <<goal, todo, row>> PROVE BlockedTogether'
  BY <1>1, <1>2 DEF BlockedTogether
<1>3. ASSUME goal # "blocked", goal' # "blocked", row'.st # "blocked" PROVE BlockedTogether'
  BY <1>3 DEF BlockedTogether
<1>4. ASSUME BlockedRow, BlockGovernance, ~GoalClosed PROVE BlockedTogether'
  BY <1>4, BlocksTogether DEF BlockedTogether
<1>5. ASSUME NEW r, Block(r) PROVE BlockedTogether'
  <2>1. CASE UNCHANGED <<goal, todo, row>>
    BY <1>2, <2>1
  <2>2. CASE BlockedRow /\ BlockGovernance /\ row.st # "cancelled"
    BY <1>1, <1>4, <2>2
  <2> QED
    BY <1>5, <2>1, <2>2 DEF Block
<1>6. ASSUME NEW st, row' = [row EXCEPT !.st = st] \/ row' = [row EXCEPT !.st = st, !.cur = 0] PROVE row'.st = st
  BY <1>1, <1>6 DEF Row
<1>7. CASE BlockTask
  BY <1>4, <1>7 DEF BlockTask, GoalClosed
<1>8. CASE Unblock
  <2>1. goal' = "active" /\ row'.st = "queued"
    BY <1>6, <1>8 DEF Unblock
  <2> QED
    BY <2>1 DEF BlockedTogether
<1>9. CASE Pause
  BY <1>1, <1>3, <1>9 DEF Pause
<1>10. CASE Resume
  <2>1. UNCHANGED row \/ row' = [row EXCEPT !.st = "queued", !.act = "recover"]
    BY <1>10 DEF Resume, ResumedRow
  <2>2. row'.st # "blocked"
    BY <1>1, <1>10, <2>1 DEF Resume, Row
  <2> QED
    BY <1>3, <1>10, <2>2 DEF Resume
<1>11. CASE CancelGoal
  <2>1. goal' = "cancelled" /\ row'.st = "cancelled"
    BY <1>1, <1>11 DEF CancelGoal, Row
  <2> QED
    BY <2>1 DEF BlockedTogether
<1>12. CASE Start
  <2>1. CASE row' = [row EXCEPT !.st = "running", !.cur = Len(runs) + 1, !.act = "", !.hid = Chosen] /\ UNCHANGED goal
    <3>1. row'.st = "running" /\ goal = "active"
      BY <1>1, <1>12, <2>1 DEF Row, Start
    <3> QED
      BY <1>3, <2>1, <3>1
  <2> QED
    BY <1>5, <1>12, <2>1 DEF Start
<1>13. CASE Wake
  <2>1. CASE row' = [row EXCEPT !.st = "running", !.cur = Len(runs) + 1, !.hid = Chosen] /\ goal = "active"
    <3>1. row'.st = "running"
      BY <1>1, <2>1 DEF Row
    <3> QED
      BY <1>3, <1>13, <2>1, <3>1 DEF Wake
  <2> QED
    BY <1>2, <1>13, <2>1 DEF Wake
<1>14. CASE Comment
  <2>1. row'.st = "queued" /\ UNCHANGED goal /\ row.st # "blocked"
    BY <1>6, <1>14 DEF Comment
  <2> QED
    BY <1>1, <1>3, <2>1
<1>15. ASSUME NEW r \in Ids, HookDeny(r) PROVE BlockedTogether'
  BY <1>5, <1>15 DEF HookDeny
<1>16. ASSUME NEW r \in Ids, HookAdvance(r) PROVE BlockedTogether'
  <2>1. CASE row' = [row EXCEPT !.st = "waiting_retry", !.cur = 0, !.act = "recover"] /\ UNCHANGED goal /\ goal = "active"
    <3>1. row'.st = "waiting_retry"
      BY <1>1, <2>1 DEF Row
    <3> QED
      BY <1>3, <2>1, <3>1
  <2>2. ASSUME NEW st \in {"queued", "running", "waiting_user"}, goal = "active", UNCHANGED goal,
               row' = [row EXCEPT !.st = st, !.cur = 0]
        PROVE  BlockedTogether'
    <3>1. row'.st = st
      BY <1>6, <2>2
    <3> QED
      BY <1>3, <2>2, <3>1
  <2>3. CASE BlockedRow /\ BlockGovernance /\ goal = "active"
    BY <1>4, <2>3 DEF GoalClosed
  <2>4. CASE UNCHANGED <<goal, todo, row>>
    BY <1>2, <2>4
  <2>5. CASE Block(r)
    BY <1>5, <2>5
  <2> QED
    BY <1>16, <2>1, <2>2, <2>3, <2>4, <2>5 DEF HookAdvance, Advance
<1>17. ASSUME NEW h \in Hands, AcceptHandoff(h) PROVE BlockedTogether'
  <2>1. todo.owner # None /\ UNCHANGED goal /\ row' = Continued(h)
    BY <1>17, HandInSeq, HandoffAssumption DEF AcceptHandoff, Transferable, Hand, Owners
  <2>2. row'.st \in {row.st, "queued"}
    BY <1>1, <2>1, ContinuedRow DEF Hands
  <2> QED
    BY <1>1, <1>3, <2>1, <2>2
<1>18. ASSUME UNCHANGED <<goal, row>>, goal # "blocked" PROVE BlockedTogether'
  BY <1>1, <1>3, <1>18
<1>19. ASSUME NEW r \in Ids, NEW st, EndRun(r, st) PROVE BlockedTogether'
  BY <1>2, <1>18, <1>19 DEF EndRun, Renewed, RenewalSkipped
<1>20. ASSUME NEW r \in Ids, HookAdmit(r) PROVE BlockedTogether'
  BY <1>2, <1>18, <1>20, AdmitMoves DEF HookAdmit
<1>21. ASSUME NEW r \in Ids, HookSettle(r) \/ HookFail(r) PROVE BlockedTogether'
  BY <1>1, <1>2, <1>18, <1>21 DEF HookSettle, HookFail
<1>22. ASSUME NEW a, ClaimTodo(a) \/ ReleaseTodo \/ Expire PROVE BlockedTogether'
  BY <1>1, <1>18, <1>22 DEF ClaimTodo, ReleaseTodo, Expire, Owned
<1>23. CASE UNCHANGED todo /\ UNCHANGED row /\ UNCHANGED goal
  BY <1>2, <1>23
<1> QED
  BY <1>7, <1>8, <1>9, <1>10, <1>11, <1>12, <1>13, <1>14, <1>15, <1>16, <1>17, <1>19, <1>20, <1>21, <1>22, <1>23,
     TodoFrame, RowFrame, GoalFrame

-----------------------------------------------------------------------------
(* The invariant and the theorems.                                          *)

LEMMA InitGInv == HandoffInit => GInv
<1> SUFFICES ASSUME HandoffInit PROVE GInv
  OBVIOUS
<1>1. /\ goal = "active" /\ hands = <<>> /\ runs = <<>> /\ plans = {} /\ hooks = {} /\ workers = "none"
      /\ todo = [st |-> "pending", owner |-> None, gen |-> 0, fresh |-> FALSE, turn |-> 0]
      /\ row = [st |-> "queued", cur |-> 0, act |-> "", hid |-> 0, srun |-> 0]
      /\ used = [b \in {"claims", "expiries", "pauses", "blocks", "crashes"} |-> 0]
  BY DEF HandoffInit
<1>2. todo \in Todo /\ row \in Row
  BY <1>1 DEF Todo, TodoStatus, Holders, Row
<1>3. used \in [{"claims", "expiries", "pauses", "blocks", "crashes"} -> Nat]
  BY <1>1
<1>4. hands \in Seq(Hand) /\ Len(hands) = 0 /\ runs \in Seq(Run) /\ Len(runs) = 0
  BY <1>1, EmptySeq
<1>5. Shapes
  BY <1>1, <1>2, <1>3, <1>4 DEF Shapes
<1>6. Ids = {} /\ Hands = {} /\ Transferred = {}
  BY <1>4 DEF Ids, Hands, Transferred
<1>7. Aimed
  <2>1. row.cur = 0 /\ row.hid = 0
    BY <1>1
  <2>2. 0 \in 0 .. Len(runs) /\ 0 \in 0 .. Len(hands)
    BY <1>4
  <2> QED
    BY <1>1, <1>6, <2>1, <2>2 DEF Aimed
<1>8. HooksEnded /\ Gens /\ Fenced /\ BlockedTogether /\ CancelledSettled
  BY <1>1, <1>6 DEF HooksEnded, Gens, Fenced, BlockedTogether, CancelledSettled
<1> QED
  BY <1>5, <1>7, <1>8, TypeParts DEF GInv

LEMMA StutterGInv == ASSUME GInv, UNCHANGED gvars PROVE GInv'
<1> USE DEF gvars
<1>1. Shapes' /\ Aimed'
  BY TypeParts DEF GInv, Shapes, Aimed, Ids
<1>2. (GTypeOK)'
  BY <1>1 DEF GTypeOK, Shapes, Aimed, Todo, TodoStatus, Holders, Hand, Row, Run, Stages
<1>3. HooksEnded' /\ Gens' /\ Fenced' /\ BlockedTogether' /\ CancelledSettled'
  BY DEF GInv, HooksEnded, Gens, Fenced, BlockedTogether, CancelledSettled, Ids, Live, Transferred, Hands, Relinquished
<1> QED
  BY <1>2, <1>3 DEF GInv

LEMMA NextGInv == ASSUME GInv, [GNext]_gvars PROVE GInv'
<1>1. CASE UNCHANGED gvars
  BY <1>1, StutterGInv
<1>2. CASE GNext
  <2>1. Shapes /\ Aimed /\ HooksEnded /\ Gens /\ Fenced /\ BlockedTogether /\ CancelledSettled
    BY TypeParts DEF GInv
  <2>2. Shapes' /\ Aimed'
    BY <1>2, <2>1, ShapesStep, AimedStep
  <2>3. GTypeOK'
    BY <2>2 DEF GTypeOK, Shapes, Aimed, Todo, TodoStatus, Holders, Hand, Row, Run, Stages
  <2> QED
    BY <1>2, <2>1, <2>3, HooksEndedStep, GensStep, FencedStep, BlockStep, CancelStep DEF GInv
<1> QED
  BY <1>1, <1>2

\* Every part of the state keeps its shape, and what points to a run or a
\* hand-off points to one that exists.
THEOREM HandoffTypes == GSpec => []GTypeOK
<1>1. GInv => GTypeOK
  BY DEF GInv
<1> QED
  BY <1>1, InitGInv, NextGInv, PTL DEF GSpec

\* However many hand-offs are created against one claim, and whatever is
\* claimed, released or expires in between, a hand-off that is accepted takes
\* the very claim it was created against, and no other one takes the same.
THEOREM ClaimHandedOnce == GSpec => []TransferredOnce
<1>1. GInv => TransferredOnce
  BY DEF GInv, Gens, TransferredOnce
<1> QED
  BY <1>1, InitGInv, NextGInv, PTL DEF GSpec

\* The row and the Goal are blocked together and the Todo is let go with them.
THEOREM BlockedAlike == GSpec => []BlockedTogether
<1>1. GInv => BlockedTogether
  BY DEF GInv
<1> QED
  BY <1>1, InitGInv, NextGInv, PTL DEF GSpec

\* A cancelled Goal leaves no claim, no line and no pending hand-off.
THEOREM CancelledForGood == GSpec => []CancelledSettled
<1>1. GInv => CancelledSettled
  BY DEF GInv
<1> QED
  BY <1>1, InitGInv, NextGInv, PTL DEF GSpec

\* The outcome of a run that handed over never becomes a plan, however far its
\* pipeline had come.
THEOREM HandedOverNeverPlans == GSpec => RelinquishedIsEvidence
<1>1. ASSUME GInv, [GNext]_gvars
      PROVE  [\A h \in Hands : hands[h].st = "transferred" => hands[h].from \in plans \/ hands[h].from \notin plans']_gvars
  <2>1. CASE UNCHANGED gvars
    BY <2>1
  <2>2. ASSUME GNext, NEW h \in Hands, hands[h].st = "transferred", hands[h].from \notin plans
        PROVE  hands[h].from \notin plans'
    <3>1. CASE UNCHANGED plans
      BY <2>2, <3>1
    <3>2. ASSUME NEW r \in Ids, HookSubmit(r), ~UNCHANGED plans PROVE hands[h].from \notin plans'
      <4>1. <<r, "submit">> \in hooks /\ row.cur = r /\ plans' = plans \cup {r}
        BY <3>2 DEF HookSubmit, Submits
      <4>2. r # 0 /\ "submit" \in Early /\ h \in Transferred
        BY <2>2, <3>2 DEF Ids, Early, Transferred
      <4>3. ASSUME hands[h].from = r PROVE FALSE
        <5>1. \A s \in Early : <<row.cur, s>> \notin hooks
          BY <1>1, <4>1, <4>2, <4>3 DEF GInv, Fenced
        <5> QED
          BY <4>1, <4>2, <5>1
      <4> QED
        BY <2>2, <4>1, <4>3
    <3> QED
      BY <2>2, <3>1, <3>2, PlansFrame
  <2> QED
    BY <1>1, <2>1, <2>2
<1> QED
  BY <1>1, InitGInv, NextGInv, PTL DEF GSpec, RelinquishedIsEvidence
=============================================================================
