--------------------------- MODULE CoordinatorProofs ---------------------------
(***************************************************************************)
(* Proofs about Coordinator, for any number of callers, runs, attempts,    *)
(* comments, restarts and faults: one turn at a time owns the control      *)
(* line, and waiting_user hides no comment.                                *)
(* In the second part, about its dispatch batches and wakes: a batch is    *)
(* summarised once - of its wakes at most one may still produce a summary, *)
(* and none once there is one, whatever puts a wake back, repairs it,      *)
(* replays a settlement or loses it in a restart - and it closes only when *)
(* its participants have ended, unless the task is blocked.                *)
(***************************************************************************)
EXTENDS Coordinator, SequenceTheorems, FiniteSetTheorems, TLAPS

\* A row of execution_runs; only its kind and its status matter here.
IsRun(x) ==
  x \in [kind : {"turn", "worker", "eval"}, st : {"live", "succeeded", "failed", "fatal", "cancelled"},
         batch : {x.batch}, sum : {x.sum}, repair : {x.repair}, root : {x.root}, attempt : {x.attempt}]
RunsOK == (\E S : runs \in Seq(S)) /\ \A r \in Ids : IsRun(runs[r])

\* The task_coordinator_states row; whether an action is due is left open.
IsRow(x) ==
  x \in [status : {"queued", "running", "waiting_retry", "waiting_user", "blocked"}, cur : Nat,
         act : {"", "recover", "repair_plan", "retry_worker", "settle"}, at : {x.at}, retryOf : Nat,
         rounds : Nat, fails : Nat, repair : Nat, seen : Nat, settle : Nat, held : BOOLEAN]
Shapes ==
  /\ RunsOK /\ IsRow(co) /\ comments \in Nat
  /\ used \in [blocks : Nat, unblocks : Nat, crashes : Nat, faults : Nat]
  /\ starts \in [Callers -> [do : {"none", "settle", "retry", "turn", "replay", "launch"}, run : Nat]]

\* Only ended runs have hooks, replayed hooks included.
HooksEnded == \A h \in hooks : h[1] \in Ids /\ ~Live(h[1])
StartsAim ==
  \A p \in Callers :
    /\ starts[p].do = "replay" => starts[p].run \in Ids /\ ~Live(starts[p].run)
    /\ starts[p].do = "retry" => starts[p].run \in Ids

\* What the row points to exists; a blocked row points to no run; only a
\* settlement that failed leaves a settlement to retry.
Points(row, n) ==
  /\ row.cur \in 0 .. n
  /\ row.act = "retry_worker" => row.retryOf \in 1 .. n
  /\ row.status = "blocked" => row.cur = 0
RowPoints == Points(co, Len(runs)) /\ (used.faults = 0 => ~Settling)

\* The inductive invariant.
CInv == Shapes /\ HooksEnded /\ StartsAim /\ RowPoints /\ OneTurn /\ NoHiddenComment

\* While the Goal is blocked the row does not wait for the user, not even when a
\* Worker's late retry has moved it: no branch that hands the line over is under
\* way for the run that has it.
HInv == co.held => /\ co.status # "waiting_user"
                   /\ \A h \in hooks : h[2] \in WorkerStages => h[1] # co.cur

-----------------------------------------------------------------------------
\* Runs are added and end, and never come back to life.
Grown ==
  /\ RunsOK' /\ Len(runs) <= Len(runs')
  /\ \A r \in Ids : /\ runs'[r].kind = runs[r].kind
                    /\ runs'[r].st = "live" => runs[r].st = "live"

LEMMA Same == ASSUME RunsOK, UNCHANGED runs PROVE Grown /\ Len(runs') = Len(runs)
<1>1. Len(runs) \in Nat
  BY DEF RunsOK
<1> QED
  BY <1>1 DEF Grown, RunsOK, Ids

\* A new run stands behind the old ones.
LEMMA Added ==
  ASSUME RunsOK, NEW x, IsRun(x), runs' = Append(runs, x)
  PROVE  /\ Grown /\ Len(runs) \in Nat /\ Len(runs') = Len(runs) + 1
         /\ runs'[Len(runs) + 1] = x
         /\ \A r \in Ids : runs'[r] = runs[r]
<1>1. PICK S : runs \in Seq(S)
  BY DEF RunsOK
<1>2. runs \in Seq(S \cup {x})
  BY <1>1, SeqMonotonic
<1>3. /\ runs' \in Seq(S \cup {x}) /\ Len(runs) \in Nat /\ Len(runs') = Len(runs) + 1
      /\ runs'[Len(runs) + 1] = x
      /\ \A r \in 1 .. Len(runs) : runs'[r] = runs[r]
  BY <1>2, AppendProperties, LenProperties
<1>4. \A r \in Ids' : r \in Ids \/ r = Len(runs) + 1
  BY <1>3 DEF Ids
<1>5. \A r \in Ids' : IsRun(runs'[r])
  BY <1>3, <1>4 DEF RunsOK, Ids
<1>6. RunsOK'
  BY <1>3, <1>5 DEF RunsOK, Ids
<1> QED
  BY <1>3, <1>6 DEF Grown, Ids

\* The Workers of a plan stand behind the old runs.
LEMMA WorkersAdded ==
  ASSUME RunsOK, NEW b, NEW n \in Nat,
         runs' = runs \o [i \in 1 .. n |->
           [NewRun("worker", b, FALSE, FALSE) EXCEPT !.root = Len(runs) + i]]
  PROVE  /\ Grown /\ Len(runs) \in Nat
         /\ \A r \in Ids' :
              r \in Ids \/ (runs'[r].kind = "worker" /\ runs'[r].batch = b /\ ~runs'[r].sum)
         /\ \A r \in Ids : runs'[r] = runs[r]
<1> DEFINE new == [i \in 1 .. n |-> [NewRun("worker", b, FALSE, FALSE) EXCEPT !.root = Len(runs) + i]]
           T == {new[i] : i \in 1 .. n}
<1>1. PICK S : runs \in Seq(S)
  BY DEF RunsOK
<1>2. /\ new \in Seq(T) /\ Len(new) = n /\ DOMAIN new = 1 .. n
      /\ \A i \in 1 .. n : IsRun(new[i]) /\ new[i].kind = "worker" /\ new[i].batch = b /\ ~new[i].sum
  <2>1. /\ \A i \in 1 .. n : new[i] = [NewRun("worker", b, FALSE, FALSE) EXCEPT !.root = Len(runs) + i]
        /\ DOMAIN new = 1 .. n
    OBVIOUS
  <2>2. new \in [1 .. n -> T]
    OBVIOUS
  <2> HIDE DEF new, T
  <2>3. new \in Seq(T) /\ Len(new) = n
    BY <2>1, <2>2
  <2> QED
    BY <2>1, <2>3, ZenonT(40) DEF IsRun, NewRun
<1> HIDE DEF new, T
<1>3. runs \in Seq(S \cup T) /\ new \in Seq(S \cup T)
  BY <1>1, <1>2, SeqMonotonic
<1>4. runs' = runs \o new
  BY DEF new
<1>41. /\ runs \o new \in Seq(S \cup T)
       /\ Len(runs \o new) = Len(runs) + Len(new)
       /\ \A r \in 1 .. Len(runs) + Len(new) :
            (runs \o new)[r] = IF r <= Len(runs) THEN runs[r] ELSE new[r - Len(runs)]
  BY <1>3, ConcatProperties, Zenon
<1>42. Len(runs) \in Nat
  BY <1>1
<1>5. /\ runs' \in Seq(S \cup T) /\ Len(runs) \in Nat /\ Len(runs') = Len(runs) + n
      /\ \A r \in 1 .. Len(runs) + n :
           runs'[r] = IF r <= Len(runs) THEN runs[r] ELSE new[r - Len(runs)]
  BY <1>2, <1>4, <1>41, <1>42, Zenon
<1>6. \A r \in Ids' : \/ r \in Ids /\ runs'[r] = runs[r]
                      \/ r - Len(runs) \in 1 .. n /\ runs'[r] = new[r - Len(runs)]
  <2> SUFFICES ASSUME NEW r \in Ids' PROVE \/ r \in Ids /\ runs'[r] = runs[r]
                                           \/ r - Len(runs) \in 1 .. n /\ runs'[r] = new[r - Len(runs)]
    OBVIOUS
  <2>1. r \in 1 .. Len(runs) + n
    BY <1>5 DEF Ids
  <2>2. runs'[r] = IF r <= Len(runs) THEN runs[r] ELSE new[r - Len(runs)]
    BY <2>1, <1>5
  <2> QED
    BY <2>1, <2>2, <1>42 DEF Ids
<1>7. \A r \in Ids' : IsRun(runs'[r])
  BY <1>2, <1>6 DEF RunsOK
<1>8. RunsOK'
  BY <1>5, <1>7 DEF RunsOK
<1>9. \A r \in Ids : runs'[r] = runs[r]
  BY <1>5, <1>6 DEF Ids
<1>10. \A r \in Ids' :
         r \in Ids \/ (runs'[r].kind = "worker" /\ runs'[r].batch = b /\ ~runs'[r].sum)
  BY <1>2, <1>6
<1>11. Len(runs) \in Nat /\ Len(runs) <= Len(runs')
  BY <1>5
<1> HIDE DEF new
<1> QED
  BY <1>8, <1>9, <1>10, <1>11, Zenon DEF Grown

\* One run ends.
LEMMA Ended ==
  ASSUME RunsOK, NEW r \in Ids, NEW st \in {"succeeded", "failed", "fatal", "cancelled"},
         runs' = [runs EXCEPT ![r].st = st]
  PROVE  /\ Grown /\ Len(runs') = Len(runs) /\ runs'[r].st = st
         /\ \A q \in Ids : q # r => runs'[q] = runs[q]
<1> DEFINE x == [runs[r] EXCEPT !.st = st]
<1>1. PICK S : runs \in Seq(S)
  BY DEF RunsOK
<1>2. runs \in Seq(S \cup {x})
  BY <1>1, SeqMonotonic
<1>3. IsRun(x) /\ x.st = st /\ x.kind = runs[r].kind
  BY DEF RunsOK, IsRun
<1>4. runs' = [runs EXCEPT ![r] = x]
  OBVIOUS
<1> HIDE DEF x
<1>5. /\ runs' \in Seq(S \cup {x}) /\ Len(runs') = Len(runs) /\ Len(runs) \in Nat
      /\ \A q \in Ids : runs'[q] = IF q = r THEN x ELSE runs[q]
  BY <1>2, <1>4, ExceptSeq, LenProperties DEF Ids
<1>6. RunsOK'
  BY <1>3, <1>5 DEF RunsOK, Ids
<1> QED
  BY <1>3, <1>5, <1>6 DEF Grown, Ids

-----------------------------------------------------------------------------
\* A turn or an evaluation that is at work and has not been asked to stop.
Holds(r) == runs[r].kind \in Governed /\ Live(r) /\ r \notin doomed

\* When the row points to no run, or to one that has ended, no turn is at work.
LEMMA NobodyHolds ==
  ASSUME OneTurn, used.faults = 0, RowPoints, RunsOK, co.cur = 0 \/ ~Live(co.cur)
  PROVE  \A r \in Ids : ~Holds(r)
<1>1. Len(runs) \in Nat
  BY DEF RunsOK
<1> QED
  BY <1>1 DEF OneTurn, Holds, Ids

\* Every turn that is at work after a step was so before, or is the one the row
\* points to.
LEMMA TurnsStay ==
  ASSUME CInv, Grown, used'.faults = 0 => used.faults = 0,
         doomed \cap Ids \subseteq doomed' \cup {r \in Ids : runs'[r].st # "live"},
         used'.faults = 0 => \A r \in Ids : Holds(r) /\ Live(r)' /\ r \notin doomed' => co'.cur = r,
         \A r \in Ids' : r \in Ids \/ runs'[r].kind = "worker" \/ co'.cur = r
  PROVE  OneTurn'
<1> SUFFICES ASSUME used'.faults = 0, NEW r \in Ids', runs'[r].kind \in Governed, Live(r)', r \notin doomed'
             PROVE  co'.cur = r
  BY DEF OneTurn
<1>1. runs'[r].kind # "worker"
  BY DEF Governed
<1>2. CASE r \in Ids
  BY <1>2 DEF Grown, Holds, Live
<1> QED
  BY <1>1, <1>2

\* Hooks and starts that aim at ended runs go on doing so.
LEMMA AimsStay ==
  ASSUME CInv, Grown,
         \A h \in hooks' : h \in hooks \/ (h[1] \in Ids /\ ~Live(h[1])) \/ (h[1] \in Ids' /\ ~Live(h[1])'),
         \A p \in Callers : starts'[p] = starts[p] \/ starts'[p].do \notin {"replay", "retry"}
  PROVE  HooksEnded' /\ StartsAim'
<1>1. Len(runs) \in Nat /\ Len(runs') \in Nat
  <2>1. RunsOK /\ RunsOK'
    BY DEF CInv, Shapes, Grown
  <2> QED
    BY <2>1 DEF RunsOK
<1>2. \A r \in Ids : r \in Ids' /\ (~Live(r) => ~Live(r)')
  <2> SUFFICES ASSUME NEW r \in Ids PROVE r \in Ids' /\ (~Live(r) => ~Live(r)')
    OBVIOUS
  <2>1. Len(runs) <= Len(runs') /\ (runs'[r].st = "live" => runs[r].st = "live")
    BY DEF Grown
  <2> QED
    BY <2>1, <1>1 DEF Ids, Live
<1>3. \A h \in hooks' : h[1] \in Ids' /\ ~Live(h[1])'
  BY <1>2 DEF CInv, HooksEnded
<1>4. ASSUME NEW p \in Callers
      PROVE  /\ starts'[p].do = "replay" => starts'[p].run \in Ids' /\ runs'[starts'[p].run].st # "live"
             /\ starts'[p].do = "retry" => starts'[p].run \in Ids'
  BY <1>2 DEF CInv, StartsAim, Live
<1> QED
  BY <1>3, <1>4 DEF HooksEnded, StartsAim, Live

\* A step that leaves runs and row alone.
LEMMA RowStays ==
  ASSUME CInv, UNCHANGED <<co, runs, comments>>, used'.faults = 0 => used.faults = 0, doomed \subseteq doomed',
         used' \in [blocks : Nat, unblocks : Nat, crashes : Nat, faults : Nat],
         starts' \in [Callers -> [do : {"none", "settle", "retry", "turn", "replay", "launch"}, run : Nat]],
         HooksEnded', StartsAim'
  PROVE  CInv'
BY DEF CInv, Shapes, RunsOK, RowPoints, Points, OneTurn, NoHiddenComment, Ids, Live, Unseen, Settling

\* What a handler may do to the row on behalf of run r: it stays a row that
\* points to what exists, is waiting_user only with every comment read, and
\* leaves the control line alone unless r has it or nobody does.
Moved(r) ==
  /\ IsRow(co') /\ Points(co', Len(runs))
  /\ co'.act = "settle" => co.act = "settle"
  /\ co'.status = "waiting_user" => ~(co'.seen < comments)
  /\ co'.cur = co.cur \/ co.cur \in {0, r}

\* A handler that moves only the row, for a run that has ended.
LEMMA LineMoves ==
  ASSUME CInv, NEW r, ~Live(r), Moved(r), UNCHANGED <<runs, comments, used, starts, doomed>>,
         HooksEnded', StartsAim'
  PROVE  CInv'
<1>1. RunsOK /\ Grown
  BY Same DEF CInv, Shapes
<1>2. OneTurn'
  <2>1. CASE co'.cur = co.cur
    BY <2>1 DEF CInv, OneTurn, Ids, Live
  <2>2. CASE co.cur \in {0, r}
    <3> SUFFICES ASSUME used.faults = 0, NEW q \in Ids, Holds(q) PROVE FALSE
      BY DEF OneTurn, Holds, Ids, Live
    <3> QED
      BY <1>1, <2>2, NobodyHolds DEF CInv
  <2> QED
    BY <2>1, <2>2 DEF Moved
<1>3. RowPoints' /\ NoHiddenComment'
  BY DEF CInv, Moved, RowPoints, Points, NoHiddenComment, Unseen, Settling
<1> QED
  BY <1>2, <1>3 DEF CInv, Shapes, Moved, RunsOK, IsRun, Ids

\* The usual ways to move the row.
LEMMA Rows ==
  ASSUME CInv, NEW r \in Ids
  PROVE  /\ UNCHANGED co => Moved(r)
         /\ co' = Blocked(co) /\ co.cur \in {0, r} => Moved(r)
         /\ co' = Handover(co) /\ co.cur \in {0, r} => Moved(r)
         /\ Block(r) => Moved(r)
<1>1. IsRow(co) /\ comments \in Nat /\ Points(co, Len(runs)) /\ Len(runs) \in Nat /\ NoHiddenComment
  BY DEF CInv, Shapes, RowPoints, RunsOK
<1>2. UNCHANGED co => Moved(r)
  BY <1>1 DEF Moved, NoHiddenComment, Unseen
<1>3. ASSUME co' = Blocked(co), co.cur \in {0, r} PROVE Moved(r)
  <2>1. IsRow(co') /\ co'.status = "blocked" /\ co'.cur = 0 /\ co'.act = co.act /\ co'.retryOf = co.retryOf
    BY <1>1, <1>3 DEF Blocked, IsRow
  <2> QED
    BY <1>1, <1>3, <2>1 DEF Moved, Points
<1>4. ASSUME co' = Handover(co), co.cur \in {0, r} PROVE Moved(r)
  <2>1. /\ IsRow(co') /\ co'.cur = 0 /\ co'.act = co.act /\ co'.retryOf = co.retryOf /\ co'.seen = co.seen
        /\ co'.status = IF Unseen THEN "queued" ELSE "waiting_user"
    BY <1>1, <1>4 DEF Handover, IsRow
  <2> QED
    BY <1>1, <1>4, <2>1 DEF Moved, Points, Unseen
<1>5. ASSUME Block(r) PROVE Moved(r)
  <2>1. r # 0 /\ runs[r].kind \in {"turn", "worker", "eval"}
    BY <1>1 DEF CInv, Shapes, RunsOK, IsRun, Ids
  <2>2. \/ UNCHANGED co
        \/ co' = Blocked(co) /\ co.cur \in {0, r}
    BY <1>5, <2>1 DEF Block, Superseded, Governed
  <2> QED
    BY <1>2, <1>3, <2>2
<1> QED
  BY <1>2, <1>3, <1>4, <1>5

\* A successful turn gives the line up; it hands over to the user only with
\* every comment read.
LEMMA SuccessMoves ==
  ASSUME CInv, NEW r \in Ids, co.cur = r, Success(r)
  PROVE  Moved(r)
<1> DEFINE row == [co EXCEPT !.cur = 0, !.fails = 0]
<1>1. IsRow(co) /\ comments \in Nat /\ Points(co, Len(runs)) /\ Len(runs) \in Nat
  BY DEF CInv, Shapes, RowPoints, RunsOK
<1>2. \/ co' = Blocked(row)
      \/ co' = [row EXCEPT !.status = "queued"]
      \/ co' = [row EXCEPT !.status = "running"]
      \/ co' = [row EXCEPT !.status = "waiting_user"] /\ ~Unseen
  BY DEF Success
<1>3. /\ IsRow(co') /\ co'.cur = 0 /\ co'.act = co.act /\ co'.retryOf = co.retryOf /\ co'.seen = co.seen
      /\ co'.status = "waiting_user" => ~Unseen
  <2>1. IsRow(row) /\ row.cur = 0 /\ row.act = co.act /\ row.retryOf = co.retryOf /\ row.seen = co.seen
    BY <1>1 DEF IsRow
  <2> HIDE DEF row
  <2>2. CASE co' = Blocked(row)
    BY <2>1, <2>2 DEF IsRow, Blocked
  <2>3. CASE co' = [row EXCEPT !.status = "queued"]
    BY <2>1, <2>3 DEF IsRow
  <2>4. CASE co' = [row EXCEPT !.status = "running"]
    BY <2>1, <2>4 DEF IsRow
  <2>5. CASE co' = [row EXCEPT !.status = "waiting_user"] /\ ~Unseen
    BY <2>1, <2>5 DEF IsRow
  <2> QED
    BY <1>2, <2>2, <2>3, <2>4, <2>5 DEF row
<1> QED
  BY <1>1, <1>3 DEF Moved, Points, Unseen

\* handleCoordinatorTerminal
LEMMA GovernedMoves ==
  ASSUME CInv, NEW r \in Ids, AdvanceGoverned(r)
  PROVE  Moved(r)
<1>1. IsRow(co) /\ comments \in Nat /\ Points(co, Len(runs)) /\ Len(runs) \in Nat
  BY DEF CInv, Shapes, RowPoints, RunsOK
<1>2. \/ UNCHANGED co
      \/ co.cur = r /\ Success(r)
      \/ co.cur = r /\ co' = Handover(co)
      \/ /\ co.cur = r
         /\ \E act \in {"repair_plan", "recover"} :
              co' = [co EXCEPT !.status = "waiting_retry", !.cur = 0, !.at = TRUE, !.fails = @ + 1, !.act = act]
      \/ Block(r)
  BY DEF AdvanceGoverned
<1>3. ASSUME co.cur = r, NEW act \in {"repair_plan", "recover"}, NEW n \in Nat,
             co' = [co EXCEPT !.status = "waiting_retry", !.cur = 0, !.at = TRUE, !.fails = n, !.act = act]
      PROVE  Moved(r)
  <2>1. IsRow(co') /\ co'.cur = 0 /\ co'.act = act /\ co'.status = "waiting_retry"
    BY <1>1, <1>3 DEF IsRow
  <2> QED
    BY <1>1, <1>3, <2>1 DEF Moved, Points
<1>4. co.fails + 1 \in Nat
  <2>1. co.fails \in Nat
    BY <1>1 DEF IsRow
  <2> QED
    BY <2>1
<1>5. ASSUME co.cur = r, NEW act \in {"repair_plan", "recover"},
             co' = [co EXCEPT !.status = "waiting_retry", !.cur = 0, !.at = TRUE, !.fails = @ + 1, !.act = act]
      PROVE  Moved(r)
  <2>1. PICK n \in Nat : n = co.fails + 1
    BY <1>4
  <2>2. co' = [co EXCEPT !.status = "waiting_retry", !.cur = 0, !.at = TRUE, !.fails = n, !.act = act]
    BY <1>5, <2>1
  <2> QED
    BY <1>3, <1>5, <2>2
<1>6. co.cur = r /\ co' = Handover(co) => Moved(r)
  BY Rows
<1>7. (UNCHANGED co => Moved(r)) /\ (Block(r) => Moved(r)) /\ (co.cur = r /\ Success(r) => Moved(r))
  BY Rows, SuccessMoves
<1> QED
  BY <1>2, <1>5, <1>6, <1>7, Zenon

\* What handleCoordinatorWorkerTerminal may write.
LEMMA WorkerWrites ==
  ASSUME NEW r, NEW stage \in WorkerStages, AdvanceWorker(r, stage)
  PROVE  /\ UNCHANGED wakes
         /\ \/ UNCHANGED <<co, batches>>
            \/ /\ ~Superseded(r)
               /\ \/ co' = co
                  \/ co' = [co EXCEPT !.cur = 0, !.act = "", !.retryOf = 0, !.rounds = 0]
                  \/ co' = [co EXCEPT !.cur = 0]
                  \/ co' = Handover(co)
                  \/ co' = [co EXCEPT !.status = "waiting_retry", !.cur = 0, !.at = TRUE,
                                      !.act = "retry_worker", !.retryOf = r]
                  \/ co' = [co EXCEPT !.status = "queued", !.cur = 0, !.act = "", !.retryOf = 0, !.rounds = 1]
               /\ UNCHANGED batches
            \/ ~Superseded(r) /\ Block(r)
<1>1. CASE stage = "finish"
  BY <1>1 DEF AdvanceWorker
<1>2. CASE stage = "hand"
  BY <1>2 DEF AdvanceWorker
<1>3. CASE stage = "retry"
  BY <1>3 DEF AdvanceWorker
<1>4. CASE stage = "replan"
  BY <1>4 DEF AdvanceWorker
<1>5. CASE stage = "giveup"
  BY <1>5 DEF AdvanceWorker
<1> QED
  BY <1>1, <1>2, <1>3, <1>4, <1>5 DEF WorkerStages

\* handleCoordinatorWorkerTerminal
LEMMA WorkerMoves ==
  ASSUME CInv, NEW r \in Ids, NEW stage \in WorkerStages, AdvanceWorker(r, stage), runs[r].kind = "worker"
  PROVE  Moved(r)
<1>1. IsRow(co) /\ comments \in Nat /\ Points(co, Len(runs)) /\ Len(runs) \in Nat
  BY DEF CInv, Shapes, RowPoints, RunsOK
<1>2. \/ UNCHANGED co
      \/ /\ co.cur \in {0, r}
         /\ \/ co' = [co EXCEPT !.cur = 0, !.act = "", !.retryOf = 0, !.rounds = 0]
            \/ co' = [co EXCEPT !.cur = 0]
            \/ co' = Handover(co)
            \/ co' = [co EXCEPT !.status = "waiting_retry", !.cur = 0, !.at = TRUE,
                                !.act = "retry_worker", !.retryOf = r]
            \/ co' = [co EXCEPT !.status = "queued", !.cur = 0, !.act = "", !.retryOf = 0, !.rounds = 1]
      \/ Block(r)
  BY WorkerWrites DEF Superseded
<1>3. ASSUME co.cur \in {0, r},
             \/ co' = [co EXCEPT !.cur = 0, !.act = "", !.retryOf = 0, !.rounds = 0]
             \/ co' = [co EXCEPT !.cur = 0]
             \/ co' = [co EXCEPT !.status = "waiting_retry", !.cur = 0, !.at = TRUE,
                                 !.act = "retry_worker", !.retryOf = r]
             \/ co' = [co EXCEPT !.status = "queued", !.cur = 0, !.act = "", !.retryOf = 0, !.rounds = 1]
      PROVE  Moved(r)
  <2>1. /\ IsRow(co') /\ co'.cur = 0
        /\ \/ co'.act = ""
           \/ co'.act = "retry_worker" /\ co'.retryOf = r
           \/ co'.act = co.act /\ co'.retryOf = co.retryOf
        /\ co'.status = "waiting_user" => co.status = "waiting_user" /\ co'.seen = co.seen
    <3>1. CASE co' = [co EXCEPT !.cur = 0, !.act = "", !.retryOf = 0, !.rounds = 0]
      BY <1>1, <3>1 DEF IsRow
    <3>2. CASE co' = [co EXCEPT !.cur = 0]
      BY <1>1, <3>2 DEF IsRow
    <3>0. r \in Nat
      BY <1>1 DEF Ids
    <3>3. CASE co' = [co EXCEPT !.status = "waiting_retry", !.cur = 0, !.at = TRUE,
                                !.act = "retry_worker", !.retryOf = r]
      BY <1>1, <3>0, <3>3 DEF IsRow
    <3>4. CASE co' = [co EXCEPT !.status = "queued", !.cur = 0, !.act = "", !.retryOf = 0, !.rounds = 1]
      BY <1>1, <3>4 DEF IsRow
    <3> QED
      BY <1>3, <3>1, <3>2, <3>3, <3>4
  <2>2. co'.status = "waiting_user" => ~(co'.seen < comments)
    BY <2>1 DEF CInv, NoHiddenComment, Unseen
  <2>3. Points(co', Len(runs))
    <3>1. 0 \in 0 .. Len(runs) /\ r \in 1 .. Len(runs)
      BY <1>1 DEF Ids
    <3> QED
      BY <1>1, <2>1, <3>1 DEF Points
  <2> QED
    BY <1>1, <1>3, <2>1, <2>2, <2>3 DEF Moved
<1> QED
  BY <1>2, <1>3, Rows

\* What a row points to goes on existing.
LEMMA PointsOn ==
  ASSUME NEW row, NEW m \in Nat, NEW n \in Nat, m <= n, Points(row, m)
  PROVE  Points(row, n)
BY DEF Points

\* A row without a current run and without a retry points to nothing.
LEMMA PointsNowhere ==
  ASSUME NEW row, NEW n \in Nat, row.cur = 0, row.act # "retry_worker"
  PROVE  Points(row, n)
BY DEF Points

\* Every run is created as a run.
LEMMA NewRuns ==
  ASSUME NEW kind \in {"turn", "worker", "eval"}, NEW b, NEW sum, NEW repair
  PROVE  IsRun(NewRun(kind, b, sum, repair))
BY DEF IsRun, NewRun

\* A new run takes the line from nobody.
LEMMA LineTaken ==
  ASSUME CInv, NEW x, IsRun(x), runs' = Append(runs, x), co.cur = 0 \/ ~Live(co.cur),
         IsRow(co'), co'.cur = Len(runs) + 1, co'.status \notin StopStatus,
         co'.act = "settle" => co.act = "settle",
         co'.act = "retry_worker" => co.act = "retry_worker" /\ co'.retryOf = co.retryOf,
         UNCHANGED <<comments, used, doomed>>,
         starts' \in [Callers -> [do : {"none", "settle", "retry", "turn", "replay", "launch"}, run : Nat]],
         HooksEnded', StartsAim'
  PROVE  CInv'
<1>1. RunsOK /\ OneTurn /\ RowPoints
  BY DEF CInv, Shapes
<1>2. /\ Grown /\ Len(runs) \in Nat /\ Len(runs') = Len(runs) + 1
      /\ \A r \in Ids : runs'[r] = runs[r]
  BY <1>1, Added
<1>3. ASSUME used.faults = 0, NEW r \in Ids', runs'[r].kind \in Governed, Live(r)', r \notin doomed
      PROVE  co'.cur = r
  <2>1. \A q \in Ids : ~Holds(q)
    BY <1>1, <1>3, NobodyHolds
  <2>2. r \in Ids => Holds(r)
    BY <1>2, <1>3 DEF Holds, Live
  <2>3. r \in 1 .. Len(runs) + 1
    BY <1>2 DEF Ids
  <2> QED
    BY <1>2, <2>1, <2>2, <2>3 DEF Ids
<1>4. OneTurn'
  BY <1>3 DEF OneTurn, Live
<1>5. RowPoints'
  <2>1. co'.cur \in 0 .. Len(runs')
    BY <1>2
  <2>2. co'.act = "retry_worker" => co'.retryOf \in 1 .. Len(runs')
    BY <1>1, <1>2 DEF RowPoints, Points
  <2> QED
    BY <1>1, <2>1, <2>2 DEF RowPoints, Points, StopStatus, Settling
<1>6. NoHiddenComment' /\ Shapes'
  BY <1>2 DEF CInv, Shapes, Grown, NoHiddenComment, StopStatus
<1> QED
  BY <1>4, <1>5, <1>6 DEF CInv

\* Hooks follow each other for the same run.
LEMMA HooksFollow ==
  ASSUME NEW r, NEW stage \in {"plan", "advance", "settle"} \cup WorkerStages,
         <<r, stage>> \in hooks, NextHook(r, stage)
  PROVE  \A h \in hooks' : h \in hooks \/ h[1] = r
BY DEF NextHook, WorkerStages

\* A step of the hooks of r, or of nobody, leaves every aim where it was.
LEMMA HookAims ==
  ASSUME CInv, Grown, NEW r \in Ids, ~Live(r), UNCHANGED starts,
         \A h \in hooks' : h \in hooks \/ h[1] = r
  PROVE  HooksEnded' /\ StartsAim'
BY AimsStay

\* maybeExtractPlan: Workers join, an evaluation or a repair takes the line from
\* the turn that has ended, or the row is blocked.
LEMMA PlanKeeps ==
  ASSUME CInv, NEW r \in Ids, HookPlan(r)
  PROVE  CInv'
<1>1. /\ <<r, "plan">> \in hooks /\ NextHook(r, "plan")
      /\ UNCHANGED <<comments, starts, doomed, used>>
  BY DEF HookPlan
<1>2. ~Live(r)
  BY <1>1 DEF CInv, HooksEnded
<1>3. \A h \in hooks' : h \in hooks \/ h[1] = r
  BY <1>1, HooksFollow
<1>4. /\ RunsOK /\ IsRow(co) /\ Len(runs) \in Nat /\ Points(co, Len(runs)) /\ comments \in Nat /\ NoHiddenComment
      /\ starts \in [Callers -> [do : {"none", "settle", "retry", "turn", "replay", "launch"}, run : Nat]]
  BY DEF CInv, Shapes, RunsOK, RowPoints
<1>5. IsRow(Accepted(r)) /\ Accepted(r).cur = co.cur /\ Accepted(r).status = co.status
      /\ Accepted(r).seen = co.seen
      /\ \/ Accepted(r).act = co.act /\ Accepted(r).retryOf = co.retryOf
         \/ Accepted(r).act = ""
  BY <1>4 DEF Accepted, IsRow
<1>6. ASSUME UNCHANGED runs, Moved(r) PROVE CInv'
  <2>1. Grown
    BY <1>4, <1>6, Same
  <2>2. HooksEnded' /\ StartsAim'
    BY <1>1, <1>2, <1>3, <2>1, HookAims
  <2> QED
    BY <1>1, <1>2, <1>6, <2>2, LineMoves
<1>7. ASSUME NEW x, IsRun(x), runs' = Append(runs, x), co.cur = r, IsRow(co'), co'.cur = Len(runs) + 1,
             co'.status \notin StopStatus, co'.act = "settle" => co.act = "settle",
             co'.act = "retry_worker" => co.act = "retry_worker" /\ co'.retryOf = co.retryOf
      PROVE  CInv'
  <2>1. Grown
    BY <1>4, <1>7, Added
  <2>2. HooksEnded' /\ StartsAim'
    BY <1>1, <1>2, <1>3, <2>1, HookAims
  <2> QED
    BY <1>1, <1>2, <1>4, <1>7, <2>2, LineTaken
<1>8. CASE Verdict(r) \/ PlanKnown(r)
  <2>1. UNCHANGED <<co, runs>>
    BY <1>8 DEF Verdict, PlanKnown
  <2> QED
    BY <2>1, <1>6, Rows
<1>9. ASSUME NEW n \in 1 .. MaxWorkers, Dispatch(r, n) PROVE CInv'
  <2>1. /\ co' = Accepted(r) /\ co.cur = r
        /\ \E b : runs' = runs \o [i \in 1 .. n |-> [NewRun("worker", b, FALSE, FALSE) EXCEPT !.root = Len(runs) + i]]
    BY <1>9 DEF Dispatch, Owns
  <2>2. n \in Nat
    BY CoordinatorAssumption
  <2>3. /\ Grown /\ \A q \in Ids' : q \in Ids \/ runs'[q].kind = "worker"
        /\ \A q \in Ids : runs'[q] = runs[q]
    BY <1>4, <2>1, <2>2, WorkersAdded
  <2>4. HooksEnded' /\ StartsAim'
    BY <1>1, <1>2, <1>3, <2>3, HookAims
  <2>5. OneTurn'
    <3>1. \A q \in Ids : Holds(q) /\ used.faults = 0 => co.cur = q
      BY DEF CInv, OneTurn, Holds
    <3> QED
      BY <1>1, <1>5, <2>1, <2>3, <3>1, TurnsStay DEF Holds
  <2>6. RowPoints'
    <3>1. Len(runs') \in Nat /\ Len(runs) <= Len(runs')
      BY <2>3 DEF Grown, RunsOK
    <3>0. Points(Accepted(r), Len(runs))
      BY <1>4, <1>5 DEF Points
    <3>2. Points(co', Len(runs'))
      BY <1>4, <2>1, <3>0, <3>1, PointsOn
    <3> QED
      BY <1>1, <1>5, <2>1, <3>2 DEF CInv, RowPoints, Settling
  <2> QED
    BY <1>1, <1>4, <1>5, <2>1, <2>3, <2>4, <2>5, <2>6 DEF CInv, Shapes, Grown, NoHiddenComment, Unseen
<1>10. CASE FinishEvaluated(r)
  <2>1. /\ co.cur = r /\ co.status \notin StopStatus /\ runs' = Append(runs, NewRun("eval", 0, FALSE, FALSE))
        /\ co' = [Accepted(r) EXCEPT !.cur = Len(runs) + 1]
    BY <1>10 DEF FinishEvaluated, Owns, Stopped
  <2>2. PICK n \in Nat : n = Len(runs) + 1
    BY <1>4
  <2>3. /\ IsRow(co') /\ co'.cur = n /\ co'.status = co.status /\ co'.act = Accepted(r).act
        /\ co'.retryOf = Accepted(r).retryOf
    <3>1. co' = [Accepted(r) EXCEPT !.cur = n]
      BY <2>1, <2>2
    <3> QED
      BY <1>5, <3>1 DEF IsRow
  <2> QED
    BY <1>5, <1>7, <2>1, <2>2, <2>3, NewRuns
<1>11. CASE FinishPlain(r)
  <2>1. UNCHANGED runs /\ co' = Accepted(r) /\ co.cur = r
    BY <1>11 DEF FinishPlain, Owns
  <2>2. Moved(r)
    BY <1>4, <1>5, <2>1 DEF Moved, Points, NoHiddenComment, Unseen
  <2> QED
    BY <2>1, <2>2, <1>6
<1>12. CASE PlanRejected(r)
  <2>1. CASE co.cur # r
    BY <1>6, <1>12, <2>1, Rows DEF PlanRejected
  <2>2. CASE co.cur = r /\ co.repair < MaxRepairs
    <3>1. /\ runs' = Append(runs, NewRun("turn", Len(batches) + 1, FALSE, TRUE))
          /\ co' = [co EXCEPT !.status = "running", !.cur = Len(runs) + 1, !.act = "", !.at = FALSE,
                              !.seen = comments, !.repair = @ + 1]
      BY <1>12, <2>2 DEF PlanRejected
    <3>2. PICK n \in Nat : n = Len(runs) + 1
      BY <1>4
    <3>3. PICK m \in Nat : m = co.repair + 1
      <4>1. co.repair \in Nat
        BY <1>4 DEF IsRow
      <4> QED
        BY <4>1
    <3>4. IsRow(co') /\ co'.cur = n /\ co'.status = "running" /\ co'.act = ""
      <4>1. co' = [co EXCEPT !.status = "running", !.cur = n, !.act = "", !.at = FALSE, !.seen = comments, !.repair = m]
        BY <3>1, <3>2, <3>3
      <4> QED
        BY <1>4, <4>1 DEF IsRow
    <3> QED
      BY <1>7, <2>2, <3>1, <3>2, <3>4, NewRuns DEF StopStatus
  <2>3. CASE co.cur = r /\ ~(co.repair < MaxRepairs)
    <3>1. UNCHANGED runs /\ co' = [Blocked(co) EXCEPT !.act = ""]
      BY <1>12, <2>3 DEF PlanRejected
    <3>2. IsRow(co') /\ co'.cur = 0 /\ co'.status = "blocked" /\ co'.act = ""
      BY <1>4, <3>1 DEF Blocked, IsRow
    <3>3. Moved(r)
      BY <1>4, <2>3, <3>2, PointsNowhere DEF Moved
    <3> QED
      BY <3>1, <3>3, <1>6
  <2> QED
    BY <2>1, <2>2, <2>3
<1>13. CASE PlanDenied(r)
  BY <1>6, <1>13, Rows DEF PlanDenied
<1> QED
  BY <1>8, <1>9, <1>10, <1>11, <1>12, <1>13 DEF HookPlan

-----------------------------------------------------------------------------
LEMMA InitCInv == CoordinatorInit => CInv
<1> SUFFICES ASSUME CoordinatorInit PROVE CInv
  OBVIOUS
<1>1. runs \in Seq({}) /\ Len(runs) = 0
  BY EmptySeq DEF CoordinatorInit
<1>2. RunsOK /\ Ids = {}
  BY <1>1 DEF RunsOK, Ids
<1>3. IsRow(co) /\ co.cur = 0 /\ co.act = "" /\ co.status = "queued"
  BY DEF CoordinatorInit, IsRow
<1>4. /\ comments \in Nat /\ hooks = {}
      /\ used \in [blocks : Nat, unblocks : Nat, crashes : Nat, faults : Nat]
      /\ starts \in [Callers -> [do : {"none", "settle", "retry", "turn", "replay", "launch"}, run : Nat]]
      /\ \A p \in Callers : starts[p].do = "none"
  BY DEF CoordinatorInit, Idle
<1>5. Shapes
  BY <1>2, <1>3, <1>4 DEF Shapes
<1>6. HooksEnded /\ StartsAim /\ OneTurn /\ NoHiddenComment
  BY <1>2, <1>3, <1>4 DEF HooksEnded, StartsAim, OneTurn, NoHiddenComment
<1>7. RowPoints
  <2>1. co.act # "retry_worker" /\ co.act # "settle"
    BY <1>3
  <2>2. Len(runs) \in Nat
    BY <1>2 DEF RunsOK
  <2> QED
    BY <1>3, <2>1, <2>2, PointsNowhere DEF RowPoints, Settling
<1> QED
  BY <1>5, <1>6, <1>7 DEF CInv

\* StartCoordinator reads and acts in two transactions; what it decided on a
\* stale row is checked again or does no harm.
LEMMA StartKeeps == ASSUME CInv, NEW p \in Callers, Start(p) PROVE CInv'
<1>1. /\ RunsOK /\ IsRow(co) /\ Len(runs) \in Nat /\ Points(co, Len(runs)) /\ comments \in Nat /\ NoHiddenComment
      /\ used \in [blocks : Nat, unblocks : Nat, crashes : Nat, faults : Nat]
      /\ starts \in [Callers -> [do : {"none", "settle", "retry", "turn", "replay", "launch"}, run : Nat]]
  BY DEF CInv, Shapes, RunsOK, RowPoints
<1>2. ASSUME UNCHANGED <<co, runs, comments, used>>, doomed \subseteq doomed',
             NEW d \in [do : {"none", "settle", "retry", "turn", "replay", "launch"}, run : Nat],
             starts' = [starts EXCEPT ![p] = d],
             d.do = "replay" => d.run \in Ids /\ ~Live(d.run), d.do = "retry" => d.run \in Ids,
             \A h \in hooks' : h \in hooks \/ (h[1] \in Ids /\ ~Live(h[1]))
      PROVE  CInv'
  <2>1. HooksEnded'
    BY <1>2 DEF CInv, HooksEnded, Ids, Live
  <2>2. \A q \in Callers : starts'[q] = IF q = p THEN d ELSE starts[q]
    BY <1>1, <1>2
  <2>3. StartsAim'
    BY <1>2, <2>2 DEF CInv, StartsAim, Ids, Live
  <2>4. starts' \in [Callers -> [do : {"none", "settle", "retry", "turn", "replay", "launch"}, run : Nat]]
    BY <1>1, <1>2
  <2> QED
    BY <1>1, <1>2, <2>1, <2>3, <2>4, RowStays
<1>3. /\ Idle \in [do : {"none", "settle", "retry", "turn", "replay", "launch"}, run : Nat]
      /\ Idle.do = "none"
  BY DEF Idle
<1>4. CASE StartRead(p)
  <2>1. /\ Decision \in [do : {"none", "settle", "retry", "turn", "replay", "launch"}, run : Nat]
        /\ Decision.do = "replay" => Decision.run \in Ids /\ ~Live(Decision.run)
        /\ Decision.do = "retry" => Decision.run \in Ids
    <3>1. /\ co.settle \in Nat /\ co.retryOf \in Nat /\ co.cur \in Nat /\ 0 \in Nat
          /\ co.cur # 0 => co.cur \in Ids
          /\ co.act = "retry_worker" => co.retryOf \in Ids
      <4>1. co.settle \in Nat /\ co.retryOf \in Nat /\ co.cur \in Nat
        BY <1>1 DEF IsRow
      <4> QED
        BY <1>1, <4>1 DEF Points, Ids
    <3>2. \/ Decision = [do |-> "settle", run |-> co.settle]
          \/ Decision = [do |-> "retry", run |-> co.retryOf] /\ co.act = "retry_worker"
          \/ Decision = [do |-> "none", run |-> 0]
          \/ Decision = [do |-> "replay", run |-> co.cur] /\ co.cur # 0 /\ ~Live(co.cur)
          \/ Decision = [do |-> "turn", run |-> 0]
      BY DEF Decision, Idle
    <3> QED
      BY <3>1, <3>2
  <2> QED
    BY <1>2, <1>4, <2>1 DEF StartRead
<1>5. CASE Launch(p)
  BY <1>2, <1>3, <1>5 DEF Launch
<1>6. CASE StartReplay(p)
  <2>1. starts[p].run \in Ids /\ ~Live(starts[p].run)
    BY <1>6 DEF StartReplay, CInv, StartsAim
  <2>2. \A h \in hooks' : h \in hooks \/ (h[1] \in Ids /\ ~Live(h[1]))
    BY <1>6, <2>1 DEF StartReplay, FirstHook
  <2> QED
    BY <1>2, <1>3, <1>6, <2>2 DEF StartReplay
<1>7. ASSUME starts' = [starts EXCEPT ![p] = Idle], UNCHANGED hooks, Grown
      PROVE  /\ HooksEnded' /\ StartsAim'
             /\ starts' \in [Callers -> [do : {"none", "settle", "retry", "turn", "replay", "launch"}, run : Nat]]
  <2>1. \A q \in Callers : starts'[q] = starts[q] \/ starts'[q].do = "none"
    BY <1>1, <1>3, <1>7
  <2>2. starts' \in [Callers -> [do : {"none", "settle", "retry", "turn", "replay", "launch"}, run : Nat]]
    BY <1>1, <1>3, <1>7
  <2> QED
    BY <1>7, <2>1, <2>2, AimsStay
<1>8. CASE StartTurn(p)
  <2>1. CASE UNCHANGED <<co, runs>>
    BY <1>2, <1>3, <1>8, <2>1 DEF StartTurn
  <2>2. ASSUME NEW action, NewTurn(action), ~Stopped, ~(co.cur # 0 /\ Live(co.cur)) PROVE CInv'
    <3>1. /\ runs' = Append(runs, NewRun("turn", Len(batches) + 1, FALSE, action = "repair_plan"))
          /\ co' = [co EXCEPT !.status = "running", !.cur = Len(runs) + 1, !.act = "", !.at = FALSE, !.seen = comments]
      BY <2>2, Zenon DEF NewTurn
    <3>2. PICK n \in Nat : n = Len(runs) + 1
      BY <1>1
    <3>3. IsRow(co') /\ co'.cur = n /\ co'.status = "running" /\ co'.act = ""
      <4>1. co' = [co EXCEPT !.status = "running", !.cur = n, !.act = "", !.at = FALSE, !.seen = comments]
        BY <3>1, <3>2
      <4> QED
        BY <1>1, <4>1 DEF IsRow
    <3>4. PICK x : IsRun(x) /\ runs' = Append(runs, x)
      BY <3>1, NewRuns, Zenon
    <3>5. Grown
      BY <1>1, <3>4, Added
    <3>6. UNCHANGED <<comments, used, doomed, hooks>> /\ starts' = [starts EXCEPT ![p] = Idle]
      BY <1>8 DEF StartTurn
    <3> QED
      BY <1>7, <2>2, <3>2, <3>3, <3>4, <3>5, <3>6, LineTaken DEF StopStatus
  <2> QED
    BY <1>8, <2>1, <2>2 DEF StartTurn
<1>9. CASE StartFails(p)
  <2>1. /\ co' = co \/ co' = Blocked(co)
        /\ used'.faults # 0
        /\ used' \in [blocks : Nat, unblocks : Nat, crashes : Nat, faults : Nat]
        /\ UNCHANGED <<comments, runs, hooks, doomed>> /\ starts' = [starts EXCEPT ![p] = Idle]
    <3>1. used.faults + 1 \in Nat \ {0}
      <4>1. used.faults \in Nat
        BY <1>1
      <4> QED
        BY <4>1
    <3> QED
      BY <1>1, <1>9, <3>1 DEF StartFails, Block
  <2>2. Grown
    BY <1>1, <2>1, Same
  <2>3. IsRow(co') /\ Points(co', Len(runs)) /\ NoHiddenComment'
    <3>1. CASE co' = co
      BY <1>1, <2>1, <3>1 DEF NoHiddenComment, Unseen
    <3>2. CASE co' = Blocked(co)
      <4>1. IsRow(co') /\ co'.cur = 0 /\ co'.status = "blocked" /\ co'.act = co.act /\ co'.retryOf = co.retryOf
        BY <1>1, <3>2 DEF Blocked, IsRow
      <4> QED
        BY <1>1, <4>1 DEF Points, NoHiddenComment
    <3> QED
      BY <2>1, <3>1, <3>2
  <2> QED
    BY <1>1, <1>7, <2>1, <2>2, <2>3 DEF CInv, Shapes, Grown, RowPoints, Points, OneTurn
<1>10. CASE StartRetry(p)
  <2> DEFINE x == [runs[starts[p].run] EXCEPT !.st = "live", !.attempt = @ + 1]
  <2>0. /\ starts[p].do = "retry" /\ UNCHANGED <<comments, used, doomed, hooks>>
        /\ \/ UNCHANGED <<co, runs>> /\ starts' = [starts EXCEPT ![p] = Idle]
           \/ /\ co.cur = 0 /\ co.status \in {"waiting_retry", "running"}
              /\ runs' = Append(runs, x)
              /\ co' = [co EXCEPT !.status = "running", !.cur = Len(runs) + 1, !.at = FALSE]
              /\ starts' = [starts EXCEPT ![p] = [do |-> "launch", run |-> Len(runs) + 1]]
    BY <1>10, Zenon DEF StartRetry
  <2>1. CASE UNCHANGED <<co, runs>> /\ starts' = [starts EXCEPT ![p] = Idle]
    BY <1>2, <1>3, <2>0, <2>1
  <2>2. CASE /\ co.cur = 0 /\ co.status \in {"waiting_retry", "running"}
             /\ runs' = Append(runs, x)
             /\ co' = [co EXCEPT !.status = "running", !.cur = Len(runs) + 1, !.at = FALSE]
             /\ starts' = [starts EXCEPT ![p] = [do |-> "launch", run |-> Len(runs) + 1]]
    <3>1. IsRun(x)
      <4>1. IsRun(runs[starts[p].run])
        BY <1>1, <2>0 DEF CInv, StartsAim, RunsOK
      <4> QED
        BY <4>1 DEF IsRun
    <3> HIDE DEF x
    <3>2. PICK n \in Nat : n = Len(runs) + 1
      BY <1>1
    <3>3. IsRow(co') /\ co'.cur = n /\ co'.status = "running" /\ co'.act = co.act /\ co'.retryOf = co.retryOf
      <4>1. co' = [co EXCEPT !.status = "running", !.cur = n, !.at = FALSE]
        BY <2>2, <3>2
      <4> QED
        BY <1>1, <4>1 DEF IsRow
    <3>4. Grown
      BY <1>1, <2>2, <3>1, Added
    <3>5. starts' \in [Callers -> [do : {"none", "settle", "retry", "turn", "replay", "launch"}, run : Nat]]
      BY <1>1, <2>2, <3>2
    <3>6. \A q \in Callers : starts'[q] = starts[q] \/ starts'[q].do = "launch"
      BY <1>1, <2>2
    <3>7. HooksEnded' /\ StartsAim'
      BY <2>0, <3>4, <3>6, AimsStay
    <3> QED
      BY <2>0, <2>2, <3>1, <3>2, <3>3, <3>5, <3>7, LineTaken DEF StopStatus
  <2> QED
    BY <2>0, <2>1, <2>2
<1>11. CASE StartSettle(p)
  <2>1. /\ UNCHANGED <<runs, comments, hooks, doomed, used>> /\ starts' = [starts EXCEPT ![p] = Idle]
        /\ \/ co' = co
           \/ /\ Settling
              /\ co' = [co EXCEPT !.status = "running", !.cur = 0, !.at = FALSE, !.act = "", !.settle = 0]
    BY <1>11 DEF StartSettle, ClearSettle
  <2>2. CASE co' = co
    BY <1>2, <1>3, <2>1, <2>2
  <2>3. CASE /\ Settling
             /\ co' = [co EXCEPT !.status = "running", !.cur = 0, !.at = FALSE, !.act = "", !.settle = 0]
    <3>1. IsRow(co') /\ co'.cur = 0 /\ co'.act = "" /\ co'.status = "running"
      BY <1>1, <2>3 DEF IsRow
    <3>2. used.faults # 0
      BY <2>3 DEF CInv, RowPoints
    <3>3. Points(co', Len(runs))
      BY <1>1, <3>1, PointsNowhere
    <3>4. Grown
      BY <1>1, <2>1, Same
    <3> QED
      BY <1>1, <1>7, <2>1, <3>1, <3>2, <3>3, <3>4
         DEF CInv, Shapes, Grown, RowPoints, OneTurn, NoHiddenComment
  <2> QED
    BY <2>1, <2>2, <2>3
<1> QED
  BY <1>4, <1>5, <1>6, <1>8, <1>9, <1>10, <1>11 DEF Start
-----------------------------------------------------------------------------
\* maybeAdvanceTaskCoordinator moves only the row, for a Worker at its second step.
LEMMA AdvanceKeeps == ASSUME CInv, NEW r \in Ids, HookAdvance(r) \/ HookWorker(r) PROVE CInv'
<1>1. /\ UNCHANGED <<runs, comments, starts, doomed, used>>
      /\ \E stage \in {"advance"} \cup WorkerStages :
           /\ <<r, stage>> \in hooks
           /\ \/ NextHook(r, stage)
              \/ hooks' = (hooks \ {<<r, "advance">>}) \cup {<<r, WorkerStage(r)>>}
      /\ \/ UNCHANGED co
         \/ AdvanceGoverned(r)
         \/ (\E stage \in WorkerStages : AdvanceWorker(r, stage)) /\ runs[r].kind \notin Governed
  BY DEF HookAdvance, HookWorker
<1>2. ~Live(r)
  BY <1>1 DEF CInv, HooksEnded
<1>3. runs[r].kind \notin Governed => runs[r].kind = "worker"
  BY DEF CInv, Shapes, RunsOK, IsRun, Governed
<1>4. Moved(r)
  BY <1>1, <1>3, GovernedMoves, WorkerMoves, Rows
<1>5. Grown
  BY <1>1, Same DEF CInv, Shapes
<1>6. \A h \in hooks' : h \in hooks \/ h[1] = r
  BY <1>1, HooksFollow
<1>7. HooksEnded' /\ StartsAim'
  BY <1>1, <1>2, <1>5, <1>6, HookAims
<1> QED
  BY <1>1, <1>2, <1>4, <1>7, LineMoves

\* maybeSettleDispatch gives up a settlement it had put off, or puts one off;
\* the second may take the line from a run, and is counted as a fault.
LEMMA SettleKeeps == ASSUME CInv, NEW r \in Ids, HookSettle(r) PROVE CInv'
<1>1. /\ <<r, "settle">> \in hooks /\ NextHook(r, "settle")
      /\ UNCHANGED <<runs, comments, starts, doomed>>
  BY DEF HookSettle
<1>2. ~Live(r)
  BY <1>1 DEF CInv, HooksEnded
<1>3. /\ RunsOK /\ IsRow(co) /\ Len(runs) \in Nat /\ Points(co, Len(runs)) /\ comments \in Nat /\ NoHiddenComment
      /\ used \in [blocks : Nat, unblocks : Nat, crashes : Nat, faults : Nat]
  BY DEF CInv, Shapes, RunsOK, RowPoints
<1>4. Grown
  BY <1>1, <1>3, Same
<1>5. HooksEnded' /\ StartsAim'
  BY <1>1, <1>2, <1>4, HooksFollow, HookAims
<1>6. ASSUME used' \in [blocks : Nat, unblocks : Nat, crashes : Nat, faults : Nat], used'.faults # 0,
             IsRow(co'), Points(co', Len(runs)), NoHiddenComment'
      PROVE  CInv'
  BY <1>1, <1>3, <1>4, <1>5, <1>6 DEF CInv, Shapes, Grown, RowPoints, Points, OneTurn
<1>7. ASSUME UNCHANGED used, co' = ClearSettle(r) PROVE CInv'
  <2>1. CASE co' = co
    <3>1. Moved(r)
      BY <2>1, Rows
    <3> QED
      BY <1>1, <1>2, <1>5, <1>7, <3>1, LineMoves
  <2>2. CASE /\ Settling
             /\ co' = [co EXCEPT !.status = "running", !.cur = 0, !.at = FALSE, !.act = "", !.settle = 0]
    <3>1. IsRow(co') /\ co'.cur = 0 /\ co'.act = "" /\ co'.status = "running"
      BY <1>3, <2>2 DEF IsRow
    <3>2. used'.faults # 0
      BY <1>7, <2>2 DEF CInv, RowPoints
    <3>3. Points(co', Len(runs)) /\ NoHiddenComment'
      BY <1>3, <3>1, PointsNowhere DEF NoHiddenComment
    <3> QED
      BY <1>3, <1>6, <1>7, <3>1, <3>2, <3>3
  <2> QED
    BY <1>7, <2>1, <2>2 DEF ClearSettle
<1>8. ASSUME used' = [used EXCEPT !.faults = @ + 1],
             \/ co' = co
             \/ co' = [co EXCEPT !.status = "waiting_retry", !.cur = 0, !.at = TRUE, !.act = "settle", !.settle = r]
      PROVE  CInv'
  <2>1. used' \in [blocks : Nat, unblocks : Nat, crashes : Nat, faults : Nat] /\ used'.faults # 0
    <3>1. used.faults \in Nat
      BY <1>3
    <3>2. PICK n \in Nat \ {0} : n = used.faults + 1
      BY <3>1
    <3>3. used' = [used EXCEPT !.faults = n]
      BY <1>8, <3>2
    <3> QED
      BY <1>3, <3>3
  <2>2. CASE co' = co
    BY <1>1, <1>3, <1>6, <2>1, <2>2 DEF NoHiddenComment, Unseen
  <2>3. CASE co' = [co EXCEPT !.status = "waiting_retry", !.cur = 0, !.at = TRUE, !.act = "settle", !.settle = r]
    <3>1. r \in Nat
      BY <1>3 DEF Ids
    <3>2. IsRow(co') /\ co'.cur = 0 /\ co'.act = "settle" /\ co'.status = "waiting_retry"
      BY <1>3, <2>3, <3>1 DEF IsRow
    <3>3. Points(co', Len(runs)) /\ NoHiddenComment'
      BY <1>3, <3>2, PointsNowhere DEF NoHiddenComment
    <3> QED
      BY <1>6, <2>1, <3>2, <3>3
  <2> QED
    BY <1>8, <2>2, <2>3
<1> QED
  BY <1>7, <1>8 DEF HookSettle

\* A run that ends gives no other run the line, and only then has hooks.
LEMMA EndKeeps == ASSUME CInv, NEW r \in Ids, NEW st \in Outcomes, EndRun(r, st) PROVE CInv'
<1>1. /\ RunsOK /\ Len(runs) \in Nat
  BY DEF CInv, Shapes, RunsOK
<1>2. /\ runs' = [runs EXCEPT ![r].st = st] /\ st \in {"succeeded", "failed", "fatal", "cancelled"}
      /\ hooks' = hooks \cup {FirstHook(r, st)} /\ doomed' = doomed \ {r}
      /\ UNCHANGED <<co, comments, starts, used>>
  BY CoordinatorAssumption DEF EndRun
<1>3. /\ Grown /\ Len(runs') = Len(runs) /\ runs'[r].st = st
      /\ \A q \in Ids : q # r => runs'[q] = runs[q]
  BY <1>1, <1>2, Ended
<1>4. r \in Ids' /\ ~Live(r)'
  BY <1>2, <1>3 DEF Ids, Live
<1>5. HooksEnded' /\ StartsAim'
  <2>1. \A h \in hooks' : h \in hooks \/ (h[1] \in Ids' /\ ~Live(h[1])')
    <3> SUFFICES ASSUME NEW h \in hooks', h \notin hooks PROVE h[1] \in Ids' /\ runs'[h[1]].st # "live"
      BY DEF Live
    <3>1. h[1] = r
      BY <1>2 DEF FirstHook
    <3> QED
      BY <1>4, <3>1 DEF Live
  <2> QED
    BY <1>2, <1>3, <2>1, AimsStay
<1>6. OneTurn'
  <2>1. \A q \in Ids' : q \in Ids
    BY <1>3 DEF Ids
  <2>2. \A q \in Ids : Holds(q) /\ used.faults = 0 => co.cur = q
    BY DEF CInv, OneTurn, Holds
  <2>3. ASSUME used.faults = 0, NEW q \in Ids, runs'[q].kind \in Governed, Live(q)', q \notin doomed'
        PROVE  co.cur = q
    <3>1. q # r
      BY <1>4, <2>3
    <3>2. Holds(q)
      BY <1>2, <1>3, <2>3, <3>1 DEF Holds, Live
    <3> QED
      BY <2>2, <2>3, <3>2
  <2> QED
    BY <1>2, <2>1, <2>3 DEF OneTurn
<1>7. Shapes' /\ RowPoints' /\ NoHiddenComment'
  BY <1>2, <1>3 DEF CInv, Shapes, Grown, RowPoints, Points, Settling, NoHiddenComment, Unseen
<1> QED
  BY <1>5, <1>6, <1>7 DEF CInv

\* A summary run takes the line only when nobody has it.
LEMMA SummariseKeeps == ASSUME CInv, Summarise PROVE CInv'
<1>1. /\ RunsOK /\ IsRow(co) /\ Len(runs) \in Nat /\ Points(co, Len(runs))
      /\ starts \in [Callers -> [do : {"none", "settle", "retry", "turn", "replay", "launch"}, run : Nat]]
      /\ used \in [blocks : Nat, unblocks : Nat, crashes : Nat, faults : Nat]
  BY DEF CInv, Shapes, RunsOK, RowPoints
<1>2. /\ UNCHANGED <<comments, hooks, starts, doomed, used>>
      /\ \/ UNCHANGED <<co, runs>>
         \/ /\ co.status \notin StopStatus /\ co.act # "settle" /\ co.act # "retry_worker" /\ co.cur = 0
            /\ runs' = Append(runs, NewRun("turn", wakes[sched].batch, TRUE, FALSE))
            /\ co' = [co EXCEPT !.status = "running", !.cur = Len(runs) + 1, !.at = FALSE]
  BY Zenon DEF Summarise, Stopped, RetryPending, Settling
<1>3. ASSUME Grown PROVE HooksEnded' /\ StartsAim'
  BY <1>2, <1>3, AimsStay
<1>4. CASE UNCHANGED <<co, runs>>
  <2>1. Grown
    BY <1>1, <1>4, Same
  <2> QED
    BY <1>1, <1>2, <1>3, <1>4, <2>1, RowStays
<1>5. CASE /\ co.status \notin StopStatus /\ co.act # "settle" /\ co.act # "retry_worker" /\ co.cur = 0
           /\ runs' = Append(runs, NewRun("turn", wakes[sched].batch, TRUE, FALSE))
           /\ co' = [co EXCEPT !.status = "running", !.cur = Len(runs) + 1, !.at = FALSE]
  <2>1. PICK x : IsRun(x) /\ runs' = Append(runs, x)
    BY <1>5, NewRuns, Zenon
  <2>2. PICK n \in Nat : n = Len(runs) + 1
    BY <1>1
  <2>3. IsRow(co') /\ co'.cur = n /\ co'.status = "running" /\ co'.act = co.act
    <3>1. co' = [co EXCEPT !.status = "running", !.cur = n, !.at = FALSE]
      BY <1>5, <2>2
    <3> QED
      BY <1>1, <3>1 DEF IsRow
  <2>4. HooksEnded' /\ StartsAim'
    BY <1>1, <1>3, <2>1, Added
  <2> QED
    BY <1>1, <1>2, <1>5, <2>1, <2>2, <2>3, <2>4, LineTaken DEF StopStatus
<1> QED
  BY <1>2, <1>4, <1>5

\* What the user does to the row: a comment and an unblock queue it, a block
\* takes the line, and asks the run that had it to stop.
LEMMA UserKeeps == ASSUME CInv, HInv, Comment \/ BlockTask \/ Unblock PROVE CInv'
<1>1. /\ RunsOK /\ IsRow(co) /\ Len(runs) \in Nat /\ Points(co, Len(runs)) /\ comments \in Nat
      /\ used \in [blocks : Nat, unblocks : Nat, crashes : Nat, faults : Nat]
  BY DEF CInv, Shapes, RunsOK, RowPoints
<1>2. UNCHANGED <<runs, hooks, starts>>
  BY DEF Comment, BlockTask, Unblock
<1>3. Grown
  BY <1>1, <1>2, Same
<1>4. HooksEnded' /\ StartsAim'
  BY <1>2, <1>3, AimsStay
<1>5. ASSUME IsRow(co'), co'.act = co.act, co'.retryOf = co.retryOf, comments' \in Nat,
             co'.cur = co.cur \/ co'.cur = 0, co'.status = "blocked" => co'.cur = 0, NoHiddenComment', OneTurn',
             used' \in [blocks : Nat, unblocks : Nat, crashes : Nat, faults : Nat], used'.faults = used.faults
      PROVE  CInv'
  BY <1>1, <1>2, <1>3, <1>4, <1>5 DEF CInv, Shapes, Grown, RowPoints, Points, Settling
<1>6. \A r \in Ids : Holds(r) /\ used.faults = 0 => co.cur = r
  BY DEF CInv, OneTurn, Holds
<1>7. comments + 1 \in Nat
  BY <1>1
<1>8. CASE Comment
  <2>1. /\ comments' = comments + 1 /\ UNCHANGED <<used, doomed>>
        /\ \/ co' = [co EXCEPT !.status = "queued", !.at = FALSE]
           \/ co' = [co EXCEPT !.status = "queued"]
           \/ co' = co /\ co.status # "waiting_user"
    BY <1>8, Zenon DEF Comment
  <2>2. /\ IsRow(co') /\ co'.act = co.act /\ co'.retryOf = co.retryOf /\ co'.cur = co.cur
        /\ \/ co'.status = "queued"
           \/ co'.status = co.status /\ co.status # "waiting_user"
    <3>1. CASE co' = [co EXCEPT !.status = "queued", !.at = FALSE]
      BY <1>1, <3>1 DEF IsRow
    <3>2. CASE co' = [co EXCEPT !.status = "queued"]
      BY <1>1, <3>2 DEF IsRow
    <3> QED
      BY <1>1, <2>1, <3>1, <3>2
  <2>3. OneTurn'
    BY <1>2, <2>1, <2>2 DEF CInv, OneTurn, Ids, Live
  <2>4. NoHiddenComment'
    BY <2>2 DEF NoHiddenComment
  <2>5. co'.status = "blocked" => co'.cur = 0
    BY <1>1, <2>2 DEF Points
  <2> QED
    BY <1>1, <1>5, <1>7, <2>1, <2>2, <2>3, <2>4, <2>5
<1>9. CASE BlockTask
  <2>1. /\ co' = Blocked(co) /\ UNCHANGED comments
        /\ used' = [used EXCEPT !.blocks = @ + 1]
        /\ doomed \subseteq doomed' /\ (co.cur # 0 /\ Live(co.cur) => co.cur \in doomed')
    BY <1>9 DEF BlockTask, Spend
  <2>2. IsRow(co') /\ co'.status = "blocked" /\ co'.cur = 0 /\ co'.act = co.act /\ co'.retryOf = co.retryOf
    BY <1>1, <2>1 DEF Blocked, IsRow
  <2>3. used' \in [blocks : Nat, unblocks : Nat, crashes : Nat, faults : Nat] /\ used'.faults = used.faults
    <3>1. used.blocks \in Nat
      BY <1>1
    <3>2. PICK n \in Nat : n = used.blocks + 1
      BY <3>1
    <3>3. used' = [used EXCEPT !.blocks = n]
      BY <2>1, <3>2
    <3> QED
      BY <1>1, <3>3
  <2>4. OneTurn'
    <3> SUFFICES ASSUME used.faults = 0, NEW r \in Ids, Holds(r), r \notin doomed' PROVE FALSE
      BY <1>2, <2>1, <2>3 DEF OneTurn, Holds, Ids, Live
    <3>1. co.cur = r /\ Live(r)
      BY <1>6 DEF Holds
    <3>2. r # 0
      BY <1>1 DEF Ids
    <3> QED
      BY <2>1, <3>1, <3>2
  <2>5. NoHiddenComment'
    BY <2>2 DEF NoHiddenComment
  <2> QED
    BY <1>1, <1>5, <2>1, <2>2, <2>3, <2>4, <2>5
<1>10. CASE Unblock
  <2>1. /\ co.held /\ comments' = comments + 1 /\ UNCHANGED doomed
        /\ used' = [used EXCEPT !.unblocks = @ + 1]
        /\ \/ /\ co.status = "blocked"
              /\ co' = [co EXCEPT !.status = "queued", !.cur = 0, !.at = FALSE, !.repair = 0, !.held = FALSE]
           \/ co.status # "blocked" /\ co' = [co EXCEPT !.held = FALSE]
    BY <1>10 DEF Unblock
  <2>2. /\ IsRow(co') /\ co'.act = co.act /\ co'.retryOf = co.retryOf /\ co'.cur = co.cur
        /\ co'.status \notin {"waiting_user", "blocked"}
    <3>1. CASE co.status = "blocked"
      <4>1. co.cur = 0 /\ co' = [co EXCEPT !.status = "queued", !.cur = 0, !.at = FALSE, !.repair = 0, !.held = FALSE]
        BY <1>1, <2>1, <3>1 DEF Points
      <4> QED
        BY <1>1, <4>1 DEF IsRow
    <3>2. CASE co.status # "blocked"
      <4>1. co.status # "waiting_user" /\ co' = [co EXCEPT !.held = FALSE]
        BY <2>1, <3>2 DEF HInv
      <4> QED
        BY <1>1, <3>2, <4>1 DEF IsRow
    <3> QED
      BY <3>1, <3>2
  <2>3. used' \in [blocks : Nat, unblocks : Nat, crashes : Nat, faults : Nat] /\ used'.faults = used.faults
    <3>1. used.unblocks \in Nat
      BY <1>1
    <3>2. PICK n \in Nat : n = used.unblocks + 1
      BY <3>1
    <3>3. used' = [used EXCEPT !.unblocks = n]
      BY <2>1, <3>2
    <3> QED
      BY <1>1, <3>3
  <2>5. OneTurn'
    BY <1>2, <2>1, <2>2, <2>3 DEF CInv, OneTurn, Ids, Live
  <2>6. NoHiddenComment'
    BY <2>2 DEF NoHiddenComment
  <2> QED
    BY <1>1, <1>5, <1>7, <2>1, <2>2, <2>3, <2>5, <2>6
<1> QED
  BY <1>8, <1>9, <1>10

\* A claim, a cancellation, a restart and a stutter leave runs and row alone.
LEMMA RestKeeps ==
  ASSUME CInv, \/ UNCHANGED cvars \/ Crash
               \/ (\E w \in 1 .. Len(wakes) : Claim(w)) \/ (\E r \in Ids : CancelRun(r))
  PROVE  CInv'
<1>1. /\ RunsOK
      /\ starts \in [Callers -> [do : {"none", "settle", "retry", "turn", "replay", "launch"}, run : Nat]]
      /\ used \in [blocks : Nat, unblocks : Nat, crashes : Nat, faults : Nat]
  BY DEF CInv, Shapes
<1>2. UNCHANGED <<co, runs, comments>> /\ doomed \subseteq doomed' /\ hooks' \subseteq hooks
  BY DEF cvars, Crash, Claim, CancelRun
<1>3. used' \in [blocks : Nat, unblocks : Nat, crashes : Nat, faults : Nat] /\ used'.faults = used.faults
  <2>1. \/ used' = used
        \/ used' = [used EXCEPT !.crashes = @ + 1]
        \/ used' = [used EXCEPT !.blocks = @ + 1]
    BY DEF cvars, Crash, Claim, CancelRun, Spend
  <2>2. used.crashes \in Nat /\ used.blocks \in Nat
    BY <1>1
  <2>3. PICK n \in Nat, m \in Nat : n = used.crashes + 1 /\ m = used.blocks + 1
    BY <2>2
  <2>4. used' = used \/ used' = [used EXCEPT !.crashes = n] \/ used' = [used EXCEPT !.blocks = m]
    BY <2>1, <2>3
  <2> QED
    BY <1>1, <2>4
<1>4. /\ starts' \in [Callers -> [do : {"none", "settle", "retry", "turn", "replay", "launch"}, run : Nat]]
      /\ \A p \in Callers : starts'[p] = starts[p] \/ starts'[p].do = "none"
  <2>1. starts' = starts \/ starts' = [p \in Callers |-> Idle]
    BY DEF cvars, Crash, Claim, CancelRun
  <2> QED
    BY <1>1, <2>1 DEF Idle
<1>5. HooksEnded' /\ StartsAim'
  <2>1. Grown
    BY <1>1, <1>2, Same
  <2> QED
    BY <1>2, <1>4, <2>1, AimsStay
<1> QED
  BY <1>2, <1>3, <1>4, <1>5, RowStays

\* Every step keeps the invariant.
LEMMA NextCInv == ASSUME CInv, HInv, [CNext]_cvars PROVE CInv'
<1>1. CASE \E p \in Callers : Start(p)
  BY <1>1, StartKeeps
<1>2. CASE \E r \in Ids : Hook(r)
  BY <1>2, PlanKeeps, AdvanceKeeps, SettleKeeps DEF Hook
<1>3. CASE \E r \in Ids, st \in Outcomes : EndRun(r, st)
  BY <1>3, EndKeeps
<1>4. CASE Summarise
  BY <1>4, SummariseKeeps
<1>5. CASE Comment \/ BlockTask \/ Unblock
  BY <1>5, UserKeeps
<1>6. CASE UNCHANGED cvars \/ Crash \/ (\E w \in 1 .. Len(wakes) : Claim(w)) \/ (\E r \in Ids : CancelRun(r))
  BY <1>6, RestKeeps
<1> QED
  BY <1>1, <1>2, <1>3, <1>4, <1>5, <1>6 DEF CNext, Consume

-----------------------------------------------------------------------------
\* A step that keeps HInv: the Goal is blocked only together with the row, and
\* while it is blocked no Worker's branch is begun, nothing waits for the user
\* and only a new run takes the line.
HoldStep ==
  /\ co'.held => \/ co'.cur = 0 /\ co'.status = "blocked"
                 \/ /\ co.held /\ co'.cur \in {0, co.cur, Len(runs) + 1}
                    /\ co'.status = "waiting_user" => co.status = "waiting_user"
  /\ \A h \in hooks' : h \in hooks \/ h[2] \notin WorkerStages \/ ~co'.held

LEMMA HoldKept == ASSUME CInv, HInv, HoldStep PROVE HInv'
<1>1. Len(runs) \in Nat /\ \A h \in hooks : h[1] \in Ids
  BY DEF CInv, Shapes, RunsOK, HooksEnded
<1>2. \A h \in hooks : h[1] \in 1 .. Len(runs)
  BY <1>1 DEF Ids
<1> SUFFICES ASSUME co'.held PROVE HInv'
  BY DEF HInv
<1>3. \A h \in hooks' : h[2] \in WorkerStages => h \in hooks
  BY DEF HoldStep
<1>4. CASE co'.cur = 0 /\ co'.status = "blocked"
  BY <1>1, <1>2, <1>3, <1>4 DEF HInv
<1>5. CASE /\ co.held /\ co'.cur \in {0, co.cur, Len(runs) + 1}
           /\ co'.status = "waiting_user" => co.status = "waiting_user"
  BY <1>1, <1>2, <1>3, <1>5 DEF HInv
<1> QED
  BY <1>4, <1>5 DEF HoldStep

\* The row stays as it is, is blocked, or the Goal is active all along.
LEMMA HoldRow ==
  ASSUME CInv, \A h \in hooks' : h \in hooks \/ h[2] \notin WorkerStages \/ ~co'.held,
         \/ UNCHANGED co \/ co' = Blocked(co) \/ ~co'.held
         \/ \E r : Block(r)
  PROVE  HoldStep
<1>1. IsRow(co)
  BY DEF CInv, Shapes
<1>2. UNCHANGED co \/ co' = Blocked(co) \/ ~co'.held
  BY DEF Block
<1>3. Blocked(co).cur = 0 /\ Blocked(co).status = "blocked"
  BY <1>1 DEF Blocked, IsRow
<1> QED
  BY <1>2, <1>3 DEF HoldStep

LEMMA NextHInv == ASSUME CInv, HInv, [CNext]_cvars PROVE HInv'
<1> SUFFICES HoldStep
  BY HoldKept
<1>1. IsRow(co) /\ Len(runs) \in Nat
  BY DEF CInv, Shapes, RunsOK
<1>2. "plan" \notin WorkerStages /\ "advance" \notin WorkerStages /\ "settle" \notin WorkerStages
  BY DEF WorkerStages
<1>3. \A r, st : FirstHook(r, st)[2] \in {"plan", "advance"}
  BY DEF FirstHook
<1>4. ASSUME NEW p \in Callers, Start(p) PROVE HoldStep
  <2>1. \A h \in hooks' : h \in hooks \/ h[2] \notin WorkerStages
    <3>1. UNCHANGED hooks \/ \E q, st : hooks' = hooks \cup {FirstHook(q, st)}
      BY <1>4 DEF Start, StartRead, StartTurn, StartFails, StartRetry, Launch, StartReplay, StartSettle
    <3> QED
      BY <1>2, <1>3, <3>1
  <2>2. CASE StartRead(p) \/ StartFails(p) \/ Launch(p) \/ StartReplay(p)
    <3>1. UNCHANGED co \/ Block(0)
      BY <2>2 DEF StartRead, StartFails, Launch, StartReplay
    <3> QED
      BY <2>1, <3>1, HoldRow
  <2>3. CASE StartTurn(p) \/ StartRetry(p)
    <3>1. \/ UNCHANGED co
          \/ co' = [co EXCEPT !.status = "running", !.cur = Len(runs) + 1, !.act = "", !.at = FALSE, !.seen = comments]
          \/ co' = [co EXCEPT !.status = "running", !.cur = Len(runs) + 1, !.at = FALSE]
      BY <2>3, Zenon DEF StartTurn, NewTurn, StartRetry
    <3>2. UNCHANGED co \/ (co'.held = co.held /\ co'.cur = Len(runs) + 1 /\ co'.status = "running")
      BY <1>1, <3>1 DEF IsRow
    <3> QED
      BY <2>1, <3>2 DEF HoldStep
  <2>4. CASE StartSettle(p)
    <3>1. UNCHANGED co \/ co' = ClearSettle(co.settle)
      BY <2>4, Zenon DEF StartSettle
    <3>2. UNCHANGED co \/ (co'.held = co.held /\ co'.cur = 0 /\ co'.status = "running")
      BY <1>1, <3>1 DEF ClearSettle, IsRow
    <3> QED
      BY <2>1, <3>2 DEF HoldStep
  <2> QED
    BY <1>4, <2>2, <2>3, <2>4 DEF Start
<1>5. ASSUME NEW r \in Ids, HookPlan(r) PROVE HoldStep
  <2>1. \A h \in hooks' : h \in hooks \/ h[2] \notin WorkerStages
    BY <1>2, <1>5 DEF HookPlan, NextHook
  <2>2. ASSUME ~co.held, Owns(r) PROVE PlanRejected(r) => ~co'.held \/ (co'.cur = 0 /\ co'.status = "blocked")
    <3>1. PlanRejected(r) =>
            \/ UNCHANGED co
            \/ \E n : co' = [co EXCEPT !.status = "running", !.cur = Len(runs) + 1, !.act = "", !.at = FALSE,
                                       !.seen = comments, !.repair = n]
            \/ co' = [Blocked(co) EXCEPT !.act = ""]
      BY DEF PlanRejected
    <3>2. [Blocked(co) EXCEPT !.act = ""].cur = 0 /\ [Blocked(co) EXCEPT !.act = ""].status = "blocked"
      BY <1>1 DEF Blocked, IsRow
    <3>3. ASSUME NEW n, co' = [co EXCEPT !.status = "running", !.cur = Len(runs) + 1, !.act = "", !.at = FALSE,
                                         !.seen = comments, !.repair = n]
          PROVE  ~co'.held
      BY <1>1, <2>2, <3>3 DEF IsRow
    <3> QED
      BY <2>2, <3>1, <3>2, <3>3
  <2>3. ASSUME Owns(r), \/ co' = Accepted(r) \/ co' = [Accepted(r) EXCEPT !.cur = Len(runs) + 1]
        PROVE  ~co'.held
    <3>1. IsRow(Accepted(r)) /\ Accepted(r).held = co.held
      BY <1>1 DEF Accepted, IsRow
    <3>2. co'.held = co.held
      BY <2>3, <3>1 DEF IsRow
    <3> QED
      BY <2>3, <3>2 DEF Owns
  <2>4. \/ UNCHANGED co
        \/ Owns(r) /\ (co' = Accepted(r) \/ co' = [Accepted(r) EXCEPT !.cur = Len(runs) + 1])
        \/ Owns(r) /\ PlanRejected(r)
        \/ Block(r)
    BY <1>5, Zenon DEF HookPlan, Verdict, Dispatch, FinishEvaluated, FinishPlain, PlanDenied, PlanKnown
  <2>5. Owns(r) => ~co.held
    BY DEF Owns
  <2>6. UNCHANGED co \/ ~co'.held \/ (co'.cur = 0 /\ co'.status = "blocked") \/ Block(r)
    BY <2>2, <2>3, <2>4, <2>5
  <2>7. CASE co'.cur = 0 /\ co'.status = "blocked"
    BY <2>1, <2>7 DEF HoldStep
  <2> QED
    BY <2>1, <2>6, <2>7, HoldRow
<1>6. ASSUME NEW r \in Ids, HookAdvance(r) PROVE HoldStep
  <2>1. \/ UNCHANGED co /\ (NextHook(r, "advance") \/ ~co.held)
        \/ NextHook(r, "advance") /\ AdvanceGoverned(r)
    BY <1>6 DEF HookAdvance
  <2>2. \A h \in hooks' : h \in hooks \/ h[2] \notin WorkerStages \/ (UNCHANGED co /\ ~co.held)
    BY <1>2, <1>6 DEF HookAdvance, NextHook
  <2>3. CASE UNCHANGED co
    BY <2>2, <2>3, HoldRow
  <2>4. CASE co.held
    <3>1. UNCHANGED co
      BY <2>1, <2>4 DEF AdvanceGoverned
    <3> QED
      BY <2>3, <3>1
  <2>5. CASE ~co.held /\ AdvanceGoverned(r) /\ co' # co
    <3>1. \/ Success(r)
          \/ co' = Handover(co)
          \/ \E act \in {"repair_plan", "recover"} : \E n :
               co' = [co EXCEPT !.status = "waiting_retry", !.cur = 0, !.at = TRUE, !.fails = n, !.act = act]
          \/ Block(r)
      BY <2>5 DEF AdvanceGoverned
    <3>2. CASE Success(r)
      <4> DEFINE row == [co EXCEPT !.cur = 0, !.fails = 0]
      <4>1. co' = Blocked(row) \/ \E st \in {"queued", "running", "waiting_user"} : co' = [row EXCEPT !.status = st]
        BY <3>2 DEF Success
      <4>2. IsRow(row) /\ row.held = co.held
        BY <1>1 DEF IsRow
      <4> HIDE DEF row
      <4>3. (co'.cur = 0 /\ co'.status = "blocked") \/ ~co'.held
        BY <2>5, <4>1, <4>2 DEF Blocked, IsRow
      <4> QED
        BY <2>2, <2>5, <4>3 DEF HoldStep
    <3>3. CASE co' = Handover(co)
      <4>1. ~co'.held
        BY <1>1, <2>5, <3>3 DEF Handover, IsRow
      <4> QED
        BY <4>1, HoldRow
    <3>4. ASSUME NEW act \in {"repair_plan", "recover"}, NEW n,
                 co' = [co EXCEPT !.status = "waiting_retry", !.cur = 0, !.at = TRUE, !.fails = n, !.act = act]
          PROVE  HoldStep
      <4>1. ~co'.held
        BY <1>1, <2>5, <3>4 DEF IsRow
      <4> QED
        BY <4>1, HoldRow
    <3>5. CASE Block(r)
      BY <2>2, <2>5, <3>5, HoldRow
    <3> QED
      BY <3>1, <3>2, <3>3, <3>4, <3>5
  <2> QED
    BY <2>1, <2>3, <2>4, <2>5
<1>7. ASSUME NEW r \in Ids, HookWorker(r) PROVE HoldStep
  <2>1. PICK stage \in WorkerStages : <<r, stage>> \in hooks /\ NextHook(r, stage) /\ AdvanceWorker(r, stage)
    BY <1>7 DEF HookWorker
  <2>2. \A h \in hooks' : h \in hooks \/ h[2] \notin WorkerStages
    BY <1>2, <2>1 DEF NextHook, WorkerStages
  <2>3. co.held => co.cur # r
    BY <2>1 DEF HInv
  <2>4. \/ UNCHANGED co
        \/ ~co.held /\ co' = Handover(co)
        \/ co' = [co EXCEPT !.cur = 0, !.act = "", !.retryOf = 0, !.rounds = 0]
        \/ co' = [co EXCEPT !.cur = 0]
        \/ co' = [co EXCEPT !.status = "waiting_retry", !.cur = 0, !.at = TRUE,
                            !.act = "retry_worker", !.retryOf = r]
        \/ ~co.held /\ co' = [co EXCEPT !.status = "queued", !.cur = 0, !.act = "", !.retryOf = 0, !.rounds = 1]
        \/ Block(r)
    BY <2>1, <2>3 DEF AdvanceWorker, WorkerStages
  <2>5. \/ UNCHANGED co
        \/ Block(r)
        \/ ~co'.held
        \/ co'.held = co.held /\ co'.cur = 0 /\ co'.status \in {co.status, "waiting_retry"}
    <3>1. (~co.held /\ co' = Handover(co)) => ~co'.held
      BY <1>1 DEF Handover, IsRow
    <3> QED
      BY <1>1, <2>4, <3>1 DEF IsRow
  <2>6. CASE co'.held = co.held /\ co'.cur = 0 /\ co'.status \in {co.status, "waiting_retry"}
    BY <2>2, <2>6 DEF HoldStep
  <2> QED
    BY <2>2, <2>5, <2>6, HoldRow
<1>8. ASSUME NEW r \in Ids, HookSettle(r) PROVE HoldStep
  <2>1. \A h \in hooks' : h \in hooks
    BY <1>8 DEF HookSettle, NextHook
  <2>2. \/ UNCHANGED co
        \/ co' = ClearSettle(r)
        \/ co' = [co EXCEPT !.status = "waiting_retry", !.cur = 0, !.at = TRUE, !.act = "settle", !.settle = r]
    BY <1>8, Zenon DEF HookSettle
  <2>3. UNCHANGED co \/ (co'.held = co.held /\ co'.cur = 0 /\ co'.status \in {"running", "waiting_retry"})
    BY <1>1, <2>2 DEF ClearSettle, IsRow
  <2> QED
    BY <2>1, <2>3 DEF HoldStep
<1>9. ASSUME NEW r \in Ids, NEW st, EndRun(r, st) PROVE HoldStep
  <2>1. UNCHANGED co /\ hooks' = hooks \cup {FirstHook(r, st)}
    BY <1>9 DEF EndRun
  <2> QED
    BY <1>2, <1>3, <2>1, HoldRow
<1>10. CASE Consume
  <2>1. UNCHANGED hooks
    BY <1>10 DEF Consume, Claim, Summarise
  <2>2. UNCHANGED co \/ (~co.held /\ co' = [co EXCEPT !.status = "running", !.cur = Len(runs) + 1, !.at = FALSE])
    BY <1>10, Zenon DEF Consume, Claim, Summarise
  <2>3. UNCHANGED co \/ ~co'.held
    BY <1>1, <2>2 DEF IsRow
  <2> QED
    BY <2>1, <2>3, HoldRow
<1>11. CASE Comment
  <2>1. UNCHANGED hooks
    BY <1>11 DEF Comment
  <2>2. \/ UNCHANGED co
        \/ co' = [co EXCEPT !.status = "queued", !.at = FALSE]
        \/ co' = [co EXCEPT !.status = "queued"]
    BY <1>11, Zenon DEF Comment
  <2>3. UNCHANGED co \/ (co'.held = co.held /\ co'.cur = co.cur /\ co'.status = "queued")
    BY <1>1, <2>2 DEF IsRow
  <2> QED
    BY <2>1, <2>3 DEF HoldStep
<1>12. CASE Unblock
  <2>1. UNCHANGED hooks
    BY <1>12 DEF Unblock
  <2>2. ~co'.held
    BY <1>1, <1>12 DEF Unblock, IsRow
  <2> QED
    BY <2>1, <2>2, HoldRow
<1>13. CASE UNCHANGED cvars \/ BlockTask \/ Crash \/ (\E r \in Ids : CancelRun(r))
  <2>1. hooks' \subseteq hooks /\ (UNCHANGED co \/ co' = Blocked(co))
    BY <1>13 DEF cvars, BlockTask, Crash, CancelRun
  <2> QED
    BY <2>1, HoldRow
<1> QED
  BY <1>4, <1>5, <1>6, <1>7, <1>8, <1>9, <1>10, <1>11, <1>12, <1>13 DEF CNext, Hook

\* The two invariants stand together.
LEMMA LineHolds == CSpec => [](CInv /\ HInv)
<1>1. CoordinatorInit => CInv /\ HInv
  <2>1. ASSUME CoordinatorInit PROVE co.held = FALSE
    <3>1. co = [status |-> "queued", cur |-> 0, act |-> "", at |-> FALSE, retryOf |-> 0,
                rounds |-> 0, fails |-> 0, repair |-> 0, seen |-> 0, settle |-> 0, held |-> FALSE]
      BY <2>1, Zenon DEF CoordinatorInit
    <3> QED
      BY <3>1, Zenon
  <2>2. co.held = FALSE => HInv
    BY Zenon DEF HInv
  <2> QED
    BY <2>1, <2>2, InitCInv
<1>2. CInv /\ HInv /\ [CNext]_cvars => (CInv /\ HInv)'
  BY NextCInv, NextHInv
<1> QED
  BY <1>1, <1>2, PTL DEF CSpec

-----------------------------------------------------------------------------
\* The control line is never shared: as long as no start failed and no
\* settlement was put off, the only turn or evaluation at work that has not been
\* asked to stop is the one the row points to, whatever the order in which
\* starts, hooks, wakes, blocks and restarts meet.
THEOREM OneTurnAtATime == CSpec => []OneTurn
<1>1. CInv => OneTurn
  BY DEF CInv
<1> QED
  BY <1>1, LineHolds, PTL

\* The row never waits for the user while a comment of the user is unread.
THEOREM CommentsInView == CSpec => []NoHiddenComment
<1>1. CInv => NoHiddenComment
  BY DEF CInv
<1> QED
  BY <1>1, LineHolds, PTL

-----------------------------------------------------------------------------
(* Dispatch batches and wakes: their shapes                                 *)

BatchStatus == OpenBatch \cup {"completed", "degraded", "cancelled"}
BatchRow == [lead : Nat, st : BatchStatus]
WakeRow == [batch : Nat, st : {"queued", "consumed"}]
WakeIds == 1 .. Len(wakes)

\* Rows have their shapes, and what they name exists.
Placed ==
  /\ batches \in Seq(BatchRow)
  /\ wakes \in Seq(WakeRow)
  /\ sched \in 0 .. Len(wakes) /\ (sched # 0 => wakes[sched].st = "consumed")
  /\ \A r \in Ids : runs[r].batch \in 0 .. Len(batches)

\* A batch that is no longer running: only such a batch is woken or summarised.
Begun(bs, b) == b \in 1 .. Len(bs) /\ bs[b].st # "running"
Collected ==
  /\ \A w \in WakeIds : Begun(batches, wakes[w].batch)
  /\ \A r \in Ids : runs[r].sum => runs[r].kind = "turn" /\ Begun(batches, runs[r].batch)

\* A wake that may still produce a summary: it is queued, or the scheduler has it.
Token(w) == wakes[w].st = "queued" \/ sched = w
OneToken == \A v, w \in WakeIds : Token(v) /\ Token(w) /\ wakes[v].batch = wakes[w].batch => v = w
TokenOrSum == \A w \in WakeIds, r \in Ids : Token(w) /\ runs[r].sum => runs[r].batch # wakes[w].batch
OneSum == \A q, r \in Ids : runs[q].sum /\ runs[r].sum /\ runs[q].batch = runs[r].batch => q = r

\* What the row names: a run of a batch to settle, a Worker to retry.
Names(row) ==
  /\ row.act = "settle" => row.settle \in Ids /\ runs[row.settle].batch # 0
  /\ row.act = "retry_worker" => row.retryOf \in Ids /\ runs[row.retryOf].kind = "worker"
SettleAims ==
  /\ Names(co)
  /\ \A h \in hooks : h[2] = "settle" => runs[h[1]].batch # 0
  /\ \A p \in Callers : starts[p].do = "retry" => runs[starts[p].run].kind = "worker"

\* The inductive invariant.
WInv == Placed /\ Collected /\ OneToken /\ TokenOrSum /\ OneSum /\ SettleAims

-----------------------------------------------------------------------------
(* Counting                                                                 *)

\* A set of natural numbers with a bound has a least element, if any.
LEMMA Least ==
  ASSUME NEW n \in Nat, NEW S \in SUBSET (1 .. n), S # {}
  PROVE  \E k \in S : \A m \in S : k <= m
<1> DEFINE T == {1 .. k : k \in S}
<1>1. IsFiniteSet(1 .. n)
  BY FS_Interval
<1>2. T \subseteq FiniteSubsetsOf(1 .. n) /\ T # {}
  <2>1. ASSUME NEW k \in S PROVE 1 .. k \subseteq 1 .. n /\ IsFiniteSet(1 .. k)
    <3>1. k \in Int /\ 1 \in Int /\ k <= n
      OBVIOUS
    <3>2. IsFiniteSet(1 .. k)
      BY <3>1, FS_Interval
    <3> QED
      BY <3>1, <3>2
  <2> QED
    BY <2>1 DEF FiniteSubsetsOf
<1>3. PICK X \in T : \A Y \in T : <<Y, X>> \notin StrictSubsetOrdering(1 .. n)
  <2> HIDE DEF T
  <2> QED
    BY <1>1, <1>2, FS_StrictSubsetOrderingWellFounded, WFMin
<1>4. PICK k \in S : X = 1 .. k
  OBVIOUS
<1>5. ASSUME NEW m \in S, m < k PROVE FALSE
  <2>1. 1 .. m \subseteq 1 .. k /\ k \in 1 .. k /\ k \notin 1 .. m /\ 1 .. k \subseteq 1 .. n
    BY <1>5
  <2>2. <<1 .. m, X>> \in StrictSubsetOrdering(1 .. n)
    BY <1>4, <2>1 DEF StrictSubsetOrdering
  <2> QED
    BY <1>3, <2>2
<1> QED
  BY <1>5

LEMMA AtMostOne ==
  ASSUME NEW n \in Nat, NEW S \in SUBSET (1 .. n), \A x, y \in S : x = y
  PROVE  Cardinality(S) <= 1
<1>1. CASE S = {}
  BY <1>1, FS_EmptySet
<1>2. CASE S # {}
  <2>0. PICK x \in S : TRUE
    BY <1>2
  <2>1. S = {x}
    BY <2>0, Zenon
  <2>2. Cardinality({x}) = 1
    BY FS_Singleton
  <2> QED
    BY <2>1, <2>2
<1> QED
  BY <1>1, <1>2

\* The members of a set of numbers can be counted off in their order.
LEMMA CountedOff ==
  ASSUME NEW n \in Nat, NEW S \in SUBSET (1 .. n), NEW i \in 1 .. Cardinality(S)
  PROVE  \E b \in S : Cardinality({c \in S : c < b}) = i - 1
<1> DEFINE Below(b) == {c \in S : c < b}
           rank == [b \in S |-> Cardinality(Below(b)) + 1]
           k == Cardinality(S)
<1>1. IsFiniteSet(S) /\ k \in Nat
  <2>1. IsFiniteSet(1 .. n)
    BY FS_Interval
  <2> QED
    BY <2>1, FS_Subset, FS_CardinalityType
<1>2. ASSUME NEW T \in SUBSET S PROVE IsFiniteSet(T) /\ Cardinality(T) \in Nat /\ Cardinality(T) <= k
  BY <1>1, FS_Subset, FS_CardinalityType
<1>3. ASSUME NEW a, NEW T \in SUBSET S, a \in T
      PROVE  \A R \in SUBSET (T \ {a}) : Cardinality(R) < Cardinality(T)
  <2>1. IsFiniteSet(T) /\ Cardinality(T) \in Nat
    BY <1>2
  <2>2. Cardinality(T \ {a}) = Cardinality(T) - 1 /\ IsFiniteSet(T \ {a})
    BY <1>3, <2>1, FS_RemoveElement
  <2>3. \A R \in SUBSET (T \ {a}) : Cardinality(R) <= Cardinality(T \ {a}) /\ Cardinality(R) \in Nat
    BY <2>2, FS_Subset, FS_CardinalityType
  <2> QED
    BY <2>1, <2>2, <2>3
<1>4. \A b \in S : Cardinality(Below(b)) \in Nat /\ Cardinality(Below(b)) < k
  <2> TAKE b \in S
  <2>1. Below(b) \in SUBSET (S \ {b})
    OBVIOUS
  <2> QED
    BY <1>2, <1>3, <2>1
<1>5. ASSUME NEW a \in S, NEW b \in S, a < b PROVE rank[a] < rank[b]
  <2>1. a \in Int /\ b \in Int /\ \A c \in S : c \in Int /\ (c < a => c < b /\ c # a)
    BY <1>5
  <2>3. a \in Below(b) /\ Below(b) \in SUBSET S /\ Below(a) \in SUBSET (Below(b) \ {a})
    BY <1>5, <2>1
  <2>2. Cardinality(Below(a)) < Cardinality(Below(b))
    BY <1>3, <2>3
  <2> QED
    BY <1>4, <2>2
<1>6. rank \in [S -> 1 .. k]
  BY <1>1, <1>4
<1>7. rank \in Injection(S, 1 .. k)
  <2>1. \A a, b \in S : a = b \/ a < b \/ b < a
    OBVIOUS
  <2>2. \A a \in S : rank[a] \in Nat
    BY <1>6
  <2>3. \A a, b \in S : rank[a] = rank[b] => a = b
    BY <1>5, <2>1, <2>2
  <2> HIDE DEF rank
  <2> QED
    BY <1>6, <2>3 DEF Injection, IsInjective
<1>8. rank \in Surjection(S, 1 .. k)
  <2>1. IsFiniteSet(1 .. k) /\ Cardinality(1 .. k) = k
    BY <1>1, FS_Interval
  <2> HIDE DEF rank, k
  <2> QED
    BY <1>7, <2>1, FS_Injection DEF k
<1>9. PICK b \in S : rank[b] = i
  BY <1>8 DEF Surjection
<1>10. rank[b] = Cardinality(Below(b)) + 1 /\ Cardinality(Below(b)) \in Nat
  BY <1>4
<1>11. Cardinality(Below(b)) = i - 1
  <2> HIDE DEF Below, rank
  <2> QED
    BY <1>9, <1>10
<1> QED
  BY <1>11

-----------------------------------------------------------------------------
(* What a step may do without making a second summary possible              *)

\* A batch of which nothing is summarised, nor about to be.
Free(b) ==
  /\ b \in 1 .. Len(batches)
  /\ \A w \in WakeIds : Token(w) => wakes[w].batch # b
  /\ \A r \in Ids : runs[r].sum => runs[r].batch # b

\* Runs keep what they are; batches do not start again; new wakes are for
\* different free batches.
RunsKept ==
  \A r \in Ids : /\ r \in Ids' /\ runs'[r].kind = runs[r].kind
                 /\ runs'[r].batch = runs[r].batch /\ runs'[r].sum = runs[r].sum
RunsOn ==
  /\ RunsKept
  /\ \A r \in Ids' : r \notin Ids => ~runs'[r].sum /\ runs'[r].batch \in 0 .. Len(batches')
BatchesOn ==
  /\ batches' \in Seq(BatchRow) /\ Len(batches) <= Len(batches')
  /\ \A b \in 1 .. Len(batches) : batches'[b].st = "running" => batches[b].st = "running"
WakesOn ==
  /\ wakes' \in Seq(WakeRow) /\ Len(wakes) <= Len(wakes')
  /\ \A w \in WakeIds : wakes'[w] = wakes[w]
  /\ \A w \in WakeIds' : w \notin WakeIds => Free(wakes'[w].batch) /\ Begun(batches', wakes'[w].batch)
  /\ \A v, w \in WakeIds' : v \notin WakeIds /\ w \notin WakeIds /\ wakes'[v].batch = wakes'[w].batch => v = w

\* What the row, the hooks and the starts name after a step.
NamesOn ==
  \/ co'.act \notin {"settle", "retry_worker"}
  \/ co'.act = co.act /\ co'.settle = co.settle /\ co'.retryOf = co.retryOf
  \/ co'.act = "settle" /\ co'.settle \in Ids /\ runs[co'.settle].batch # 0
  \/ co'.act = "retry_worker" /\ co'.retryOf \in Ids /\ runs[co'.retryOf].kind = "worker"
HooksOn == \A h \in hooks' : h[2] = "settle" => h \in hooks \/ (h[1] \in Ids /\ runs[h[1]].batch # 0)
StartsOn ==
  \A p \in Callers : \/ starts'[p] = starts[p] \/ starts'[p].do # "retry"
                     \/ starts'[p].run \in Ids /\ runs[starts'[p].run].kind = "worker"

LEMMA AimsKept ==
  ASSUME CInv, SettleAims, RunsKept, NamesOn, HooksOn, StartsOn
  PROVE  SettleAims'
<1>1. Names(co)'
  BY DEF SettleAims, Names, NamesOn, RunsKept
<1>2. \A h \in hooks' : h[2] = "settle" => runs'[h[1]].batch # 0
  BY DEF CInv, HooksEnded, SettleAims, RunsKept, HooksOn
<1>3. \A p \in Callers : starts'[p].do = "retry" => runs'[starts'[p].run].kind = "worker"
  BY DEF CInv, StartsAim, SettleAims, RunsKept, StartsOn
<1> QED
  BY <1>1, <1>2, <1>3 DEF SettleAims

\* A step that starts no summary and takes no wake.
LEMMA Stay ==
  ASSUME CInv, WInv, RunsOn, BatchesOn, WakesOn, NamesOn, HooksOn, StartsOn, UNCHANGED sched
  PROVE  WInv'
<1>1. Placed /\ Collected /\ OneToken /\ TokenOrSum /\ OneSum /\ RunsKept
  BY DEF WInv, RunsOn
<1>2. Len(wakes) \in Nat /\ Len(wakes') \in Nat /\ Len(batches) \in Nat /\ Len(batches') \in Nat
  BY <1>1 DEF Placed, BatchesOn, WakesOn
<1>3. \A w \in WakeIds : w \in WakeIds'
  BY <1>2 DEF WakeIds, WakesOn
<1>4. \A w \in WakeIds : wakes'[w] = wakes[w] /\ (Token(w)' => Token(w))
  BY DEF WakesOn, Token
<1>5. \A b \in 1 .. Len(batches) : b \in 1 .. Len(batches') /\ (Begun(batches, b) => Begun(batches', b))
  BY <1>2 DEF BatchesOn, Begun
<1>6. Placed'
  <2>1. sched \in 0 .. Len(wakes') /\ (sched # 0 => wakes'[sched].st = "consumed")
    BY <1>1, <1>2, <1>4 DEF Placed, WakeIds, WakesOn
  <2>2. \A r \in Ids' : runs'[r].batch \in 0 .. Len(batches')
    BY <1>1, <1>2 DEF RunsOn, RunsKept, Placed, BatchesOn
  <2> QED
    BY <2>1, <2>2 DEF Placed, BatchesOn, WakesOn
<1>7. Collected'
  <2>1. \A w \in WakeIds' : Begun(batches', wakes'[w].batch)
    BY <1>1, <1>4, <1>5 DEF Collected, WakesOn, Begun
  <2>2. \A r \in Ids' : runs'[r].sum => runs'[r].kind = "turn" /\ Begun(batches', runs'[r].batch)
    BY <1>1, <1>5 DEF Collected, RunsOn, RunsKept, Begun
  <2> QED
    BY <2>1, <2>2 DEF Collected, Begun
<1>8. OneToken'
  <2> SUFFICES ASSUME NEW v \in WakeIds', NEW w \in WakeIds', Token(v)', Token(w)',
                      wakes'[v].batch = wakes'[w].batch
               PROVE  v = w
    BY DEF OneToken
  <2>1. CASE v \in WakeIds /\ w \in WakeIds
    BY <1>1, <1>4, <2>1 DEF OneToken
  <2>2. CASE v \in WakeIds /\ w \notin WakeIds
    BY <1>4, <2>2 DEF WakesOn, Free
  <2>3. CASE v \notin WakeIds /\ w \in WakeIds
    BY <1>4, <2>3 DEF WakesOn, Free
  <2>4. CASE v \notin WakeIds /\ w \notin WakeIds
    BY <2>4 DEF WakesOn
  <2> QED
    BY <2>1, <2>2, <2>3, <2>4
<1>9. TokenOrSum'
  <2> SUFFICES ASSUME NEW w \in WakeIds', NEW r \in Ids', Token(w)', runs'[r].sum
               PROVE  runs'[r].batch # wakes'[w].batch
    BY DEF TokenOrSum
  <2>1. r \in Ids /\ runs[r].sum /\ runs'[r].batch = runs[r].batch
    BY DEF RunsOn, RunsKept
  <2>2. CASE w \in WakeIds
    BY <1>1, <1>4, <2>1, <2>2 DEF TokenOrSum
  <2>3. CASE w \notin WakeIds
    BY <2>1, <2>3 DEF WakesOn, Free
  <2> QED
    BY <2>2, <2>3
<1>10. OneSum'
  BY <1>1 DEF OneSum, RunsOn, RunsKept
<1>11. SettleAims'
  BY <1>1, AimsKept DEF WInv
<1> QED
  BY <1>6, <1>7, <1>8, <1>9, <1>10, <1>11 DEF WInv

\* A step of the scheduler that starts no summary: of every batch at most the
\* wakes that counted still count.
LEMMA Fewer ==
  ASSUME CInv, WInv, UNCHANGED <<runs, batches>>, Len(wakes') = Len(wakes),
         wakes' \in Seq(WakeRow),
         \A w \in WakeIds : wakes'[w].batch = wakes[w].batch /\ (Token(w)' => Token(w)),
         sched' \in 0 .. Len(wakes), sched' # 0 => wakes'[sched'].st = "consumed",
         NamesOn, HooksOn, StartsOn
  PROVE  WInv'
<1>1. Placed /\ Collected /\ OneToken /\ TokenOrSum /\ OneSum /\ SettleAims
  BY DEF WInv
<1>2. WakeIds' = WakeIds /\ Ids' = Ids /\ RunsKept 
  BY DEF WakeIds, Ids, RunsKept
<1>3. Placed' /\ Collected' /\ OneSum'
  BY <1>1, <1>2 DEF Placed, Collected, OneSum
<1>4. OneToken' /\ TokenOrSum'
  BY <1>1, <1>2 DEF OneToken, TokenOrSum
<1>5. SettleAims'
  BY <1>1, <1>2, AimsKept
<1> QED
  BY <1>3, <1>4, <1>5 DEF WInv

-----------------------------------------------------------------------------
(* The ways in which the rows change                                        *)

LEMMA RunsSame ==
  ASSUME WInv, BatchesOn, UNCHANGED runs
  PROVE  RunsOn
BY DEF RunsOn, RunsKept, Ids

LEMMA RunAppended ==
  ASSUME CInv, NEW x, IsRun(x), ~x.sum, x.batch \in 0 .. Len(batches'), runs' = Append(runs, x)
  PROVE  RunsOn
<1>1. RunsOK
  BY DEF CInv, Shapes
<1>2. /\ Len(runs) \in Nat /\ Len(runs') = Len(runs) + 1 /\ runs'[Len(runs) + 1] = x
      /\ \A r \in Ids : runs'[r] = runs[r]
  BY <1>1, Added
<1> QED
  BY <1>2 DEF RunsOn, RunsKept, Ids

LEMMA RunEnded ==
  ASSUME CInv, WInv, BatchesOn, NEW r \in Ids, NEW st, runs' = [runs EXCEPT ![r].st = st]
  PROVE  RunsOn
<1>1. PICK S : runs \in Seq(S)
  BY DEF CInv, Shapes, RunsOK
<1>2. Len(runs') = Len(runs) /\ \A q \in Ids : q # r => runs'[q] = runs[q]
  BY <1>1 DEF Ids
<1>3. runs'[r] = [runs[r] EXCEPT !.st = st]
  BY <1>1 DEF Ids
<1>4. IsRun(runs[r])
  BY DEF CInv, Shapes, RunsOK
<1>5. runs'[r].kind = runs[r].kind /\ runs'[r].batch = runs[r].batch /\ runs'[r].sum = runs[r].sum
  BY <1>3, <1>4 DEF IsRun
<1> QED
  BY <1>2, <1>5 DEF RunsOn, RunsKept, Ids

LEMMA BatchesSame == ASSUME WInv, UNCHANGED batches PROVE BatchesOn /\ Len(batches') = Len(batches)
<1>1. batches \in Seq(BatchRow) /\ Len(batches) \in Nat
  BY DEF WInv, Placed
<1> QED
  BY <1>1 DEF BatchesOn

LEMMA BatchAppended ==
  ASSUME WInv, NEW l \in Nat, batches' = Append(batches, [lead |-> l, st |-> "running"])
  PROVE  BatchesOn /\ Len(batches) \in Nat /\ Len(batches') = Len(batches) + 1
<1> DEFINE x == [lead |-> l, st |-> "running"]
<1>1. batches \in Seq(BatchRow) /\ x \in BatchRow
  BY DEF WInv, Placed, BatchStatus, OpenBatch, BatchRow
<1> HIDE DEF x
<1>2. /\ batches' \in Seq(BatchRow) /\ Len(batches) \in Nat
      /\ Len(batches') = Len(batches) + 1
      /\ \A b \in 1 .. Len(batches) : batches'[b] = batches[b]
  BY <1>1, AppendProperties, LenProperties DEF x
<1> QED
  BY <1>2 DEF BatchesOn

LEMMA BatchesDegraded ==
  ASSUME WInv, batches' = Degraded
  PROVE  BatchesOn
<1>1. batches \in Seq(BatchRow) /\ Len(batches) \in Nat
  BY DEF WInv, Placed
<1>2. ASSUME NEW b \in 1 .. Len(batches)
      PROVE  /\ batches[b] \in BatchRow
             /\ [batches[b] EXCEPT !.st = "degraded"] \in BatchRow
             /\ [batches[b] EXCEPT !.st = "degraded"].st = "degraded"
  <2>1. batches[b] \in BatchRow
    BY <1>1, ElementOfSeq, Zenon
  <2>2. "degraded" \in BatchStatus
    BY DEF BatchStatus
  <2> QED
    BY <2>1, <2>2 DEF BatchRow
<1>3. /\ batches' \in [1 .. Len(batches) -> BatchRow]
      /\ \A b \in 1 .. Len(batches) : batches'[b].st = "running" => batches[b].st = "running"
  BY <1>2 DEF Degraded
<1>4. batches' \in Seq(BatchRow) /\ Len(batches') = Len(batches)
  BY <1>1, <1>3
<1> QED
  BY <1>1, <1>3, <1>4 DEF BatchesOn

LEMMA WakesSame == ASSUME WInv, UNCHANGED wakes PROVE WakesOn
<1>1. wakes \in Seq(WakeRow) /\ Len(wakes) \in Nat
  BY DEF WInv, Placed
<1> QED
  BY <1>1 DEF WakesOn, WakeIds

LEMMA WakeAppended ==
  ASSUME WInv, NEW b, Free(b), Begun(batches', b),
         wakes' = Append(wakes, [batch |-> b, st |-> "queued"])
  PROVE  WakesOn
<1> DEFINE x == [batch |-> b, st |-> "queued"]
<1>1. /\ wakes \in Seq(WakeRow)
      /\ x \in WakeRow /\ x.batch = b
  BY DEF WInv, Placed, Free, WakeRow
<1> HIDE DEF x
<1>2. /\ wakes' \in Seq(WakeRow) /\ Len(wakes) \in Nat
      /\ Len(wakes') = Len(wakes) + 1 /\ wakes'[Len(wakes) + 1] = x
      /\ \A w \in 1 .. Len(wakes) : wakes'[w] = wakes[w]
  BY <1>1, AppendProperties, LenProperties DEF x
<1>3. \A w \in WakeIds' : w \notin WakeIds => w = Len(wakes) + 1
  BY <1>2 DEF WakeIds
<1> QED
  BY <1>1, <1>2, <1>3 DEF WakesOn, WakeIds

\* A batch that runs is free: no wake and no summary names it.
LEMMA RunningFree ==
  ASSUME WInv, NEW b \in 1 .. Len(batches), batches[b].st = "running"
  PROVE  Free(b)
BY DEF WInv, Collected, Begun, Free

-----------------------------------------------------------------------------
(* Settlement                                                               *)

Restated(b, st) == [batches EXCEPT ![b].st = st]

\* settleDispatchTx leaves the batch of r, closes it, or lets it collect with
\* the wake that asks for its summary.
LEMMA SettleMoves ==
  ASSUME CInv, WInv, NEW r \in Ids, runs[r].batch # 0, NEW b, b = runs[r].batch
  PROVE  /\ b \in 1 .. Len(batches)
         /\ \/ SettleTx(r) = <<batches, wakes>>
            \/ /\ \A q \in Participants(b) : ~Live(q)
               /\ \E st \in {"completed", "degraded", "cancelled"} :
                    SettleTx(r) = <<Restated(b, st), wakes>>
            \/ /\ batches[b].st = "running"
               /\ SettleTx(r) = <<Restated(b, "collecting"),
                                  Append(wakes, [batch |-> b, st |-> "queued"])>>
<1>1. b \in 1 .. Len(batches)
  BY DEF WInv, Placed
<1>2. \A S : ClosedAs(b, S) \in {"completed", "degraded", "cancelled"}
  BY DEF ClosedAs
<1>3. ~SettleSkips(r) =>
        batches[b].st \in {"running", "collecting"} /\ \A q \in Participants(b) : ~Live(q)
  BY DEF SettleSkips, OpenBatch
<1>4. \/ SettleTx(r) = <<batches, wakes>>
      \/ ~SettleSkips(r) /\ \E S : SettleTx(r) = <<Restated(b, ClosedAs(b, S)), wakes>>
      \/ /\ ~SettleSkips(r) /\ batches[b].st # "collecting"
         /\ SettleTx(r) = <<Restated(b, "collecting"),
                            Append(wakes, [batch |-> b, st |-> "queued"])>>
  BY Zenon DEF SettleTx, Restated
<1>5. ASSUME NEW S, SettleTx(r) = <<Restated(b, ClosedAs(b, S)), wakes>>
      PROVE  \E st \in {"completed", "degraded", "cancelled"} :
               SettleTx(r) = <<Restated(b, st), wakes>>
  BY <1>2, <1>5, Zenon
<1> QED
  BY <1>1, <1>3, <1>4, <1>5, Zenon

\* The status of one batch moves on.
LEMMA BatchMoved ==
  ASSUME WInv, NEW b \in 1 .. Len(batches), NEW st \in BatchStatus, st # "running",
         NEW bs, bs = Restated(b, st)
  PROVE  /\ bs \in Seq(BatchRow) /\ Len(bs) = Len(batches)
         /\ bs[b] \in BatchRow /\ bs[b].st = st
         /\ \A c \in 1 .. Len(batches) : c # b => bs[c] = batches[c]
<1> DEFINE x == [batches[b] EXCEPT !.st = st]
<1>1. batches \in Seq(BatchRow)
  BY DEF WInv, Placed
<1>2. batches[b] \in BatchRow
  BY <1>1, ElementOfSeq, Zenon
<1>3. x \in BatchRow /\ x.st = st /\ bs = [batches EXCEPT ![b] = x]
  BY <1>2 DEF Restated, BatchRow
<1> HIDE DEF x
<1>4. /\ bs \in Seq(BatchRow) /\ Len(bs) = Len(batches)
      /\ \A c \in 1 .. Len(batches) : bs[c] = IF c = b THEN x ELSE batches[c]
  BY <1>1, <1>3, ExceptSeq
<1> QED
  BY <1>3, <1>4

\* What settling through run r does to its batch b.
LEMMA SettleBatch ==
  ASSUME CInv, WInv, NEW r \in Ids, runs[r].batch # 0, NEW b, b = runs[r].batch
  PROVE  /\ b \in 1 .. Len(batches)
         /\ SettleTx(r)[1] \in Seq(BatchRow) /\ Len(SettleTx(r)[1]) = Len(batches)
         /\ SettleTx(r)[1][b] \in BatchRow
         /\ \A c \in 1 .. Len(batches) : SettleTx(r)[1][c].st = "running" => batches[c].st = "running"
         /\ \/ SettleTx(r)[2] = wakes
            \/ /\ batches[b].st = "running" /\ SettleTx(r)[1][b].st # "running"
               /\ SettleTx(r)[2] = Append(wakes, [batch |-> b, st |-> "queued"])
<1>0. batches \in Seq(BatchRow) /\ b \in 1 .. Len(batches)
  BY SettleMoves DEF WInv, Placed
<1>1. CASE SettleTx(r) = <<batches, wakes>>
  <2>1. batches[b] \in BatchRow
    BY <1>0, ElementOfSeq, Zenon
  <2> QED
    BY <1>0, <1>1, <2>1
<1>2. ASSUME NEW st \in {"completed", "degraded", "cancelled"},
             SettleTx(r) = <<Restated(b, st), wakes>>
      PROVE  /\ SettleTx(r)[1] \in Seq(BatchRow) /\ Len(SettleTx(r)[1]) = Len(batches)
             /\ SettleTx(r)[1][b] \in BatchRow
             /\ \A c \in 1 .. Len(batches) : SettleTx(r)[1][c].st = "running" => batches[c].st = "running"
             /\ SettleTx(r)[2] = wakes
  <2>1. st \in BatchStatus /\ st # "running"
    BY DEF BatchStatus
  <2>2. PICK bs : bs = Restated(b, st)
    OBVIOUS
  <2>3. SettleTx(r)[1] = bs /\ SettleTx(r)[2] = wakes
    BY <1>2, <2>2
  <2>4. /\ bs \in Seq(BatchRow) /\ Len(bs) = Len(batches)
        /\ bs[b] \in BatchRow /\ bs[b].st = st
        /\ \A c \in 1 .. Len(batches) : c # b => bs[c] = batches[c]
    BY <1>0, <2>1, <2>2, BatchMoved, SMTT(30)
  <2>5. \A c \in 1 .. Len(batches) : bs[c].st = "running" => batches[c].st = "running"
    BY <2>1, <2>4, Zenon
  <2> QED
    BY <2>3, <2>4, <2>5, Zenon
<1>3. CASE /\ batches[b].st = "running"
           /\ SettleTx(r) = <<Restated(b, "collecting"),
                              Append(wakes, [batch |-> b, st |-> "queued"])>>
  <2>1. "collecting" \in BatchStatus
    BY DEF BatchStatus, OpenBatch
  <2>2. PICK bs : bs = Restated(b, "collecting")
    OBVIOUS
  <2>3. SettleTx(r)[1] = bs /\ SettleTx(r)[2] = Append(wakes, [batch |-> b, st |-> "queued"])
    BY <1>3, <2>2
  <2>4. /\ bs \in Seq(BatchRow) /\ Len(bs) = Len(batches)
        /\ bs[b] \in BatchRow /\ bs[b].st = "collecting"
        /\ \A c \in 1 .. Len(batches) : c # b => bs[c] = batches[c]
    BY <1>0, <2>1, <2>2, BatchMoved
  <2>5. \A c \in 1 .. Len(batches) : bs[c].st = "running" => batches[c].st = "running"
    BY <2>4
  <2> QED
    BY <1>0, <1>3, <2>3, <2>4, <2>5
<1> QED
  BY <1>0, <1>1, <1>2, <1>3, SettleMoves

LEMMA SettleOn ==
  ASSUME CInv, WInv, NEW r \in Ids, runs[r].batch # 0,
         batches' = SettleTx(r)[1], wakes' = SettleTx(r)[2]
  PROVE  BatchesOn /\ WakesOn
<1>1. PICK b : b = runs[r].batch
  OBVIOUS
<1>2. Len(batches) \in Nat
  BY DEF WInv, Placed
<1>3. /\ b \in 1 .. Len(batches)
      /\ batches' \in Seq(BatchRow) /\ Len(batches') = Len(batches)
      /\ \A c \in 1 .. Len(batches) : batches'[c].st = "running" => batches[c].st = "running"
      /\ \/ wakes' = wakes
         \/ /\ batches[b].st = "running" /\ batches'[b].st # "running"
            /\ wakes' = Append(wakes, [batch |-> b, st |-> "queued"])
  BY <1>1, SettleBatch, Zenon
<1>31. BatchesOn
  BY <1>2, <1>3 DEF BatchesOn
<1>4. CASE wakes' = wakes
  BY <1>31, <1>4, WakesSame
<1>5. CASE /\ batches[b].st = "running" /\ batches'[b].st # "running"
           /\ wakes' = Append(wakes, [batch |-> b, st |-> "queued"])
  <2>1. Free(b) /\ Begun(batches', b)
    BY <1>3, <1>5, RunningFree DEF Begun
  <2> QED
    BY <1>31, <1>5, <2>1, WakeAppended, Zenon
<1> QED
  BY <1>3, <1>4, <1>5, Zenon

-----------------------------------------------------------------------------
(* openDispatchIDs: every open batch settles by its candidate               *)

\* The candidate of a batch is one of its members.
LEMMA CandidateMember ==
  ASSUME CInv, NEW b \in Settleable
  PROVE  Candidate(b) \in Members(b)
<1> DEFINE ended == {r \in Members(b) : ~Live(r)}
           sums == {r \in ended : runs[r].sum}
           lead == ended \cap {batches[b].lead}
           from(S) == CHOOSE r \in S : \A q \in S : r <= q
<1>1. ended \in SUBSET (1 .. Len(runs)) /\ ended \subseteq Members(b) /\ ended # {}
  BY DEF Settleable, Members, Ids
<1>2. Len(runs) \in Nat
  BY DEF CInv, Shapes, RunsOK
<1>3. ASSUME NEW S \in SUBSET ended, S # {} PROVE from(S) \in ended
  <2>1. \E r \in S : \A q \in S : r <= q
    BY <1>1, <1>2, <1>3, Least
  <2> QED
    BY <2>1
<1>4. Candidate(b) = IF sums # {} THEN from(sums) ELSE IF lead # {} THEN from(lead) ELSE from(ended)
  BY Zenon DEF Candidate
<1>5. sums \in SUBSET ended /\ lead \in SUBSET ended /\ ended \in SUBSET ended
  OBVIOUS
<1> HIDE DEF ended, sums, lead, from
<1> QED
  BY <1>1, <1>3, <1>4, <1>5, Zenon

LEMMA ReplayBatch ==
  ASSUME CInv, WInv, NEW b \in Settleable
  PROVE  /\ b \in 1 .. Len(batches)
         /\ SettleTx(Candidate(b))[1][b] \in BatchRow
         /\ SettleTx(Candidate(b))[1][b].st = "running" => batches[b].st = "running"
         /\ SettleTx(Candidate(b))[2] # wakes =>
              batches[b].st = "running" /\ SettleTx(Candidate(b))[1][b].st # "running"
<1>1. PICK r : r = Candidate(b)
  OBVIOUS
<1>2. b \in 1 .. Len(batches) /\ b # 0
  BY DEF Settleable, Open
<1>3. r \in Ids /\ b = runs[r].batch
  BY <1>1, CandidateMember DEF Members
<1> QED
  BY <1>1, <1>2, <1>3, SettleBatch

LEMMA ReplayOn ==
  ASSUME CInv, WInv, batches' = ReplayedBatches, wakes' = ReplayedWakes
  PROVE  BatchesOn /\ WakesOn
<1>1. /\ batches \in Seq(BatchRow) /\ Len(batches) \in Nat
      /\ wakes \in Seq(WakeRow) /\ Len(wakes) \in Nat
  BY DEF WInv, Placed
<1>2. \A b \in 1 .. Len(batches) :
        /\ batches'[b] = IF b \in Settleable THEN SettleTx(Candidate(b))[1][b] ELSE batches[b]
        /\ batches[b] \in BatchRow
  BY <1>1, ElementOfSeq DEF ReplayedBatches
<1>3. \A b \in 1 .. Len(batches) :
        batches'[b] \in BatchRow /\ (batches'[b].st = "running" => batches[b].st = "running")
  BY <1>2, ReplayBatch
<1>4. batches' \in Seq(BatchRow) /\ Len(batches') = Len(batches)
  <2>1. batches' \in [1 .. Len(batches) -> BatchRow]
    BY <1>3 DEF ReplayedBatches
  <2> QED
    BY <1>1, <2>1
<1>5. BatchesOn
  BY <1>1, <1>3, <1>4 DEF BatchesOn
<1> DEFINE woken == {b \in Settleable : SettleTx(Candidate(b))[2] # wakes}
           k == Cardinality(woken)
           below(b) == Cardinality({c \in woken : c < b})
           at(i) == CHOOSE b \in woken : below(b) = i - 1
           new == [i \in 1 .. k |-> [batch |-> at(i), st |-> "queued"]]
<1>6. woken \in SUBSET (1 .. Len(batches))
  BY DEF Settleable, Open
<1>7. \A b \in woken : Free(b) /\ Begun(batches', b)
  <2> TAKE b \in woken
  <2>1. b \in 1 .. Len(batches) /\ batches[b].st = "running" /\ batches'[b].st # "running"
    BY <1>2, ReplayBatch
  <2> QED
    BY <1>4, <2>1, RunningFree DEF Begun
<1>8. wakes' = wakes \o new
  BY Zenon DEF ReplayedWakes
<1>9. k \in Nat
  <2>1. IsFiniteSet(1 .. Len(batches))
    BY <1>1, FS_Interval
  <2> QED
    BY <1>6, <2>1, FS_Subset, FS_CardinalityType
<1> HIDE DEF woken
<1>10. \A i \in 1 .. k : at(i) \in woken /\ below(at(i)) = i - 1
  <2> TAKE i \in 1 .. k
  <2>1. \E b \in woken : below(b) = i - 1
    BY <1>1, <1>6, CountedOff
  <2> HIDE DEF below
  <2> QED
    BY <2>1
<1> HIDE DEF at, below, k
<1>11. \A i, j \in 1 .. k : at(i) = at(j) => i = j
  BY <1>9, <1>10
<1>12. new \in Seq(WakeRow) /\ Len(new) = k /\ \A i \in 1 .. k : new[i].batch = at(i)
  <2>1. \A i \in 1 .. k : [batch |-> at(i), st |-> "queued"] \in WakeRow
    <3> TAKE i \in 1 .. k
    <3>1. PICK b : b = at(i)
      OBVIOUS
    <3>3. b \in 1 .. Len(batches)
      BY <1>6, <1>10, <3>1, Zenon
    <3>2. [batch |-> b, st |-> "queued"] \in WakeRow
      BY <3>3 DEF WakeRow
    <3> QED
      BY <3>1, <3>2, Zenon
  <2>2. new \in [1 .. k -> WakeRow] /\ \A i \in 1 .. k : new[i].batch = at(i)
    BY <2>1
  <2> HIDE DEF new
  <2> QED
    BY <1>9, <2>2
<1> HIDE DEF new
<1>13. /\ wakes' \in Seq(WakeRow) /\ Len(wakes') = Len(wakes) + k
       /\ \A w \in 1 .. Len(wakes) + k : wakes'[w] = IF w <= Len(wakes) THEN wakes[w] ELSE new[w - Len(wakes)]
  <2>1. /\ wakes \o new \in Seq(WakeRow) /\ Len(wakes \o new) = Len(wakes) + Len(new)
        /\ \A w \in 1 .. Len(wakes) + Len(new) :
             (wakes \o new)[w] = IF w <= Len(wakes) THEN wakes[w] ELSE new[w - Len(wakes)]
    BY <1>1, <1>12, ConcatProperties, Zenon
  <2> QED
    BY <1>8, <1>12, <2>1, Zenon
<1>14. \A w \in WakeIds' : w \notin WakeIds =>
         w - Len(wakes) \in 1 .. k /\ wakes'[w].batch = at(w - Len(wakes))
  BY <1>1, <1>9, <1>12, <1>13 DEF WakeIds
<1>15. WakesOn
  <2>1. Len(wakes) <= Len(wakes') /\ \A w \in WakeIds : wakes'[w] = wakes[w]
    BY <1>1, <1>9, <1>13 DEF WakeIds
  <2>2. \A w \in WakeIds' : w \notin WakeIds => Free(wakes'[w].batch) /\ Begun(batches', wakes'[w].batch)
    BY <1>7, <1>10, <1>14
  <2>3. \A v, w \in WakeIds' :
          v \notin WakeIds /\ w \notin WakeIds /\ wakes'[v].batch = wakes'[w].batch => v = w
    <3> SUFFICES ASSUME NEW v \in WakeIds', NEW w \in WakeIds', v \notin WakeIds, w \notin WakeIds,
                        wakes'[v].batch = wakes'[w].batch
                 PROVE  v = w
      OBVIOUS
    <3>1. v - Len(wakes) = w - Len(wakes)
      BY <1>11, <1>14
    <3> QED
      BY <1>1, <3>1 DEF WakeIds
  <2> QED
    BY <1>13, <2>1, <2>2, <2>3 DEF WakesOn
<1> QED
  BY <1>5, <1>15

\* ensureCollectingDispatchWakeups: the wake it writes is for a batch that has
\* none that counts and no summary.
LEMMA RepairOn ==
  ASSUME CInv, WInv, UNCHANGED batches, wakes' = wakes \/ wakes' = Repaired
  PROVE  WakesOn
<1> DEFINE lost == {b \in Collecting : Unattended(b) /\ \A r \in WorkersOf(b) : ~Live(r)}
           b == CHOOSE b \in lost : \A c \in lost : b <= c
<1>1. CASE wakes' = wakes
  BY <1>1, WakesSame
<1>2. CASE lost # {} /\ wakes' = Append(wakes, [batch |-> b, st |-> "queued"])
  <2>1. lost \in SUBSET (1 .. Len(batches)) /\ Len(batches) \in Nat
    BY DEF Collecting, Open, WInv, Placed
  <2>2. \E k \in lost : \A c \in lost : k <= c
    BY <1>2, <2>1, Least
  <2>3. b \in lost
    BY <2>2
  <2>4. b \in 1 .. Len(batches) /\ batches[b].st = "collecting" /\ Unattended(b)
    BY <2>3 DEF Collecting, Open
  <2> HIDE DEF b
  <2>5. Free(b) /\ Begun(batches', b)
    BY <2>4 DEF Free, Begun, Unattended, Members, Token, WakeIds
  <2> QED
    BY <1>2, <2>5, WakeAppended, Zenon
<1>3. wakes' = wakes \/ (lost # {} /\ wakes' = Append(wakes, [batch |-> b, st |-> "queued"]))
  BY Zenon DEF Repaired
<1> QED
  BY <1>1, <1>2, <1>3

-----------------------------------------------------------------------------
(* The steps                                                                *)

\* blockCoordinator degrades the open batches and leaves what the row names.
LEMMA BlockOn ==
  ASSUME CInv, WInv, NEW r, Block(r)
  PROVE  NamesOn /\ BatchesOn
<1>1. IsRow(co)
  BY DEF CInv, Shapes
<1>2. \/ UNCHANGED <<co, batches>>
      \/ (co' = co \/ co' = Blocked(co)) /\ batches' = Degraded
  BY Zenon DEF Block
<1>3. co' = co \/ co' = Blocked(co) => NamesOn
  BY <1>1 DEF NamesOn, Blocked, IsRow
<1> QED
  BY <1>2, <1>3, BatchesSame, BatchesDegraded

\* StartCoordinator aims at the run that the row named.
LEMMA StartsAimed ==
  ASSUME CInv, NEW p \in Callers, NEW d, starts' = [starts EXCEPT ![p] = d],
         d.do # "retry" \/ (d.run \in Ids /\ runs[d.run].kind = "worker")
  PROVE  StartsOn
<1>1. starts \in [Callers -> [do : {"none", "settle", "retry", "turn", "replay", "launch"}, run : Nat]]
  BY DEF CInv, Shapes
<1>2. \A q \in Callers : starts'[q] = IF q = p THEN d ELSE starts[q]
  BY <1>1
<1> QED
  BY <1>2 DEF StartsOn

\* A turn begins with a batch of its own.
LEMMA TurnOn ==
  ASSUME CInv, WInv, NEW l \in Nat, NEW repair,
         runs' = Append(runs, NewRun("turn", Len(batches) + 1, FALSE, repair)),
         batches' = Append(batches, [lead |-> l, st |-> "running"])
  PROVE  RunsOn /\ BatchesOn
<1>1. BatchesOn /\ Len(batches) \in Nat /\ Len(batches') = Len(batches) + 1
  BY BatchAppended
<1>2. PICK x : x = NewRun("turn", Len(batches) + 1, FALSE, repair)
  OBVIOUS
<1>3. IsRun(x) /\ ~x.sum /\ x.batch = Len(batches) + 1
  BY <1>2 DEF NewRun, IsRun
<1>4. x.batch \in 0 .. Len(batches')
  BY <1>1, <1>3
<1> QED
  BY <1>1, <1>2, <1>3, <1>4, RunAppended

LEMMA StartOn == ASSUME CInv, WInv, NEW p \in Callers, Start(p) PROVE WInv'
<1>1. IsRow(co) /\ Len(runs) \in Nat /\ Placed /\ Collected /\ SettleAims
  BY DEF CInv, Shapes, RunsOK, WInv
<1>2. Idle.do # "retry"
  BY DEF Idle
<1>3. (UNCHANGED co => NamesOn) /\ (UNCHANGED hooks => HooksOn)
  BY DEF NamesOn, HooksOn
<1>4. UNCHANGED batches => BatchesOn
  BY BatchesSame
<1>5. UNCHANGED wakes => WakesOn
  BY WakesSame
<1>6. UNCHANGED <<runs, batches>> => RunsOn
  BY <1>4, RunsSame
<1>7. CASE StartRead(p)
  <2>1. UNCHANGED <<co, runs, batches, hooks, sched>> /\ starts' = [starts EXCEPT ![p] = Decision]
    BY <1>7 DEF StartRead
  <2>2. Decision.do # "retry" \/ (Decision.run \in Ids /\ runs[Decision.run].kind = "worker")
    <3>1. Decision.do # "retry" \/ (Decision.run = co.retryOf /\ co.act = "retry_worker")
      BY DEF Decision, Idle
    <3> QED
      BY <1>1, <3>1 DEF SettleAims, Names
  <2>3. StartsOn
    BY <2>1, <2>2, StartsAimed
  <2>4. WakesOn
    <3>1. wakes' = wakes \/ wakes' = Repaired
      BY <1>7, Zenon DEF StartRead
    <3> QED
      BY <2>1, <3>1, RepairOn
  <2> QED
    BY <1>3, <1>4, <1>6, <2>1, <2>3, <2>4, Stay
<1>8. CASE StartTurn(p)
  <2>1. UNCHANGED <<wakes, hooks, sched>> /\ starts' = [starts EXCEPT ![p] = Idle]
    BY <1>8 DEF StartTurn
  <2>2. StartsOn
    BY <1>2, <2>1, StartsAimed
  <2>3. CASE UNCHANGED <<co, runs, batches>>
    BY <1>3, <1>4, <1>5, <1>6, <2>1, <2>2, <2>3, Stay
  <2>4. ASSUME NEW action, NewTurn(action) PROVE WInv'
    <3>1. /\ runs' = Append(runs, NewRun("turn", Len(batches) + 1, FALSE, action = "repair_plan"))
          /\ batches' = Append(batches, [lead |-> Len(runs) + 1, st |-> "running"])
          /\ co' = [co EXCEPT !.status = "running", !.cur = Len(runs) + 1, !.act = "", !.at = FALSE, !.seen = comments]
      BY <2>4, Zenon DEF NewTurn
    <3>2. RunsOn /\ BatchesOn
      <4>1. PICK l \in Nat : l = Len(runs) + 1
        BY <1>1
      <4>2. batches' = Append(batches, [lead |-> l, st |-> "running"])
        BY <3>1, <4>1
      <4> QED
        BY <3>1, <4>2, TurnOn, Zenon
    <3>3. NamesOn
      BY <1>1, <3>1 DEF IsRow, NamesOn
    <3> QED
      BY <1>3, <1>5, <2>1, <2>2, <3>2, <3>3, Stay
  <2> QED
    BY <1>8, <2>3, <2>4 DEF StartTurn
<1>9. CASE StartFails(p)
  <2>1. UNCHANGED <<runs, wakes, hooks, sched>> /\ starts' = [starts EXCEPT ![p] = Idle] /\ Block(0)
    BY <1>9 DEF StartFails
  <2>2. NamesOn /\ BatchesOn
    BY <2>1, BlockOn
  <2>3. StartsOn
    BY <1>2, <2>1, StartsAimed
  <2> QED
    BY <1>3, <1>5, <2>1, <2>2, <2>3, RunsSame, Stay
<1>10. CASE StartRetry(p)
  <2> DEFINE x == [runs[starts[p].run] EXCEPT !.st = "live", !.attempt = @ + 1]
             d == [do |-> "launch", run |-> Len(runs) + 1]
  <2>1. /\ starts[p].do = "retry" /\ UNCHANGED <<batches, wakes, hooks, sched>>
        /\ \/ UNCHANGED <<co, runs>> /\ starts' = [starts EXCEPT ![p] = Idle]
           \/ /\ runs' = Append(runs, x)
              /\ co' = [co EXCEPT !.status = "running", !.cur = Len(runs) + 1, !.at = FALSE]
              /\ starts' = [starts EXCEPT ![p] = d]
    BY <1>10, Zenon DEF StartRetry
  <2>2. CASE UNCHANGED <<co, runs>> /\ starts' = [starts EXCEPT ![p] = Idle]
    <3>1. StartsOn
      BY <1>2, <2>2, StartsAimed
    <3> QED
      BY <1>3, <1>4, <1>5, <1>6, <2>1, <2>2, <3>1, Stay
  <2>3. CASE /\ runs' = Append(runs, x)
             /\ co' = [co EXCEPT !.status = "running", !.cur = Len(runs) + 1, !.at = FALSE]
             /\ starts' = [starts EXCEPT ![p] = d]
    <3>1. starts[p].run \in Ids /\ runs[starts[p].run].kind = "worker"
      BY <1>1, <2>1 DEF CInv, StartsAim, SettleAims
    <3>2. PICK y : y = runs[starts[p].run]
      OBVIOUS
    <3>3. IsRun(y) /\ ~y.sum /\ y.batch \in 0 .. Len(batches)
      BY <1>1, <3>1, <3>2 DEF CInv, Shapes, RunsOK, Collected, Placed
    <3>4. IsRun(x) /\ ~x.sum /\ x.batch \in 0 .. Len(batches')
      <4>1. x = [y EXCEPT !.st = "live", !.attempt = @ + 1]
        BY <3>2
      <4>2. IsRun(x) /\ x.sum = y.sum /\ x.batch = y.batch
        BY <3>3, <4>1 DEF IsRun
      <4> QED
        BY <2>1, <3>3, <4>2
    <3> HIDE DEF x
    <3>5. RunsOn
      BY <2>3, <3>4, RunAppended
    <3>6. NamesOn
      BY <1>1, <2>3 DEF IsRow, NamesOn
    <3>7. StartsOn
      <4>1. d.do # "retry"
        OBVIOUS
      <4> HIDE DEF d
      <4> QED
        BY <2>3, <4>1, StartsAimed
    <3> QED
      BY <1>3, <1>4, <1>5, <2>1, <3>5, <3>6, <3>7, Stay
  <2> QED
    BY <2>1, <2>2, <2>3
<1>11. CASE Launch(p) \/ StartReplay(p)
  <2>1. UNCHANGED <<co, runs, batches, wakes, sched>> /\ starts' = [starts EXCEPT ![p] = Idle]
    BY <1>11 DEF Launch, StartReplay
  <2>2. HooksOn
    BY <1>11 DEF Launch, StartReplay, FirstHook, HooksOn
  <2>3. StartsOn
    BY <1>2, <2>1, StartsAimed
  <2> QED
    BY <1>3, <1>4, <1>5, <1>6, <2>1, <2>2, <2>3, Stay
<1>12. CASE StartSettle(p)
  <2>1. UNCHANGED <<runs, hooks, sched>> /\ starts' = [starts EXCEPT ![p] = Idle]
    BY <1>12 DEF StartSettle
  <2>2. StartsOn
    BY <1>2, <2>1, StartsAimed
  <2>3. CASE UNCHANGED <<batches, wakes, co>>
    BY <1>3, <1>4, <1>5, <1>6, <2>1, <2>2, <2>3, Stay
  <2>4. CASE /\ Settling /\ batches' = SettleTx(co.settle)[1] /\ wakes' = SettleTx(co.settle)[2]
             /\ co' = ClearSettle(co.settle)
    <3>1. co.settle \in Ids /\ runs[co.settle].batch # 0
      BY <1>1, <2>4 DEF SettleAims, Names, Settling
    <3>2. BatchesOn /\ WakesOn
      BY <2>4, <3>1, SettleOn
    <3>3. NamesOn
      BY <1>1, <2>4 DEF ClearSettle, IsRow, NamesOn
    <3> QED
      BY <1>3, <2>1, <2>2, <3>2, <3>3, RunsSame, Stay
  <2> QED
    BY <1>12, <2>3, <2>4 DEF StartSettle
<1> QED
  BY <1>7, <1>8, <1>9, <1>10, <1>11, <1>12 DEF Start

\* Only a run of a batch goes on to settle.
LEMMA HooksNext ==
  ASSUME NEW r \in Ids, NEW stage \in {"plan", "advance", "settle"} \cup WorkerStages, NextHook(r, stage)
  PROVE  HooksOn
BY DEF NextHook, HooksOn, WorkerStages

\* maybeExtractPlan: the Workers join a batch that runs, or a new one.
LEMMA PlanOn == ASSUME CInv, WInv, NEW r \in Ids, HookPlan(r) PROVE WInv'
<1>1. /\ IsRow(co) /\ Len(runs) \in Nat /\ Placed
      /\ UNCHANGED <<wakes, sched, starts>> /\ NextHook(r, "plan")
  BY DEF CInv, Shapes, RunsOK, WInv, HookPlan
<1>2. HooksOn /\ StartsOn /\ WakesOn
  BY <1>1, HooksNext, WakesSame DEF StartsOn
<1>3. \/ Accepted(r).act = "" \/ Accepted(r).act = co.act
  BY <1>1 DEF Accepted, IsRow
<1>4. IsRow(Accepted(r)) /\ Accepted(r).settle = co.settle /\ Accepted(r).retryOf = co.retryOf
  BY <1>1 DEF Accepted, IsRow
<1>5. co' = Accepted(r) => NamesOn
  BY <1>3, <1>4 DEF NamesOn
<1>6. UNCHANGED batches => BatchesOn
  BY BatchesSame
<1>7. CASE Verdict(r) \/ PlanKnown(r)
  <2>1. UNCHANGED <<co, runs, batches>>
    BY <1>7 DEF Verdict, PlanKnown
  <2> QED
    BY <1>1, <1>2, <1>6, <2>1, RunsSame, Stay DEF NamesOn
<1>8. ASSUME NEW n \in 1 .. MaxWorkers, Dispatch(r, n) PROVE WInv'
  <2>1. PICK b : /\ \/ b = runs[r].batch /\ UNCHANGED batches
                    \/ b = Len(batches) + 1 /\ batches' = Append(batches, [lead |-> r, st |-> "running"])
                 /\ runs' = runs \o [i \in 1 .. n |->
                              [NewRun("worker", b, FALSE, FALSE) EXCEPT !.root = Len(runs) + i]]
    BY <1>8 DEF Dispatch
  <2>2. BatchesOn /\ b \in 0 .. Len(batches')
    <3>1. CASE b = runs[r].batch /\ UNCHANGED batches
      BY <1>1, <1>6, <3>1 DEF Placed
    <3>2. CASE b = Len(batches) + 1 /\ batches' = Append(batches, [lead |-> r, st |-> "running"])
      <4>1. r \in Nat
        BY <1>1 DEF Ids
      <4> QED
        BY <3>2, <4>1, BatchAppended
    <3> QED
      BY <2>1, <3>1, <3>2
  <2>3. n \in Nat /\ RunsOK
    BY CoordinatorAssumption DEF CInv, Shapes
  <2>4. /\ Grown /\ Len(runs) \in Nat
        /\ \A q \in Ids' :
             q \in Ids \/ (runs'[q].kind = "worker" /\ runs'[q].batch = b /\ ~runs'[q].sum)
        /\ \A q \in Ids : runs'[q] = runs[q]
    BY <2>1, <2>3, WorkersAdded
  <2>5. \A q \in Ids : q \in Ids'
    <3>1. Len(runs') \in Nat /\ Len(runs) <= Len(runs')
      BY <2>4 DEF Grown, RunsOK
    <3> QED
      BY <2>4, <3>1 DEF Ids
  <2>6. RunsOn
    BY <2>2, <2>4, <2>5 DEF RunsOn, RunsKept
  <2>7. co' = Accepted(r)
    BY <1>8 DEF Dispatch
  <2> QED
    BY <1>1, <1>2, <1>5, <2>2, <2>6, <2>7, Stay
<1>9. CASE FinishEvaluated(r)
  <2>1. /\ runs' = Append(runs, NewRun("eval", 0, FALSE, FALSE)) /\ UNCHANGED batches
        /\ co' = [Accepted(r) EXCEPT !.cur = Len(runs) + 1]
    BY <1>9 DEF FinishEvaluated
  <2>2. PICK x : x = NewRun("eval", 0, FALSE, FALSE)
    OBVIOUS
  <2>3. IsRun(x) /\ ~x.sum /\ x.batch = 0
    BY <2>2 DEF NewRun, IsRun
  <2>4. x.batch \in 0 .. Len(batches')
    BY <1>1, <2>1, <2>3 DEF Placed
  <2>5. RunsOn
    BY <2>1, <2>2, <2>3, <2>4, RunAppended
  <2>6. co'.act = Accepted(r).act /\ co'.settle = co.settle /\ co'.retryOf = co.retryOf
    BY <1>4, <2>1 DEF IsRow
  <2>7. NamesOn
    BY <1>3, <2>6 DEF NamesOn
  <2> QED
    BY <1>1, <1>2, <1>6, <2>1, <2>5, <2>7, Stay
<1>10. CASE FinishPlain(r)
  <2>1. UNCHANGED <<runs, batches>> /\ co' = Accepted(r)
    BY <1>10 DEF FinishPlain
  <2> QED
    BY <1>1, <1>2, <1>5, <1>6, <2>1, RunsSame, Stay
<1>11. CASE PlanRejected(r)
  <2>1. \/ UNCHANGED <<co, runs, batches>>
        \/ /\ runs' = Append(runs, NewRun("turn", Len(batches) + 1, FALSE, TRUE))
           /\ batches' = Append(batches, [lead |-> Len(runs) + 1, st |-> "running"])
           /\ co' = [co EXCEPT !.status = "running", !.cur = Len(runs) + 1, !.act = "", !.at = FALSE,
                               !.seen = comments, !.repair = @ + 1]
        \/ UNCHANGED <<runs, batches>> /\ co' = [Blocked(co) EXCEPT !.act = ""]
    BY <1>11, Zenon DEF PlanRejected
  <2>2. CASE UNCHANGED <<co, runs, batches>>
    BY <1>1, <1>2, <1>6, <2>2, RunsSame, Stay DEF NamesOn
  <2>3. CASE /\ runs' = Append(runs, NewRun("turn", Len(batches) + 1, FALSE, TRUE))
             /\ batches' = Append(batches, [lead |-> Len(runs) + 1, st |-> "running"])
             /\ co' = [co EXCEPT !.status = "running", !.cur = Len(runs) + 1, !.act = "", !.at = FALSE,
                                 !.seen = comments, !.repair = @ + 1]
    <3>1. PICK l \in Nat : l = Len(runs) + 1
      BY <1>1
    <3>2. batches' = Append(batches, [lead |-> l, st |-> "running"])
      BY <2>3, <3>1
    <3>3. RunsOn /\ BatchesOn
      BY <2>3, <3>2, TurnOn, Zenon
    <3>4. NamesOn
      BY <1>1, <2>3 DEF IsRow, NamesOn
    <3> QED
      BY <1>1, <1>2, <3>3, <3>4, Stay
  <2>4. CASE UNCHANGED <<runs, batches>> /\ co' = [Blocked(co) EXCEPT !.act = ""]
    <3>1. NamesOn
      BY <1>1, <2>4 DEF IsRow, Blocked, NamesOn
    <3> QED
      BY <1>1, <1>2, <1>6, <2>4, <3>1, RunsSame, Stay
  <2> QED
    BY <2>1, <2>2, <2>3, <2>4
<1>12. CASE PlanDenied(r)
  <2>1. UNCHANGED runs /\ Block(r)
    BY <1>12 DEF PlanDenied
  <2>2. NamesOn /\ BatchesOn
    BY <2>1, BlockOn
  <2> QED
    BY <1>1, <1>2, <2>1, <2>2, RunsSame, Stay
<1> QED
  BY <1>7, <1>8, <1>9, <1>10, <1>11, <1>12 DEF HookPlan

\* handleCoordinatorSuccess
LEMMA SuccessOn ==
  ASSUME CInv, WInv, NEW r \in Ids, Success(r)
  PROVE  NamesOn /\ BatchesOn /\ WakesOn
<1> DEFINE row == [co EXCEPT !.cur = 0, !.fails = 0]
<1>1. IsRow(co)
  BY DEF CInv, Shapes
<1>2. \/ co' = Blocked(row)
      \/ \E st \in {"queued", "running", "waiting_user"} : co' = [row EXCEPT !.status = st]
  BY DEF Success
<1>3. \/ UNCHANGED <<batches, wakes>>
      \/ batches' = ReplayedBatches /\ wakes' = ReplayedWakes
  BY Zenon DEF Success
<1>4. IsRow(row) /\ row.act = co.act /\ row.settle = co.settle /\ row.retryOf = co.retryOf
  BY <1>1 DEF IsRow
<1> HIDE DEF row
<1>5. co'.act = co.act /\ co'.settle = co.settle /\ co'.retryOf = co.retryOf
  BY <1>2, <1>4 DEF IsRow, Blocked
<1> QED
  BY <1>3, <1>5, BatchesSame, WakesSame, ReplayOn DEF NamesOn

\* handleCoordinatorTerminal and handleCoordinatorWorkerTerminal
LEMMA AdvanceOn == ASSUME CInv, WInv, NEW r \in Ids, HookAdvance(r) \/ HookWorker(r) PROVE WInv'
<1>1. /\ IsRow(co)
      /\ UNCHANGED <<runs, sched, starts>>
      /\ \/ \E stage \in {"advance"} \cup WorkerStages : NextHook(r, stage)
         \/ hooks' = (hooks \ {<<r, "advance">>}) \cup {<<r, WorkerStage(r)>>}
      /\ \/ UNCHANGED <<co, batches, wakes>>
         \/ AdvanceGoverned(r)
         \/ (\E stage \in WorkerStages : AdvanceWorker(r, stage)) /\ runs[r].kind \notin Governed
  BY DEF CInv, Shapes, HookAdvance, HookWorker
<1>2. HooksOn /\ StartsOn
  <2>1. WorkerStage(r) # "settle"
    BY DEF WorkerStage
  <2> QED
    BY <1>1, <2>1, HooksNext DEF StartsOn, HooksOn
<1>3. runs[r].kind \notin Governed => runs[r].kind = "worker"
  BY DEF CInv, Shapes, RunsOK, IsRun, Governed
<1>4. UNCHANGED co => NamesOn
  BY DEF NamesOn
<1>5. co' = Handover(co) => NamesOn
  BY <1>1 DEF NamesOn, Handover, IsRow
<1>6. CASE AdvanceGoverned(r)
  <2>1. \/ UNCHANGED <<co, batches, wakes>>
        \/ Success(r)
        \/ co' = Handover(co) /\ UNCHANGED <<batches, wakes>>
        \/ /\ \E act \in {"repair_plan", "recover"} :
                co' = [co EXCEPT !.status = "waiting_retry", !.cur = 0, !.at = TRUE, !.fails = @ + 1, !.act = act]
           /\ UNCHANGED <<batches, wakes>>
        \/ Block(r) /\ UNCHANGED wakes
    BY <1>6 DEF AdvanceGoverned
  <2>2. ASSUME NEW act \in {"repair_plan", "recover"},
               co' = [co EXCEPT !.status = "waiting_retry", !.cur = 0, !.at = TRUE, !.fails = @ + 1, !.act = act]
        PROVE  NamesOn
    BY <1>1, <2>2 DEF NamesOn, IsRow
  <2>3. NamesOn /\ BatchesOn /\ WakesOn
    BY <1>4, <1>5, <2>1, <2>2, SuccessOn, BlockOn, BatchesSame, WakesSame
  <2> QED
    BY <1>1, <1>2, <2>3, RunsSame, Stay
<1>7. ASSUME NEW stage \in WorkerStages, AdvanceWorker(r, stage), runs[r].kind = "worker" PROVE WInv'
  <2>1. /\ UNCHANGED wakes
        /\ \/ UNCHANGED <<co, batches>>
           \/ /\ \/ co' = [co EXCEPT !.cur = 0, !.act = "", !.retryOf = 0, !.rounds = 0]
                 \/ co' = [co EXCEPT !.cur = 0]
                 \/ co' = Handover(co)
                 \/ co' = [co EXCEPT !.status = "waiting_retry", !.cur = 0, !.at = TRUE,
                                     !.act = "retry_worker", !.retryOf = r]
                 \/ co' = [co EXCEPT !.status = "queued", !.cur = 0, !.act = "", !.retryOf = 0, !.rounds = 1]
              /\ UNCHANGED batches
           \/ Block(r)
    BY <1>7, WorkerWrites
  <2>2. ASSUME \/ co' = [co EXCEPT !.cur = 0, !.act = "", !.retryOf = 0, !.rounds = 0]
               \/ co' = [co EXCEPT !.cur = 0]
               \/ co' = [co EXCEPT !.status = "waiting_retry", !.cur = 0, !.at = TRUE,
                                   !.act = "retry_worker", !.retryOf = r]
               \/ co' = [co EXCEPT !.status = "queued", !.cur = 0, !.act = "", !.retryOf = 0, !.rounds = 1]
        PROVE  NamesOn
    <3>1. \/ co'.act = ""
          \/ co'.act = co.act /\ co'.settle = co.settle /\ co'.retryOf = co.retryOf
          \/ co'.act = "retry_worker" /\ co'.retryOf = r
      BY <1>1, <2>2 DEF IsRow
    <3> QED
      BY <1>7, <3>1 DEF NamesOn
  <2>3. NamesOn /\ BatchesOn /\ WakesOn
    BY <1>4, <1>5, <2>1, <2>2, BlockOn, BatchesSame, WakesSame
  <2> QED
    BY <1>1, <1>2, <2>3, RunsSame, Stay
<1>8. CASE UNCHANGED <<co, batches, wakes>>
  BY <1>1, <1>2, <1>4, <1>8, BatchesSame, WakesSame, RunsSame, Stay
<1> QED
  BY <1>1, <1>3, <1>6, <1>7, <1>8

\* maybeSettleDispatch
LEMMA HookSettleOn == ASSUME CInv, WInv, NEW r \in Ids, HookSettle(r) PROVE WInv'
<1>1. /\ IsRow(co) /\ runs[r].batch # 0
      /\ UNCHANGED <<runs, sched, starts>> /\ NextHook(r, "settle")
  BY DEF CInv, Shapes, HookSettle, WInv, SettleAims
<1>2. HooksOn /\ StartsOn
  BY <1>1, HooksNext DEF StartsOn
<1>3. \/ batches' = SettleTx(r)[1] /\ wakes' = SettleTx(r)[2] /\ co' = ClearSettle(r)
      \/ /\ \/ co' = co
            \/ co' = [co EXCEPT !.status = "waiting_retry", !.cur = 0, !.at = TRUE, !.act = "settle", !.settle = r]
         /\ UNCHANGED <<batches, wakes>>
  BY Zenon DEF HookSettle
<1>4. NamesOn
  BY <1>1, <1>3 DEF ClearSettle, IsRow, NamesOn
<1>5. BatchesOn /\ WakesOn
  BY <1>1, <1>3, SettleOn, BatchesSame, WakesSame
<1> QED
  BY <1>1, <1>2, <1>4, <1>5, RunsSame, Stay

LEMMA EndOn == ASSUME CInv, WInv, NEW r \in Ids, NEW st \in Outcomes, EndRun(r, st) PROVE WInv'
<1>1. /\ runs' = [runs EXCEPT ![r].st = st] /\ hooks' = hooks \cup {FirstHook(r, st)}
      /\ UNCHANGED <<co, batches, wakes, starts, sched>>
  BY DEF EndRun
<1>2. HooksOn /\ NamesOn /\ StartsOn
  BY <1>1 DEF HooksOn, FirstHook, NamesOn, StartsOn
<1>3. BatchesOn
  BY <1>1, BatchesSame
<1>4. RunsOn
  BY <1>1, <1>3, RunEnded
<1>5. WakesOn
  BY <1>1, WakesSame
<1> QED
  BY <1>1, <1>2, <1>3, <1>4, <1>5, Stay

\* ConsumeOne takes a wake, and the wake goes on counting.
LEMMA ClaimOn == ASSUME CInv, WInv, NEW w \in WakeIds, Claim(w) PROVE WInv'
<1>1. /\ sched = 0 /\ wakes[w].st = "queued" /\ sched' = w
      /\ wakes' = [wakes EXCEPT ![w].st = "consumed"]
      /\ UNCHANGED <<co, runs, batches, hooks, starts>>
  BY DEF Claim
<1>2. wakes \in Seq(WakeRow) /\ Len(wakes) \in Nat
  BY DEF WInv, Placed
<1>3. wakes[w] \in WakeRow
  BY <1>2, ElementOfSeq, Zenon DEF WakeIds
<1>4. PICK x : x = [wakes[w] EXCEPT !.st = "consumed"]
  OBVIOUS
<1>5. x \in WakeRow /\ x.batch = wakes[w].batch /\ x.st = "consumed"
  BY <1>3, <1>4 DEF WakeRow
<1>6. wakes' = [wakes EXCEPT ![w] = x]
  BY <1>1, <1>4
<1>7. /\ wakes' \in Seq(WakeRow) /\ Len(wakes') = Len(wakes)
      /\ \A v \in WakeIds : wakes'[v] = IF v = w THEN x ELSE wakes[v]
  BY <1>2, <1>5, <1>6, ExceptSeq DEF WakeIds
<1>8. \A v \in WakeIds : wakes'[v].batch = wakes[v].batch /\ (Token(v)' => Token(v))
  BY <1>1, <1>5, <1>7 DEF Token
<1>9. sched' \in 0 .. Len(wakes) /\ wakes'[sched'].st = "consumed"
  BY <1>1, <1>2, <1>5, <1>7 DEF WakeIds
<1>10. NamesOn /\ HooksOn /\ StartsOn
  BY <1>1 DEF NamesOn, HooksOn, StartsOn
<1> QED
  BY <1>1, <1>7, <1>8, <1>9, <1>10, Fewer

\* createCoordinatorWakeRun: the wake gives way to the summary, or is put back.
LEMMA SummariseOn == ASSUME CInv, WInv, Summarise PROVE WInv'
<1>1. /\ IsRow(co) /\ Placed /\ Collected /\ OneToken /\ TokenOrSum /\ OneSum /\ SettleAims
      /\ wakes \in Seq(WakeRow) /\ Len(wakes) \in Nat /\ RunsOK
  BY DEF CInv, Shapes, WInv, Placed
<1>2. /\ sched \in WakeIds /\ wakes[sched].st = "consumed" /\ sched' = 0
      /\ UNCHANGED <<batches, hooks, starts>>
  BY <1>1 DEF Summarise, Placed, WakeIds
<1>3. HooksOn /\ StartsOn
  BY <1>2 DEF HooksOn, StartsOn
<1>4. CASE UNCHANGED <<co, runs, wakes>>
  <2>1. \A v \in WakeIds : wakes'[v].batch = wakes[v].batch /\ (Token(v)' => Token(v))
    BY <1>2, <1>4 DEF Token, WakeIds
  <2> QED
    BY <1>1, <1>2, <1>3, <1>4, <2>1, Fewer DEF NamesOn
<1>5. CASE wakes' = [wakes EXCEPT ![sched].st = "queued"] /\ UNCHANGED <<co, runs>>
  <2>1. PICK w : w = sched
    OBVIOUS
  <2>2. wakes[w] \in WakeRow
    BY <1>1, <1>2, <2>1, ElementOfSeq, Zenon DEF WakeIds
  <2>3. PICK x : x = [wakes[w] EXCEPT !.st = "queued"]
    OBVIOUS
  <2>4. x \in WakeRow /\ x.batch = wakes[w].batch
    BY <2>2, <2>3 DEF WakeRow
  <2>5. wakes' = [wakes EXCEPT ![w] = x]
    BY <1>5, <2>1, <2>3
  <2>6. /\ wakes' \in Seq(WakeRow) /\ Len(wakes') = Len(wakes)
        /\ \A v \in WakeIds : wakes'[v] = IF v = w THEN x ELSE wakes[v]
    BY <1>1, <1>2, <2>1, <2>4, <2>5, ExceptSeq DEF WakeIds
  <2>7. \A v \in WakeIds : wakes'[v].batch = wakes[v].batch /\ (Token(v)' => Token(v))
    BY <1>2, <2>1, <2>4, <2>6 DEF Token, WakeIds
  <2> QED
    BY <1>1, <1>2, <1>3, <1>5, <2>6, <2>7, Fewer DEF NamesOn
<1>6. CASE /\ runs' = Append(runs, NewRun("turn", wakes[sched].batch, TRUE, FALSE))
           /\ co' = [co EXCEPT !.status = "running", !.cur = Len(runs) + 1, !.at = FALSE]
           /\ UNCHANGED wakes
  <2>1. PICK b, x : b = wakes[sched].batch /\ x = NewRun("turn", b, TRUE, FALSE)
    OBVIOUS
  <2>2. IsRun(x) /\ x.sum /\ x.kind = "turn" /\ x.batch = b
    BY <2>1 DEF NewRun, IsRun
  <2>3. /\ Len(runs) \in Nat /\ Len(runs') = Len(runs) + 1 /\ runs'[Len(runs) + 1] = x
        /\ \A r \in Ids : runs'[r] = runs[r]
    BY <1>1, <1>6, <2>1, <2>2, Added
  <2>4. Ids' = Ids \cup {Len(runs) + 1} /\ RunsKept
    BY <2>3 DEF Ids, RunsKept
  <2>5. WakeIds' = WakeIds /\ \A v \in WakeIds : Token(v)' <=> (Token(v) /\ v # sched)
    BY <1>2, <1>6 DEF WakeIds, Token
  <2>6. Token(sched) /\ Begun(batches, b) /\ b \in 0 .. Len(batches)
    BY <1>1, <1>2, <2>1 DEF Token, Collected, Begun
  <2>12. \A r \in Ids' : \/ r \in Ids /\ runs'[r] = runs[r]
                         \/ r = Len(runs) + 1 /\ runs'[r] = x
    BY <2>3, <2>4
  <2>13. \A r \in Ids : runs[r].sum => runs[r].batch # b
    BY <1>1, <1>2, <2>1, <2>6 DEF TokenOrSum
  <2>14. \A v \in WakeIds : Token(v) /\ v # sched => wakes[v].batch # b
    BY <1>1, <1>2, <2>1, <2>6 DEF OneToken
  <2>7. Placed'
    <3>1. \A r \in Ids' : runs'[r].batch \in 0 .. Len(batches')
      BY <1>1, <1>2, <2>2, <2>6, <2>12 DEF Placed
    <3>2. sched' \in 0 .. Len(wakes') /\ sched' = 0
      BY <1>1, <1>2, <1>6
    <3> QED
      BY <1>1, <1>2, <1>6, <3>1, <3>2 DEF Placed
  <2>8. Collected' /\ OneToken'
    BY <1>1, <1>2, <1>6, <2>2, <2>3, <2>4, <2>5, <2>6 DEF Collected, OneToken
  <2>9. TokenOrSum'
    <3> SUFFICES ASSUME NEW w \in WakeIds', NEW r \in Ids', Token(w)', runs'[r].sum
                 PROVE  runs'[r].batch # wakes'[w].batch
      BY DEF TokenOrSum
    <3>1. w \in WakeIds /\ Token(w) /\ w # sched /\ wakes'[w] = wakes[w]
      BY <1>6, <2>5
    <3>2. CASE r \in Ids /\ runs'[r] = runs[r]
      BY <1>1, <3>1, <3>2 DEF TokenOrSum
    <3>3. CASE runs'[r] = x
      BY <2>2, <2>14, <3>1, <3>3
    <3> QED
      BY <2>12, <3>2, <3>3
  <2>10. OneSum'
    BY <1>1, <2>2, <2>12, <2>13 DEF OneSum
  <2>11. SettleAims'
    <3>1. NamesOn
      BY <1>1, <1>6 DEF IsRow, NamesOn
    <3> QED
      BY <1>1, <1>3, <2>4, <3>1, AimsKept
  <2> QED
    BY <2>7, <2>8, <2>9, <2>10, <2>11 DEF WInv
<1> QED
  BY <1>4, <1>5, <1>6, Zenon DEF Summarise

\* The user, a restart and a stutter.
LEMMA RestOn ==
  ASSUME CInv, WInv, \/ UNCHANGED cvars \/ Comment \/ BlockTask \/ Unblock \/ Crash
                     \/ (\E r \in Ids : CancelRun(r))
  PROVE  WInv'
<1>1. IsRow(co) /\ Placed /\ UNCHANGED <<runs, wakes>>
  BY DEF CInv, Shapes, WInv, cvars, Comment, BlockTask, Unblock, Crash, CancelRun
<1>2. HooksOn
  BY DEF HooksOn, cvars, Comment, BlockTask, Unblock, Crash, CancelRun
<1>3. StartsOn
  <2>1. starts' = starts \/ starts' = [p \in Callers |-> Idle]
    BY DEF cvars, Comment, BlockTask, Unblock, Crash, CancelRun
  <2> QED
    BY <2>1 DEF StartsOn, Idle
<1>4. NamesOn
  <2>1. \/ co' = co \/ co' = Blocked(co) \/ co' = [co EXCEPT !.status = "queued"]
        \/ co' = [co EXCEPT !.status = "queued", !.at = FALSE]
        \/ co' = [co EXCEPT !.status = "queued", !.cur = 0, !.at = FALSE, !.repair = 0, !.held = FALSE]
        \/ co' = [co EXCEPT !.held = FALSE]
    BY DEF cvars, Comment, BlockTask, Unblock, Crash, CancelRun
  <2> QED
    BY <1>1, <2>1 DEF IsRow, Blocked, NamesOn
<1>5. CASE Crash
  <2>1. UNCHANGED batches /\ sched' = 0
    BY <1>5 DEF Crash
  <2>2. \A w \in WakeIds : wakes'[w].batch = wakes[w].batch /\ (Token(w)' => Token(w))
    <3>1. 0 \notin WakeIds
      BY DEF WakeIds
    <3> QED
      BY <1>1, <2>1, <3>1 DEF Token
  <2>3. wakes' \in Seq(WakeRow) /\ Len(wakes') = Len(wakes) /\ 0 \in 0 .. Len(wakes)
    BY <1>1 DEF Placed
  <2> QED
    BY <1>1, <1>2, <1>3, <1>4, <2>1, <2>2, <2>3, Fewer
<1>6. CASE ~Crash
  <2>1. UNCHANGED sched /\ (UNCHANGED batches \/ batches' = Degraded)
    BY <1>6 DEF cvars, Comment, BlockTask, Unblock, CancelRun
  <2>2. BatchesOn
    BY <2>1, BatchesSame, BatchesDegraded
  <2> QED
    BY <1>1, <1>2, <1>3, <1>4, <2>1, <2>2, RunsSame, WakesSame, Stay
<1> QED
  BY <1>5, <1>6

LEMMA NextWInv == ASSUME CInv, WInv, [CNext]_cvars PROVE WInv'
<1>1. CASE \E p \in Callers : Start(p)
  BY <1>1, StartOn
<1>2. CASE \E r \in Ids : Hook(r)
  BY <1>2, PlanOn, AdvanceOn, HookSettleOn DEF Hook
<1>3. CASE \E r \in Ids, st \in Outcomes : EndRun(r, st)
  BY <1>3, EndOn
<1>4. CASE Consume
  BY <1>4, ClaimOn, SummariseOn DEF Consume, WakeIds
<1>5. CASE \/ UNCHANGED cvars \/ Comment \/ BlockTask \/ Unblock \/ Crash
           \/ (\E r \in Ids : CancelRun(r))
  BY <1>5, RestOn
<1> QED
  BY <1>1, <1>2, <1>3, <1>4, <1>5 DEF CNext

LEMMA InitWInv == CoordinatorInit => WInv
<1> SUFFICES ASSUME CoordinatorInit PROVE WInv
  OBVIOUS
<1>1. /\ runs = <<>> /\ batches = <<>> /\ wakes = <<>> /\ hooks = {} /\ sched = 0 /\ co.act = ""
      /\ \A p \in Callers : starts[p].do = "none"
  BY DEF CoordinatorInit, Idle
<1>2. /\ Len(runs) = 0 /\ Len(wakes) = 0
      /\ batches \in Seq(BatchRow) /\ wakes \in Seq(WakeRow)
  BY <1>1, EmptySeq
<1>3. Ids = {} /\ WakeIds = {} /\ 0 \in 0 .. Len(wakes)
  BY <1>2 DEF Ids, WakeIds
<1>4. Placed
  <2>1. sched = 0
    BY <1>1
  <2> QED
    BY <1>2, <1>3, <2>1, Zenon DEF Placed
<1> QED
  BY <1>1, <1>3, <1>4 DEF WInv, Collected, OneToken, TokenOrSum, OneSum, SettleAims, Names

-----------------------------------------------------------------------------
\* A batch is summarised once: whatever order its members end in, and whether
\* its wake is put back, repaired, replayed or lost with the scheduler that had
\* it, there is never a second summary run of it and never a second wake that
\* is queued for it.
THEOREM SummarisedOnce == CSpec => []SettledOnce
<1>1. CInv /\ WInv => SettledOnce
  <2> SUFFICES ASSUME CInv, WInv, NEW b \in 1 .. Len(batches)
               PROVE  /\ Cardinality({r \in Members(b) : runs[r].sum}) <= 1
                      /\ Cardinality({w \in 1 .. Len(wakes) : wakes[w].batch = b /\ wakes[w].st = "queued"}) <= 1
    BY DEF SettledOnce
  <2>1. Len(runs) \in Nat /\ Len(wakes) \in Nat /\ OneToken /\ OneSum
    BY DEF CInv, Shapes, RunsOK, WInv, Placed
  <2>2. /\ {r \in Members(b) : runs[r].sum} \in SUBSET (1 .. Len(runs))
        /\ \A x, y \in {r \in Members(b) : runs[r].sum} : x = y
    BY <2>1 DEF OneSum, Members, Ids
  <2>3. /\ {w \in 1 .. Len(wakes) : wakes[w].batch = b /\ wakes[w].st = "queued"} \in SUBSET (1 .. Len(wakes))
        /\ \A x, y \in {w \in 1 .. Len(wakes) : wakes[w].batch = b /\ wakes[w].st = "queued"} : x = y
    BY <2>1 DEF OneToken, Token, WakeIds
  <2> QED
    BY <2>1, <2>2, <2>3, AtMostOne
<1>2. CoordinatorInit => WInv
  BY InitWInv
<1>3. CInv /\ WInv /\ [CNext]_cvars => WInv'
  BY NextWInv
<1> QED
  BY <1>1, <1>2, <1>3, LineHolds, PTL DEF CSpec

-----------------------------------------------------------------------------
(* Batches close only when their participants have ended                    *)

ClosesOn ==
  \A b \in Open : batches'[b].st \notin OpenBatch =>
    co'.status = "blocked" \/ \A r \in Participants(b) : runs'[r].st # "live"

\* The five ways in which the batches change.
LEMMA BatchSteps ==
  ASSUME CInv, WInv, [CNext]_cvars
  PROVE  \/ UNCHANGED batches
         \/ \E l : batches' = Append(batches, [lead |-> l, st |-> "running"])
         \/ batches' = Degraded /\ co'.status = "blocked"
         \/ UNCHANGED runs /\ \E r \in Ids : runs[r].batch # 0 /\ batches' = SettleTx(r)[1]
         \/ UNCHANGED runs /\ batches' = ReplayedBatches
<1> DEFINE Goal == \/ UNCHANGED batches
                   \/ \E l : batches' = Append(batches, [lead |-> l, st |-> "running"])
                   \/ batches' = Degraded /\ co'.status = "blocked"
                   \/ UNCHANGED runs /\ \E r \in Ids : runs[r].batch # 0 /\ batches' = SettleTx(r)[1]
                   \/ UNCHANGED runs /\ batches' = ReplayedBatches
<1>1. IsRow(co) /\ SettleAims
  BY DEF CInv, Shapes, WInv
<1>2. Blocked(co).status = "blocked"
  BY <1>1 DEF Blocked, IsRow
<1>3. ASSUME NEW r, Block(r) PROVE UNCHANGED batches \/ (batches' = Degraded /\ co'.status = "blocked")
  BY <1>2, <1>3 DEF Block
<1>4. ASSUME NEW p \in Callers, Start(p) PROVE Goal
  <2>1. CASE StartRead(p) \/ StartRetry(p) \/ Launch(p) \/ StartReplay(p)
    BY <2>1 DEF StartRead, StartRetry, Launch, StartReplay
  <2>2. CASE StartTurn(p)
    BY <2>2, Zenon DEF StartTurn, NewTurn
  <2>3. CASE StartFails(p)
    BY <1>3, <2>3 DEF StartFails
  <2>4. CASE StartSettle(p)
    <3>1. Settling => co.settle \in Ids /\ runs[co.settle].batch # 0
      BY <1>1 DEF SettleAims, Names, Settling
    <3> QED
      BY <2>4, <3>1, Zenon DEF StartSettle
  <2> QED
    BY <1>4, <2>1, <2>2, <2>3, <2>4 DEF Start
<1>5. ASSUME NEW r \in Ids, HookPlan(r) PROVE Goal
  <2>1. ASSUME NEW n \in 1 .. MaxWorkers, Dispatch(r, n) PROVE Goal
    BY <2>1, Zenon DEF Dispatch
  <2>2. PlanRejected(r) => Goal
    BY Zenon DEF PlanRejected
  <2>3. PlanDenied(r) => Goal
    BY <1>3 DEF PlanDenied
  <2>4. Verdict(r) \/ FinishEvaluated(r) \/ FinishPlain(r) \/ PlanKnown(r) => UNCHANGED batches
    BY DEF Verdict, FinishEvaluated, FinishPlain, PlanKnown
  <2> QED
    BY <1>5, <2>1, <2>2, <2>3, <2>4 DEF HookPlan
<1>6. ASSUME NEW r \in Ids, HookAdvance(r) \/ HookWorker(r) PROVE Goal
  <2>1. /\ UNCHANGED runs
        /\ \/ UNCHANGED batches
           \/ AdvanceGoverned(r)
           \/ \E stage \in WorkerStages : AdvanceWorker(r, stage)
    BY <1>6 DEF HookAdvance, HookWorker
  <2>2. Success(r) => UNCHANGED batches \/ batches' = ReplayedBatches
    BY Zenon DEF Success
  <2>3. AdvanceGoverned(r) => UNCHANGED batches \/ Success(r) \/ Block(r)
    BY DEF AdvanceGoverned
  <2>4. \A stage \in WorkerStages : AdvanceWorker(r, stage) => UNCHANGED batches \/ Block(r)
    BY DEF AdvanceWorker, WorkerStages
  <2> QED
    BY <1>3, <2>1, <2>2, <2>3, <2>4
<1>7. ASSUME NEW r \in Ids, HookSettle(r) PROVE Goal
  <2>1. runs[r].batch # 0 /\ UNCHANGED runs /\ (UNCHANGED batches \/ batches' = SettleTx(r)[1])
    BY <1>1, <1>7 DEF HookSettle, SettleAims
  <2> QED
    BY <2>1
<1>8. BlockTask => Goal
  BY <1>2 DEF BlockTask
<1>9. ASSUME \/ UNCHANGED cvars \/ Consume \/ Comment \/ Unblock \/ Crash
             \/ (\E r \in Ids : CancelRun(r)) \/ (\E r \in Ids, st \in Outcomes : EndRun(r, st))
      PROVE  UNCHANGED batches
  BY <1>9 DEF cvars, Consume, Summarise, Claim, Comment, Unblock, Crash, CancelRun, EndRun
<1> HIDE DEF Goal
<1>10. Goal
  <2>1. UNCHANGED batches => Goal
    BY DEF Goal
  <2> QED
    BY <1>4, <1>5, <1>6, <1>7, <1>8, <1>9, <2>1 DEF CNext, Hook
<1> QED
  BY <1>10 DEF Goal

\* A batch that settling closes has no participant at work.
LEMMA SettleCloses ==
  ASSUME CInv, WInv, NEW r \in Ids, runs[r].batch # 0, NEW c \in Open,
         SettleTx(r)[1][c].st \notin OpenBatch
  PROVE  \A q \in Participants(c) : ~Live(q)
<1>1. PICK b : b = runs[r].batch
  OBVIOUS
<1>2. c \in 1 .. Len(batches) /\ batches[c].st \in OpenBatch
  BY DEF Open
<1>3. CASE SettleTx(r) = <<batches, wakes>>
  BY <1>2, <1>3
<1>4. ASSUME NEW st \in {"completed", "degraded", "cancelled"},
             \A q \in Participants(b) : ~Live(q), SettleTx(r) = <<Restated(b, st), wakes>>
      PROVE  \A q \in Participants(c) : ~Live(q)
  <2>1. c # b => SettleTx(r)[1][c] = batches[c]
    BY <1>2, <1>4 DEF Restated
  <2> QED
    BY <1>2, <1>4, <2>1
<1>5. CASE SettleTx(r) = <<Restated(b, "collecting"), Append(wakes, [batch |-> b, st |-> "queued"])>>
  <2>1. "collecting" \in BatchStatus /\ "collecting" \in OpenBatch /\ b \in 1 .. Len(batches)
    BY <1>1, SettleMoves DEF BatchStatus, OpenBatch
  <2>2. SettleTx(r)[1] = Restated(b, "collecting")
    BY <1>5
  <2>3. c = b \/ SettleTx(r)[1][c] = batches[c]
    BY <1>2, <2>1, <2>2, BatchMoved
  <2>4. SettleTx(r)[1][b].st = "collecting"
    BY <2>1, <2>2, BatchMoved
  <2> QED
    BY <1>2, <2>1, <2>3, <2>4
<1> QED
  BY <1>1, <1>3, <1>4, <1>5, SettleMoves

\* A batch that still has a participant at work leaves the open states only
\* when the task is blocked with it: a settlement, on time, put off or replayed,
\* never reports on Workers that have not ended.
THEOREM ClosesWhenEnded == CSpec => ClosesComplete
<1>1. ASSUME CInv, WInv, [CNext]_cvars PROVE ClosesOn
  <2>0. batches \in Seq(BatchRow)
    BY <1>1 DEF WInv, Placed
  <2>1. CASE UNCHANGED batches
    BY <2>1 DEF ClosesOn, Open
  <2>2. ASSUME NEW l, batches' = Append(batches, [lead |-> l, st |-> "running"]) PROVE ClosesOn
    <3>1. \A b \in 1 .. Len(batches) : batches'[b] = batches[b]
      BY <2>0, <2>2
    <3> QED
      BY <3>1 DEF ClosesOn, Open
  <2>3. CASE co'.status = "blocked"
    BY <2>3 DEF ClosesOn
  <2>4. ASSUME UNCHANGED runs, NEW r \in Ids, runs[r].batch # 0, batches' = SettleTx(r)[1] PROVE ClosesOn
    BY <1>1, <2>4, SettleCloses DEF ClosesOn, Live
  <2>5. CASE UNCHANGED runs /\ batches' = ReplayedBatches
    <3> SUFFICES ASSUME NEW b \in Open, batches'[b].st \notin OpenBatch
                 PROVE  \A q \in Participants(b) : runs'[q].st # "live"
      BY DEF ClosesOn
    <3>1. b \in 1 .. Len(batches) /\ batches[b].st \in OpenBatch /\ b # 0
      BY DEF Open
    <3>2. batches'[b] = IF b \in Settleable THEN SettleTx(Candidate(b))[1][b] ELSE batches[b]
      BY <2>5, <3>1 DEF ReplayedBatches
    <3>3. b \in Settleable
      BY <3>1, <3>2
    <3>4. Candidate(b) \in Ids /\ runs[Candidate(b)].batch = b
      BY <1>1, <3>3, CandidateMember DEF Members
    <3>5. \A q \in Participants(b) : ~Live(q)
      BY <1>1, <3>1, <3>2, <3>3, <3>4, SettleCloses
    <3> QED
      BY <2>5, <3>5 DEF Live
  <2> QED
    BY <1>1, <2>1, <2>2, <2>3, <2>4, <2>5, BatchSteps
<1>2. CoordinatorInit => WInv
  BY InitWInv
<1>3. CInv /\ WInv /\ [CNext]_cvars => WInv'
  BY NextWInv
<1>4. CInv /\ WInv /\ [CNext]_cvars => [ClosesOn]_cvars
  BY <1>1
<1> QED
  BY <1>2, <1>3, <1>4, LineHolds, PTL DEF CSpec, ClosesComplete, ClosesOn
=============================================================================
