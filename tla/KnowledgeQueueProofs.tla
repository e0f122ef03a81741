------------------------ MODULE KnowledgeQueueProofs ------------------------
(***************************************************************************)
(* Proofs about the queue of a knowledge library, for any number of tasks, *)
(* turns, retries, cancellations and restarts: nothing that was completed  *)
(* is lost, the official files are those of the current release once the   *)
(* queue rests, and no staging directory is emptied under its turn: until  *)
(* a retry overtakes the worker, and for the last two until a run outlives *)
(* its process.                                                            *)
(***************************************************************************)
EXTENDS KnowledgeQueue, TLAPS

Content == [by : Nat, final : BOOLEAN, good : BOOLEAN]
TaskRow == [kind : {"write", "reindex"}, st : Statuses, run : Nat, staged : BOOLEAN,
            att : Nat, rep : Nat, turn : Nat]
RunRow == [task : Nat, purpose : {"turn", "repair"}, turn : Nat, st : {"active", "succeeded", "failed"}]
PubRow == [st : {"none", "prepared", "committed", "abandoned"}, rel : Nat]
RelRow == [task : Nat, content : Content, docs : SUBSET Nat]
WorkSteps == {"unbound", "requeue", "claim", "prepare", "dispatch", "bind", "ingest",
              "publish", "files", "seal", "rebuild"}
Worker == [pc : WorkSteps \cup {"idle", "reseal"}, k : Nat, t : TaskRow, c : Content, rel : Nat]
Handler == [pc : {"idle", "retry", "cancel", "cancelled"}, k : Nat, t : TaskRow]

Rels == 1 .. Len(rels)
RunIds == 1 .. Len(runs)
Busy == w.pc \in WorkSteps
At(k) == Busy /\ w.k = k

\* Rows have their shapes, and what they name exists.
Shapes ==
  /\ tasks \in Seq(TaskRow) /\ runs \in Seq(RunRow) /\ rels \in Seq(RelRow)
  /\ staging \in Seq(Content) /\ Len(staging) = Len(tasks)
  /\ pubs \in Seq(PubRow) /\ Len(pubs) = Len(tasks)
  /\ current \in 0 .. Len(rels)
  /\ w \in Worker /\ (w.pc # "idle" => w.k \in Ids)
  /\ op \in Handler /\ (op.pc # "idle" => op.k \in Ids)
Named ==
  /\ \A k \in Ids : pubs[k].rel \in 0 .. Len(rels) /\ (pubs[k].st = "none" => pubs[k].rel = 0)
  /\ \A r \in Rels : rels[r].task \in Ids /\ pubs[rels[r].task].rel # 0
  /\ \A r \in RunIds : runs[r].task \in Ids /\ tasks[runs[r].task].kind = "write"
  /\ \A k \in Ids : staging[k].good => staging[k].by \in RunIds /\ runs[staging[k].by].task = k

\* Behind a task that is not over, or that the worker is at, nobody has been served.
Order ==
  \A i, j \in Ids : i < j /\ (OccupiesHead(tasks[i]) \/ At(i)) =>
    tasks[j].st \in {"queued", "cancelled"} /\ pubs[j] = NoPub

\* The worker is at the head, with a copy of a row that nobody but a
\* cancellation has changed; an operator revives what has not ended.
Holds(x, row) ==
  /\ row.st \in {"queued", "running", "retry_wait", "cancelled"}
  /\ x.t.kind = row.kind
  /\ \/ x.t.st \in {"queued", "running", "retry_wait"}
     \/ x.pc = "bind" /\ x.t.st = "completed" /\ x.t.kind = "reindex"
  /\ x.pc \in {"claim", "bind"} \/ (x.t.kind = "reindex" <=> x.pc = "rebuild")
AtHead ==
  /\ Busy => Holds(w, tasks[w.k]) /\ \A i \in Ids : i < w.k => ~OccupiesHead(tasks[i])
  /\ op.pc # "idle" => op.t.kind = tasks[op.k].kind
  /\ op.pc = "retry" => OccupiesHead(op.t)

\* A publication that is announced is the only one, and that of the worker's task.
Announced ==
  /\ \A k \in Ids : OccupiesHead(tasks[k]) \/ At(k) => pubs[k].st \in {"none", "prepared"}
  /\ \A k \in Ids : pubs[k].st # "none" => tasks[k].kind = "write"
  /\ \A j, k \in Ids : pubs[j].st = "prepared" /\ (pubs[k].st = "prepared" \/ At(k)) => j = k
  /\ w.pc \in {"files", "seal", "reseal"} => pubs[w.k].st = "prepared" /\ pubs[w.k].rel # 0
  /\ w.pc = "reseal" => ~OccupiesHead(tasks[w.k])

\* An announced release builds on the live one.
Builds ==
  \A k \in Ids : pubs[k].st = "prepared" /\ pubs[k].rel # 0 =>
    /\ k \in rels[pubs[k].rel].docs
    /\ current # 0 => rels[current].docs \subseteq rels[pubs[k].rel].docs

\* The invariant behind AllLive, as long as no retry has overtaken the worker.
QueueInv == Shapes /\ Named /\ Order /\ AtHead /\ Announced /\ Builds /\ AllLive

\* A turn at work is the one its task's row is bound to, or about to be.
TurnBound(r) ==
  LET k == runs[r].task IN
    IF At(k) THEN w.t.run = r /\ w.pc \in {"bind", "ingest"} /\ (w.pc = "bind" => w.t.st = "running")
    ELSE OccupiesHead(tasks[k]) => tasks[k].st = "running" /\ tasks[k].run = r
Turns == \A r \in Active : TurnBound(r)
TurnsBound == used.outlived \/ Turns
Counted == used \in [retries : Nat, cancels : Nat, crashes : Nat, outlived : BOOLEAN, raced : BOOLEAN]
\* What is ingested is what the row of the head says.
InStep ==
  w.pc = "ingest" => \/ tasks[w.k].st = "cancelled"
                     \/ tasks[w.k].st = "running" /\ tasks[w.k].run = w.t.run

\* What older releases of a task were made of does not come again.
NoReturn ==
  \A r \in Rels : LET k == rels[r].task
                      c == rels[r].content IN
    /\ c.good /\ c.by \in RunIds /\ runs[c.by].task = k
    /\ r # pubs[k].rel => c # staging[k] /\ c.by \notin Active
Fresh ==
  /\ w.pc = "publish" =>
       /\ w.c = staging[w.k] /\ w.c.good
       /\ \A r \in Rels : rels[r].task = w.k => rels[r].content # w.c
  /\ w.pc \in {"files", "seal"} => w.rel = pubs[w.k].rel

Agree(r) == files = IF r = 0 THEN [rel |-> 0, docs |-> {}]
                    ELSE [rel |-> r, docs |-> FirstPage(rels[r].docs)]
\* The files are those of the current release, unless one is announced.
Unannounced == \A k \in Ids : pubs[k].st = "prepared" => pubs[k].rel = 0
FilesInv ==
  /\ Unannounced => Agree(current)
  /\ w.pc \in {"seal", "reseal"} => Agree(pubs[w.k].rel)

Queued == Counted /\ (~used.raced => QueueInv)
TurnInv == Counted /\ (~used.raced => QueueInv /\ InStep /\ TurnsBound)
ContentInv == Counted /\ (~used.raced /\ ~used.outlived =>
                            QueueInv /\ InStep /\ Turns /\ NoReturn /\ Fresh /\ FilesInv)

-----------------------------------------------------------------------------
(* The kinds of steps that write rows                                       *)

LEMMA Basics ==
  ASSUME Shapes
  PROVE  /\ Len(tasks) \in Nat /\ Ids = 1 .. Len(tasks) /\ Ids \subseteq Nat
         /\ Len(rels) \in Nat /\ Rels = 1 .. Len(rels)
         /\ (w.pc # "idle" => w.k \in Ids) /\ (op.pc # "idle" => op.k \in Ids)
         /\ current \in Nat /\ (current # 0 => current \in Rels)
BY DEF Shapes, Ids, Rels

LEMMA Rows ==
  ASSUME Shapes
  PROVE  /\ \A k \in Ids : tasks[k] \in TaskRow /\ pubs[k] \in PubRow /\ staging[k] \in Content
         /\ \A r \in Rels : rels[r] \in RelRow
         /\ \A r \in RunIds : runs[r] \in RunRow
         /\ w \in Worker /\ op \in Handler
BY DEF Shapes, Ids, Rels, RunIds

\* Task k alone may change, and keeps its kind.
RowsBut(k) ==
  /\ tasks' \in Seq(TaskRow) /\ Len(tasks') = Len(tasks)
  /\ \A j \in Ids : tasks'[j].kind = tasks[j].kind /\ (j # k => tasks'[j] = tasks[j])
PubsBut(k) ==
  /\ pubs' \in Seq(PubRow) /\ Len(pubs') = Len(pubs)
  /\ \A j \in Ids : j # k => pubs'[j] = pubs[j]
RelsKept ==
  /\ rels' \in Seq(RelRow) /\ Len(rels) <= Len(rels')
  /\ \A r \in Rels : rels'[r] = rels[r]

BuildsOn(k) ==
  pubs'[k].st = "prepared" /\ pubs'[k].rel # 0 =>
    /\ k \in rels'[pubs'[k].rel].docs
    /\ current # 0 => rels[current].docs \subseteq rels'[pubs'[k].rel].docs

\* A step of the worker on its task, which may end it only if it is a rebuild.
WorkStep ==
  /\ Busy /\ RowsBut(w.k) /\ PubsBut(w.k) /\ RelsKept /\ current' = current /\ op' = op
  /\ tasks'[w.k].st = "completed" => tasks[w.k].kind = "reindex"
  /\ pubs'[w.k].st \in {"none", "prepared"}
  /\ pubs'[w.k].st # "none" => tasks[w.k].kind = "write"
  /\ BuildsOn(w.k)
  /\ \/ w'.pc = "idle"
     \/ /\ w'.pc \in WorkSteps /\ w'.k = w.k /\ Holds(w', tasks'[w.k])
        /\ w'.pc \in {"files", "seal"} => pubs'[w.k].st = "prepared" /\ pubs'[w.k].rel # 0

LEMMA WorkKept ==
  ASSUME QueueInv, WorkStep, Shapes', Named'
  PROVE  QueueInv'
<1>1. Shapes /\ Order /\ AtHead /\ Announced /\ Builds /\ AllLive /\ Named
  BY DEF QueueInv
<1>2. /\ Ids' = Ids /\ w.k \in Ids /\ Ids \subseteq Nat /\ Busy /\ At(w.k)
      /\ current' = current /\ op' = op
  BY <1>1, Basics DEF WorkStep, RowsBut, Ids, Busy, WorkSteps, At
<1>3. /\ \A j \in Ids : tasks'[j].kind = tasks[j].kind /\ (j # w.k => tasks'[j] = tasks[j])
      /\ \A j \in Ids : j # w.k => pubs'[j] = pubs[j]
  BY DEF WorkStep, RowsBut, PubsBut
<1>4. \A i : At(i)' => i = w.k
  BY DEF WorkStep, At, Busy, WorkSteps
<1>5. \A i \in Ids : i < w.k => ~OccupiesHead(tasks[i])
  BY <1>1, <1>2 DEF AtHead
<1>6. Order'
  <2> SUFFICES ASSUME NEW i \in Ids, NEW j \in Ids, i < j, OccupiesHead(tasks'[i]) \/ At(i)'
               PROVE  tasks'[j].st \in {"queued", "cancelled"} /\ pubs'[j] = NoPub
    BY <1>2 DEF Order
  <2>1. OccupiesHead(tasks[i]) \/ i = w.k
    BY <1>3, <1>4
  <2>2. j # w.k
    BY <1>2, <1>5, <2>1
  <2>3. tasks[j].st \in {"queued", "cancelled"} /\ pubs[j] = NoPub
    BY <1>1, <1>2, <2>1 DEF Order
  <2> QED
    BY <1>3, <2>2, <2>3
<1>7. AtHead'
  <2>1. op.pc # "idle" => op.t.kind = tasks'[op.k].kind
    BY <1>1, <1>3, Basics DEF AtHead
  <2>2. ASSUME Busy' PROVE Holds(w', tasks'[w'.k]) /\ \A i \in Ids : i < w'.k => ~OccupiesHead(tasks'[i])
    <3>1. w'.k = w.k /\ Holds(w', tasks'[w.k])
      BY <2>2 DEF WorkStep, Busy, WorkSteps
    <3>2. ASSUME NEW i \in Ids, i < w.k PROVE ~OccupiesHead(tasks'[i])
      <4>1. i # w.k
        BY <1>2, <3>2
      <4>2. tasks'[i] = tasks[i]
        BY <1>3, <4>1
      <4> QED
        BY <1>5, <3>2, <4>2
    <3> QED
      BY <3>1, <3>2
  <2>3. op'.pc = "retry" => OccupiesHead(op'.t)
    BY <1>1, <1>2 DEF AtHead
  <2> QED
    BY <1>2, <2>1, <2>2, <2>3 DEF AtHead
<1>8. Announced'
  <2>1. ASSUME NEW k \in Ids, OccupiesHead(tasks'[k]) \/ At(k)' PROVE pubs'[k].st \in {"none", "prepared"}
    <3>1. CASE k = w.k
      BY <3>1 DEF WorkStep
    <3>2. CASE k # w.k
      BY <1>1, <1>3, <1>4, <2>1, <3>2 DEF Announced
    <3> QED
      BY <3>1, <3>2
  <2>2. ASSUME NEW k \in Ids, pubs'[k].st # "none" PROVE tasks'[k].kind = "write"
    <3>1. CASE k = w.k
      BY <1>3, <2>2, <3>1 DEF WorkStep
    <3>2. CASE k # w.k
      BY <1>1, <1>3, <2>2, <3>2 DEF Announced
    <3> QED
      BY <3>1, <3>2
  <2>3. ASSUME NEW k \in Ids, pubs'[k].st = "prepared" PROVE k = w.k
    BY <1>1, <1>2, <1>3, <2>3 DEF Announced
  <2>4. w'.pc \in {"files", "seal", "reseal"} => pubs'[w'.k].st = "prepared" /\ pubs'[w'.k].rel # 0
    BY DEF WorkStep, WorkSteps
  <2>5. w'.pc # "reseal"
    BY DEF WorkStep, WorkSteps
  <2> QED
    BY <1>2, <1>4, <2>1, <2>2, <2>3, <2>4, <2>5 DEF Announced
<1>9. Builds'
  <2>1. \A r \in Rels : rels'[r] = rels[r]
    BY DEF WorkStep, RelsKept
  <2>2. current # 0 => rels'[current] = rels[current]
    BY <1>1, <2>1, Basics
  <2> SUFFICES ASSUME NEW k \in Ids, pubs'[k].st = "prepared", pubs'[k].rel # 0
               PROVE  /\ k \in rels'[pubs'[k].rel].docs
                      /\ current # 0 => rels'[current].docs \subseteq rels'[pubs'[k].rel].docs
    BY <1>2 DEF Builds
  <2>3. k = w.k
    BY <1>1, <1>2, <1>3 DEF Announced
  <2>4. BuildsOn(k)
    BY <2>3 DEF WorkStep
  <2> QED
    BY <2>2, <2>4 DEF BuildsOn
<1>10. AllLive'
  <2> SUFFICES ASSUME NEW k \in Ids, tasks'[k].kind = "write", tasks'[k].st = "completed"
               PROVE  current # 0 /\ k \in rels'[current].docs
    BY <1>2 DEF AllLive
  <2>1. k # w.k
    BY <1>3 DEF WorkStep
  <2>2. current # 0 /\ k \in rels[current].docs
    BY <1>1, <1>3, <2>1 DEF AllLive
  <2>3. rels'[current] = rels[current]
    BY <1>1, <2>2, Basics DEF WorkStep, RelsKept
  <2> QED
    BY <2>2, <2>3
<1> QED
  BY <1>6, <1>7, <1>8, <1>9, <1>10 DEF QueueInv

\* The task is completed and its release made the current one.
SealStep ==
  /\ w.pc \in {"seal", "reseal"} /\ RowsBut(w.k) /\ PubsBut(w.k) /\ rels' = rels /\ op' = op
  /\ tasks'[w.k].st = "completed"
  /\ pubs'[w.k].st = "committed"
  /\ current' = pubs[w.k].rel /\ w'.pc = "idle"

LEMMA SealKept ==
  ASSUME QueueInv, SealStep, Shapes', Named'
  PROVE  QueueInv'
<1>1. Shapes /\ Order /\ AtHead /\ Announced /\ Builds /\ AllLive /\ Named
  BY DEF QueueInv
<1>2. /\ Ids' = Ids /\ w.k \in Ids /\ Ids \subseteq Nat /\ op' = op /\ rels' = rels
      /\ pubs[w.k].st = "prepared" /\ pubs[w.k].rel # 0
  BY <1>1, Basics DEF SealStep, RowsBut, Ids, Announced
<1>3. /\ \A j \in Ids : tasks'[j].kind = tasks[j].kind /\ (j # w.k => tasks'[j] = tasks[j])
      /\ \A j \in Ids : j # w.k => pubs'[j] = pubs[j]
  BY DEF SealStep, RowsBut, PubsBut
<1>4. ~Busy' /\ w'.pc = "idle" /\ ~OccupiesHead(tasks'[w.k])
  BY DEF SealStep, Busy, WorkSteps, OccupiesHead, Terminal
<1>6. Order'
  <2> SUFFICES ASSUME NEW i \in Ids, NEW j \in Ids, i < j, OccupiesHead(tasks'[i])
               PROVE  tasks'[j].st \in {"queued", "cancelled"} /\ pubs'[j] = NoPub
    BY <1>2, <1>4 DEF Order, At
  <2>1. OccupiesHead(tasks[i])
    BY <1>3, <1>4
  <2>2. tasks[j].st \in {"queued", "cancelled"} /\ pubs[j] = NoPub
    BY <1>1, <2>1 DEF Order
  <2>3. j # w.k
    BY <1>2, <2>2 DEF NoPub
  <2> QED
    BY <1>3, <2>2, <2>3
<1>7. AtHead'
  <2>1. op.pc # "idle" => op.k \in Ids /\ op.t.kind = tasks'[op.k].kind
    BY <1>1, <1>3, Basics DEF AtHead
  <2>2. op.pc = "retry" => OccupiesHead(op.t)
    BY <1>1 DEF AtHead
  <2> QED
    BY <1>2, <1>4, <2>1, <2>2 DEF AtHead
<1>8. \A k \in Ids : pubs'[k].st # "prepared"
  <2> SUFFICES ASSUME NEW k \in Ids, pubs'[k].st = "prepared" PROVE FALSE
    OBVIOUS
  <2>1. k # w.k
    BY DEF SealStep
  <2> QED
    BY <1>1, <1>2, <1>3, <2>1, ZenonT(40) DEF Announced
<1>9. Announced'
  <2>1. ASSUME NEW k \in Ids, OccupiesHead(tasks'[k]) PROVE pubs'[k].st \in {"none", "prepared"}
    BY <1>1, <1>3, <1>4, <2>1 DEF Announced
  <2>2. ASSUME NEW k \in Ids, pubs'[k].st # "none" PROVE tasks'[k].kind = "write"
    <3>1. CASE k = w.k
      BY <1>1, <1>2, <1>3, <3>1 DEF Announced
    <3>2. CASE k # w.k
      BY <1>1, <1>3, <2>2, <3>2 DEF Announced
    <3> QED
      BY <3>1, <3>2
  <2> QED
    BY <1>2, <1>4, <1>8, <2>1, <2>2 DEF Announced, At
<1>10. AllLive'
  <2> SUFFICES ASSUME NEW k \in Ids, tasks'[k].kind = "write", tasks'[k].st = "completed"
               PROVE  pubs[w.k].rel # 0 /\ k \in rels[pubs[w.k].rel].docs
    BY <1>2 DEF AllLive, SealStep
  <2>1. CASE k = w.k
    BY <1>1, <1>2, <2>1 DEF Builds
  <2>2. CASE k # w.k
    <3>1. current # 0 /\ k \in rels[current].docs
      BY <1>1, <1>3, <2>2 DEF AllLive
    <3> QED
      BY <1>1, <1>2, <3>1 DEF Builds
  <2> QED
    BY <2>1, <2>2
<1> QED
  BY <1>2, <1>6, <1>7, <1>8, <1>9, <1>10 DEF QueueInv, Builds

-----------------------------------------------------------------------------
(* Rows that are written                                                    *)

LEMMA Updated ==
  ASSUME Shapes, NEW k \in Ids, NEW t \in TaskRow, t.kind = tasks[k].kind, UpdateTask(k, t)
  PROVE  /\ RowsBut(k)
         /\ tasks'[k] = t \/ tasks'[k] = tasks[k]
         /\ t.st # "running" => tasks'[k] = t
<1>1. tasks \in Seq(TaskRow) /\ k \in 1 .. Len(tasks) /\ k \in DOMAIN tasks
  BY DEF Shapes, Ids
<1>2. CASE tasks' = tasks
  BY <1>1, <1>2 DEF RowsBut, UpdateTask
<1>3. CASE tasks' = [tasks EXCEPT ![k] = t]
  BY <1>1, <1>3 DEF RowsBut, Ids
<1> QED
  BY <1>2, <1>3 DEF UpdateTask

LEMMA NotRow ==
  Resting \in Worker /\ NoOp \in Handler /\ NoRow \in TaskRow /\ Empty \in Content /\ NoPub \in PubRow
BY DEF Resting, NoOp, NoRow, Empty, NoPub, Worker, Handler, TaskRow, Content, PubRow, Statuses, WorkSteps

LEMMA Restated ==
  ASSUME NEW t \in TaskRow, NEW s \in Statuses
  PROVE  /\ [t EXCEPT !.st = s] \in TaskRow
         /\ [t EXCEPT !.st = s].kind = t.kind /\ [t EXCEPT !.st = s].st = s
BY DEF TaskRow

\* Runs may be added for a task with a write, or end; a staging directory is
\* emptied, or written by a run of its task.
RunsKept ==
  /\ runs' \in Seq(RunRow) /\ Len(runs) <= Len(runs')
  /\ \A r \in RunIds : runs'[r].task = runs[r].task
  /\ \A r \in RunIds' \ RunIds : runs'[r].task \in Ids /\ tasks[runs'[r].task].kind = "write"
StagingSound ==
  /\ staging' \in Seq(Content) /\ Len(staging') = Len(staging)
  /\ \A k \in Ids : \/ staging'[k] = staging[k]
                    \/ ~staging'[k].good
                    \/ staging'[k].by \in RunIds /\ runs[staging'[k].by].task = k

LEMMA NamedKept ==
  ASSUME Shapes, Named, NEW k, RowsBut(k), RunsKept, StagingSound, UNCHANGED <<pubs, rels>>
  PROVE  Named'
<1>1. /\ Ids' = Ids /\ Rels' = Rels
      /\ \A j \in Ids : tasks'[j].kind = tasks[j].kind
      /\ RunIds \subseteq RunIds'
  BY DEF RowsBut, Ids, Rels, RunIds, RunsKept, Shapes
<1>2. ASSUME NEW r \in RunIds' PROVE runs'[r].task \in Ids /\ tasks'[runs'[r].task].kind = "write"
  BY <1>1, <1>2 DEF Named, RunsKept
<1>3. ASSUME NEW j \in Ids, staging'[j].good PROVE staging'[j].by \in RunIds' /\ runs'[staging'[j].by].task = j
  BY <1>1, <1>3 DEF Named, RunsKept, StagingSound
<1>4. /\ \A j \in Ids : pubs'[j].rel \in 0 .. Len(rels') /\ (pubs'[j].st = "none" => pubs'[j].rel = 0)
      /\ \A r \in Rels : rels'[r].task \in Ids /\ pubs'[rels'[r].task].rel # 0
  BY DEF Named
<1> QED
  BY <1>1, <1>2, <1>3, <1>4 DEF Named

LEMMA NothingMoved ==
  ASSUME Shapes
  PROVE  /\ UNCHANGED runs => RunsKept
         /\ UNCHANGED staging => StagingSound
         /\ \A k : UNCHANGED pubs => PubsBut(k)
         /\ \A k : UNCHANGED tasks => RowsBut(k)
         /\ UNCHANGED rels => RelsKept
BY DEF Shapes, RunsKept, RunIds, StagingSound, PubsBut, RowsBut, RelsKept, Ids, Rels

LEMMA ShapesKept ==
  ASSUME Shapes, NEW k, RowsBut(k), PubsBut(k), RelsKept, RunsKept, StagingSound,
         current' \in 0 .. Len(rels'),
         w' \in Worker, w'.pc # "idle" => w'.k \in Ids, op' \in Handler, op'.pc # "idle" => op'.k \in Ids
  PROVE  Shapes'
<1>1. Ids' = Ids
  BY DEF RowsBut, Ids
<1> QED
  BY <1>1 DEF Shapes, RowsBut, PubsBut, RelsKept, RunsKept, StagingSound

\* A step of the worker that writes neither journal nor release.
RowStep ==
  /\ Busy /\ RowsBut(w.k) /\ RunsKept /\ StagingSound /\ UNCHANGED <<pubs, rels, current, op>>
  /\ w' \in Worker
  /\ tasks'[w.k].st = "completed" => tasks[w.k].kind = "reindex"
  /\ \/ w'.pc = "idle"
     \/ /\ w'.pc \in WorkSteps /\ w'.k = w.k /\ Holds(w', tasks'[w.k])
        /\ w'.pc \in {"files", "seal"} => pubs[w.k].st = "prepared" /\ pubs[w.k].rel # 0

LEMMA RowKept ==
  ASSUME QueueInv, RowStep
  PROVE  QueueInv'
<1>1. Shapes /\ Named /\ Announced /\ Builds /\ w.k \in Ids /\ At(w.k)
  BY Basics DEF QueueInv, RowStep, Busy, WorkSteps, At
<1>2. PubsBut(w.k) /\ RelsKept
  BY <1>1, NothingMoved DEF RowStep
<1>3. Shapes'
  BY <1>1, <1>2, ShapesKept DEF RowStep, Shapes, WorkSteps
<1>4. Named'
  BY <1>1, NamedKept DEF RowStep
<1>5. WorkStep
  <2>1. /\ pubs'[w.k].st \in {"none", "prepared"}
        /\ pubs'[w.k].st # "none" => tasks[w.k].kind = "write"
    BY <1>1 DEF Announced, RowStep
  <2>2. BuildsOn(w.k)
    BY <1>1 DEF Builds, BuildsOn, RowStep
  <2> QED
    BY <1>2, <2>1, <2>2 DEF WorkStep, RowStep
<1> QED
  BY <1>3, <1>4, <1>5, WorkKept

-----------------------------------------------------------------------------
(* The steps of the worker on its task                                      *)

LEMMA Working ==
  ASSUME QueueInv, Busy
  PROVE  /\ Shapes /\ Named /\ w.k \in Ids /\ At(w.k) /\ w \in Worker
         /\ w.t \in TaskRow /\ tasks[w.k] \in TaskRow /\ w.t.kind = tasks[w.k].kind
         /\ tasks[w.k].st \in {"queued", "running", "retry_wait", "cancelled"}
         /\ \/ w.t.st \in {"queued", "running", "retry_wait"}
            \/ w.pc = "bind" /\ w.t.st = "completed" /\ w.t.kind = "reindex"
         /\ w.pc \in {"claim", "bind"} \/ (w.t.kind = "reindex" <=> w.pc = "rebuild")
BY Basics, Rows DEF QueueInv, Busy, WorkSteps, At, AtHead, Holds, Worker, Shapes

\* A copy with another status is written back, and the worker rests or goes on.
LEMMA WrittenBack ==
  ASSUME QueueInv, Busy, NEW t \in TaskRow, t.kind = tasks[w.k].kind, UpdateTask(w.k, t),
         t.st # "completed" \/ t.kind = "reindex", w' = Resting,
         RunsKept, StagingSound, UNCHANGED <<pubs, rels, current, op>>
  PROVE  RowStep
<1>1. /\ Shapes /\ w.k \in Ids
      /\ tasks[w.k].st \in {"queued", "running", "retry_wait", "cancelled"}
  BY Working
<1>2. RowsBut(w.k) /\ (tasks'[w.k] = t \/ tasks'[w.k] = tasks[w.k])
  BY <1>1, Updated
<1>3. tasks'[w.k].st = "completed" => tasks[w.k].kind = "reindex"
  BY <1>1, <1>2
<1>4. w' \in Worker /\ w'.pc = "idle"
  BY NotRow DEF Resting
<1> QED
  BY <1>2, <1>3, <1>4 DEF RowStep

LEMMA Blocked ==
  ASSUME QueueInv, Busy, NEW t \in TaskRow, t.kind = tasks[w.k].kind, Block(w.k, t),
         RunsKept, StagingSound, UNCHANGED <<pubs, rels, current, op>>
  PROVE  RowStep
<1>1. "blocked" \in Statuses
  BY DEF Statuses
<1>2. [t EXCEPT !.st = "blocked"] \in TaskRow /\ [t EXCEPT !.st = "blocked"].kind = t.kind
      /\ [t EXCEPT !.st = "blocked"].st = "blocked"
  BY <1>1, Restated
<1> QED
  BY <1>2, WrittenBack DEF Block

LEMMA Deferred ==
  ASSUME QueueInv, Busy, Defer(w.k, w.t),
         RunsKept, StagingSound, UNCHANGED <<pubs, rels, current, op>>
  PROVE  RowStep
<1> DEFINE spent == [w.t EXCEPT !.att = @ + 1]
<1>1. spent \in TaskRow /\ spent.kind = tasks[w.k].kind
  BY Working DEF TaskRow
<1>2. Block(w.k, spent) \/ (UpdateTask(w.k, [spent EXCEPT !.st = "retry_wait"]) /\ w' = Resting)
  BY DEF Defer
<1> HIDE DEF spent
<1>3. "retry_wait" \in Statuses
  BY DEF Statuses
<1>4. [spent EXCEPT !.st = "retry_wait"] \in TaskRow /\ [spent EXCEPT !.st = "retry_wait"].kind = spent.kind
      /\ [spent EXCEPT !.st = "retry_wait"].st = "retry_wait"
  BY <1>1, <1>3, Restated
<1> QED
  BY <1>1, <1>2, <1>4, Blocked, WrittenBack

LEMMA StillRuns ==
  ASSUME QueueInv, Busy, UNCHANGED <<runs, staging>>
  PROVE  RunsKept /\ StagingSound
BY Working, NothingMoved

LEMMA UnboundKeeps == ASSUME QueueInv, Unbound PROVE QueueInv'
<1>1. Busy
  BY DEF Unbound, Busy, WorkSteps
<1> QED
  BY <1>1, Working, StillRuns, Blocked, RowKept DEF Unbound

LEMMA RequeueKeeps == ASSUME QueueInv, Requeue PROVE QueueInv'
<1>1. Busy
  BY DEF Requeue, Busy, WorkSteps
<1>2. "queued" \in Statuses
  BY DEF Statuses
<1>3. [w.t EXCEPT !.st = "queued"] \in TaskRow /\ [w.t EXCEPT !.st = "queued"].kind = w.t.kind
      /\ [w.t EXCEPT !.st = "queued"].st = "queued"
  BY <1>1, <1>2, Working, Restated
<1> QED
  BY <1>1, <1>3, Working, StillRuns, WrittenBack, RowKept DEF Requeue

LEMMA BindKeeps == ASSUME QueueInv, Bind PROVE QueueInv'
<1>1. Busy
  BY DEF Bind, Busy, WorkSteps
<1> QED
  BY <1>1, Working, StillRuns, WrittenBack, RowKept DEF Bind

LEMMA ClaimedFor ==
  ASSUME NEW t
  PROVE  /\ AfterClaim(t) \in {"rebuild", "prepare", "ingest"}
         /\ t.kind = "reindex" <=> AfterClaim(t) = "rebuild"
<1>1. CASE t.kind = "reindex"
  BY <1>1 DEF AfterClaim
<1>2. CASE t.kind # "reindex" /\ t.st = "queued" /\ ~(t.staged /\ SucceededRun(t.run))
  BY <1>2 DEF AfterClaim
<1>3. CASE t.kind # "reindex" /\ ~(t.st = "queued" /\ ~(t.staged /\ SucceededRun(t.run)))
  BY <1>3 DEF AfterClaim
<1> QED
  BY <1>1, <1>2, <1>3

LEMMA ClaimKeeps == ASSUME QueueInv, Claim PROVE QueueInv'
<1>1. Busy /\ w.pc = "claim" /\ UNCHANGED <<runs, staging, pubs, rels, current, op>>
  BY DEF Claim, Busy, WorkSteps
<1>2. RunsKept /\ StagingSound
  BY <1>1, StillRuns
<1>3. CASE w' = Resting /\ UNCHANGED tasks
  <2>1. RowsBut(w.k) /\ w' \in Worker /\ w'.pc = "idle"
    BY <1>1, <1>3, Working, NothingMoved, NotRow DEF Resting
  <2>2. tasks'[w.k].st # "completed"
    BY <1>1, <1>3, Working
  <2> QED
    BY <1>1, <1>2, <2>1, <2>2, RowKept DEF RowStep
<1>4. ASSUME /\ tasks' = [tasks EXCEPT ![w.k].st = "running"]
             /\ w' = [w EXCEPT !.pc = AfterClaim(w.t), !.t = [tasks[w.k] EXCEPT !.st = "running"]]
      PROVE  QueueInv'
  <2> DEFINE row == [tasks[w.k] EXCEPT !.st = "running"]
  <2>1. row \in TaskRow /\ row.kind = tasks[w.k].kind /\ row.st = "running"
    BY <1>1, Working, Restated DEF Statuses
  <2>2. tasks' = [tasks EXCEPT ![w.k] = row]
    BY <1>4
  <2>3. tasks \in Seq(TaskRow) /\ w.k \in 1 .. Len(tasks)
    BY <1>1, Working DEF Shapes, Ids
  <2> HIDE DEF row
  <2>4. RowsBut(w.k) /\ tasks'[w.k] = row
    BY <2>1, <2>2, <2>3 DEF RowsBut, Ids
  <2>5. /\ AfterClaim(w.t) \in {"rebuild", "prepare", "ingest"}
        /\ w.t.kind = "reindex" <=> AfterClaim(w.t) = "rebuild"
    BY ClaimedFor
  <2>6. w' = [w EXCEPT !.pc = AfterClaim(w.t), !.t = row]
    BY <1>4 DEF row
  <2>7. w' \in Worker /\ w'.pc = AfterClaim(w.t) /\ w'.k = w.k /\ w'.t = row
    BY <1>1, <2>1, <2>5, <2>6, Working DEF Worker, WorkSteps
  <2>8. Holds(w', tasks'[w.k])
    BY <1>1, <2>1, <2>4, <2>5, <2>7, Working DEF Holds
  <2> QED
    BY <1>1, <1>2, <2>1, <2>4, <2>5, <2>7, <2>8, RowKept DEF RowStep, WorkSteps
<1> QED
  BY <1>3, <1>4 DEF Claim

LEMMA MovedOn ==
  ASSUME QueueInv, Busy, w.pc \notin {"claim", "bind", "rebuild"},
         NEW t \in TaskRow, t.kind = w.t.kind, t.st \in {"queued", "running", "retry_wait"},
         NEW pc \in {"dispatch", "bind", "ingest", "publish", "files", "seal"},
         w'.pc = pc, w'.k = w.k, w'.t = t,
         RowsBut(w.k), tasks'[w.k] = tasks[w.k] \/ tasks'[w.k].st \in {"queued", "running", "retry_wait"}
  PROVE  /\ w'.pc \in WorkSteps /\ Holds(w', tasks'[w.k])
         /\ tasks'[w.k].st # "completed"
<1>1. /\ w.k \in Ids /\ w.t.kind = tasks[w.k].kind /\ w.t.kind # "reindex"
      /\ tasks[w.k].st \in {"queued", "running", "retry_wait", "cancelled"}
  BY Working
<1>2. tasks'[w.k].kind = tasks[w.k].kind
  BY <1>1 DEF RowsBut
<1> QED
  BY <1>1, <1>2 DEF Holds, WorkSteps

LEMMA PrepareKeeps == ASSUME QueueInv, Prepare PROVE QueueInv'
<1>1. Busy /\ w.pc = "prepare" /\ UNCHANGED <<runs, pubs, rels, current, op>>
  BY DEF Prepare, Busy, WorkSteps
<1>2. RunsKept
  BY <1>1, Working, NothingMoved
<1>3. CASE Defer(w.k, w.t) /\ UNCHANGED staging
  BY <1>1, <1>2, <1>3, Working, StillRuns, Deferred, RowKept
<1>4. ASSUME staging' = [staging EXCEPT ![w.k] = Empty], UpdateTask(w.k, [w.t EXCEPT !.staged = TRUE]),
             w' = [w EXCEPT !.pc = "dispatch", !.t.staged = TRUE]
      PROVE  QueueInv'
  <2> DEFINE t == [w.t EXCEPT !.staged = TRUE]
  <2>1. /\ t \in TaskRow /\ t.kind = w.t.kind /\ t.st = w.t.st
        /\ t.st \in {"queued", "running", "retry_wait"}
    BY <1>1, Working DEF TaskRow
  <2>2. w' = [w EXCEPT !.pc = "dispatch", !.t = t] /\ UpdateTask(w.k, t)
    BY <1>4
  <2> HIDE DEF t
  <2>3. w' \in Worker /\ w'.pc = "dispatch" /\ w'.k = w.k /\ w'.t = t
    BY <1>1, <2>1, <2>2, Working DEF Worker, WorkSteps
  <2>4. RowsBut(w.k) /\ (tasks'[w.k] = t \/ tasks'[w.k] = tasks[w.k])
    BY <1>1, <2>1, <2>2, Working, Updated
  <2>5. w'.pc \in WorkSteps /\ Holds(w', tasks'[w.k]) /\ tasks'[w.k].st # "completed"
    BY <1>1, <2>1, <2>3, <2>4, MovedOn
  <2>6. StagingSound
    BY <1>1, <1>4, Working, NotRow DEF StagingSound, Shapes, Ids, Empty
  <2> QED
    BY <1>1, <1>2, <2>3, <2>4, <2>5, <2>6, RowKept DEF RowStep
<1> QED
  BY <1>3, <1>4 DEF Prepare

LEMMA RunAdded ==
  ASSUME Shapes, NEW k \in Ids, tasks[k].kind = "write", NEW purpose \in {"turn", "repair"},
         NEW n \in Nat, NEW s \in {"active", "succeeded", "failed"}, NewRun(k, purpose, n, s)
  PROVE  RunsKept /\ Len(runs) + 1 \in Nat
<1> DEFINE r == [task |-> k, purpose |-> purpose, turn |-> n, st |-> s]
<1>1. runs \in Seq(RunRow) /\ r \in RunRow /\ runs' = Append(runs, r) /\ r.task = k
  BY Basics DEF Shapes, RunRow, NewRun
<1> HIDE DEF r
<1>2. /\ runs' \in Seq(RunRow) /\ Len(runs') = Len(runs) + 1 /\ Len(runs) \in Nat
      /\ \A i \in 1 .. Len(runs) : runs'[i] = runs[i]
      /\ runs'[Len(runs) + 1] = r
  BY <1>1
<1>3. ASSUME NEW i \in RunIds' \ RunIds PROVE runs'[i] = r
  <2>1. i = Len(runs) + 1
    BY <1>2 DEF RunIds
  <2> QED
    BY <1>2, <2>1
<1> QED
  BY <1>1, <1>2, <1>3 DEF RunsKept, RunIds

LEMMA TurnsTyped ==
  ASSUME QueueInv, Busy
  PROVE  NextTurn(w.k, w.t) \in Nat /\ w.t.turn + 1 \in Nat
BY Working DEF NextTurn, TaskRow

\* The worker goes on to bind a turn it has started, or found.
LEMMA BoundKeeps ==
  ASSUME QueueInv, Busy, w.pc \in {"dispatch", "ingest"}, UNCHANGED <<tasks, staging, pubs, rels, current, op>>,
         RunsKept, NEW t \in TaskRow, t.kind = w.t.kind, t.st = "running",
         w' = [w EXCEPT !.pc = "bind", !.t = t]
  PROVE  QueueInv'
<1>1. w' \in Worker /\ w'.pc = "bind" /\ w'.k = w.k /\ w'.t = t
  BY Working DEF Worker, WorkSteps
<1>2. RowsBut(w.k) /\ StagingSound
  BY Working, NothingMoved
<1>3. w'.pc \in WorkSteps /\ Holds(w', tasks'[w.k]) /\ tasks'[w.k].st # "completed"
  BY <1>1, <1>2, MovedOn
<1> QED
  BY <1>1, <1>2, <1>3, RowKept DEF RowStep

LEMMA DispatchKeeps == ASSUME QueueInv, Dispatch PROVE QueueInv'
<1> DEFINE n == NextTurn(w.k, w.t)
           next(r) == [w.t EXCEPT !.run = r, !.turn = n, !.st = "running"]
<1>1. Busy /\ w.pc = "dispatch" /\ UNCHANGED <<staging, pubs, rels, current, op>>
  BY DEF Dispatch, Busy, WorkSteps
<1>2. /\ Shapes /\ w.k \in Ids /\ tasks[w.k].kind = "write" /\ w.t.kind = "write" /\ w.t \in TaskRow
      /\ n \in Nat
  BY <1>1, Working, TurnsTyped DEF TaskRow
<1>3. ASSUME NEW r \in Nat, w' = [w EXCEPT !.pc = "bind", !.t = next(r)], RunsKept, UNCHANGED tasks
      PROVE  QueueInv'
  <2>1. next(r) \in TaskRow /\ next(r).kind = w.t.kind /\ next(r).st = "running"
    BY <1>2, <1>3 DEF TaskRow, Statuses
  <2> HIDE DEF next
  <2> QED
    BY <1>1, <1>3, <2>1, BoundKeeps
<1>4. RunsKept
  <2>1. CASE UNCHANGED runs
    BY <1>2, <2>1, NothingMoved
  <2>2. CASE NewRun(w.k, "turn", n, "active") \/ NewRun(w.k, "turn", n, "failed")
    BY <1>2, <2>2, RunAdded
  <2> QED
    BY <2>1, <2>2 DEF Dispatch
<1>5. CASE KeyedRuns(w.k, "turn", n) # {}
  <2>1. /\ UNCHANGED tasks
        /\ \E r \in KeyedRuns(w.k, "turn", n) :
             w' = [w EXCEPT !.pc = "bind", !.t = next(r)]
    BY <1>5 DEF Dispatch
  <2>2. KeyedRuns(w.k, "turn", n) \subseteq Nat
    BY DEF KeyedRuns
  <2> QED
    BY <1>3, <1>4, <2>1, <2>2
<1>6. CASE Defer(w.k, w.t)
  BY <1>1, <1>2, <1>4, <1>6, Working, NothingMoved, Deferred, RowKept
<1>7. CASE UNCHANGED tasks /\ w' = [w EXCEPT !.pc = "bind", !.t = next(Len(runs) + 1)]
  <2>1. Len(runs) + 1 \in Nat
    BY <1>2 DEF Shapes
  <2> HIDE DEF next
  <2> QED
    BY <1>3, <1>4, <1>7, <2>1
<1> QED
  BY <1>5, <1>6, <1>7 DEF Dispatch

LEMMA Repaired ==
  ASSUME NEW t \in TaskRow, NEW a \in Nat, NEW n \in Nat
  PROVE  /\ [t EXCEPT !.rep = a + 1, !.turn = n] \in TaskRow
         /\ [t EXCEPT !.rep = a + 1, !.turn = n].kind = t.kind
<1>1. a + 1 \in Nat
  OBVIOUS
<1> QED
  BY <1>1 DEF TaskRow

LEMMA RepairKeeps ==
  ASSUME QueueInv, Busy, w.pc = "ingest", Repair(w.k, w.t), UNCHANGED <<staging, pubs, rels, current, op>>
  PROVE  QueueInv'
<1> DEFINE n == w.t.turn + 1
           next == [w.t EXCEPT !.rep = @ + 1, !.turn = n]
           bound == [next EXCEPT !.run = Len(runs) + 1, !.st = "running"]
<1>1. /\ Shapes /\ w.k \in Ids /\ tasks[w.k].kind = "write" /\ w.t.kind = "write" /\ w.t \in TaskRow
      /\ n \in Nat
  BY Working, TurnsTyped DEF TaskRow
<1>2. next \in TaskRow /\ next.kind = w.t.kind
  <2>1. w.t.rep \in Nat
    BY <1>1 DEF TaskRow
  <2> QED
    BY <1>1, <2>1, Repaired
<1>3. bound \in TaskRow /\ bound.kind = w.t.kind /\ bound.st = "running"
  <2>1. Len(runs) + 1 \in Nat
    BY <1>1 DEF Shapes
  <2> HIDE DEF next
  <2> QED
    BY <1>2, <2>1 DEF TaskRow, Statuses
<1> HIDE DEF next, bound
<1>4. RunsKept
  <2>1. CASE UNCHANGED runs
    BY <1>1, <2>1, NothingMoved
  <2>2. CASE NewRun(w.k, "repair", n, "active") \/ NewRun(w.k, "repair", n, "failed")
    BY <1>1, <2>2, RunAdded
  <2> QED
    BY <2>1, <2>2 DEF Repair
<1>5. \/ Block(w.k, w.t) \/ Block(w.k, next)
      \/ UNCHANGED tasks /\ w' = [w EXCEPT !.pc = "bind", !.t = bound]
  BY DEF Repair, next, bound
<1>6. CASE Block(w.k, w.t) \/ Block(w.k, next)
  <2>1. StagingSound
    BY <1>1, NothingMoved
  <2> QED
    BY <1>1, <1>2, <1>4, <1>6, <2>1, Blocked, RowKept
<1>7. CASE UNCHANGED tasks /\ w' = [w EXCEPT !.pc = "bind", !.t = bound]
  BY <1>3, <1>4, <1>7, BoundKeeps
<1> QED
  BY <1>5, <1>6, <1>7

LEMMA IngestKeeps == ASSUME QueueInv, Ingest PROVE QueueInv'
<1> DEFINE c == staging[w.k]
<1>1. Busy /\ w.pc = "ingest" /\ UNCHANGED <<staging, rels, current, op>>
  BY DEF Ingest, Busy, WorkSteps
<1>2. /\ Shapes /\ Named /\ Announced /\ Builds /\ w.k \in Ids /\ At(w.k) /\ w \in Worker /\ w.t \in TaskRow
      /\ w.t.st \in {"queued", "running", "retry_wait"} /\ tasks[w.k].kind = "write"
      /\ tasks[w.k].st # "completed" /\ c \in Content
  BY <1>1, Working, Rows DEF QueueInv, TaskRow
<1>3. StagingSound /\ RelsKept /\ (UNCHANGED runs => RunsKept) /\ (UNCHANGED tasks => RowsBut(w.k))
  BY <1>1, <1>2, NothingMoved
<1>4. CASE w' = Resting /\ UNCHANGED <<tasks, events, runs, pubs>>
  <2>1. RowStep
    BY <1>1, <1>2, <1>3, <1>4, NotRow DEF RowStep, Resting
  <2> QED
    BY <2>1, RowKept
<1>5. CASE Defer(w.k, w.t) /\ UNCHANGED <<runs, pubs>>
  BY <1>1, <1>3, <1>5, Deferred, RowKept
<1>6. CASE Repair(w.k, w.t) /\ UNCHANGED pubs
  BY <1>1, <1>6, RepairKeeps
<1>7. ASSUME NEW r \in SameContent(w.k, c), w' = [w EXCEPT !.pc = "files", !.rel = r],
             UNCHANGED <<tasks, runs, pubs>>
      PROVE  QueueInv'
  <2>1. r \in Rels /\ r \in Nat /\ rels[r].task = w.k
    BY <1>7 DEF SameContent, Rels
  <2>2. pubs[w.k].rel # 0 /\ pubs[w.k].st = "prepared"
    BY <1>2, <2>1 DEF Named, Announced
  <2>3. w' \in Worker /\ w'.pc = "files" /\ w'.k = w.k /\ w'.t = w.t
    BY <1>2, <1>7, <2>1 DEF Worker, WorkSteps
  <2>4. w'.pc \in WorkSteps /\ Holds(w', tasks'[w.k])
    BY <1>1, <1>2, <1>3, <1>7, <2>3, MovedOn
  <2>5. RowStep
    BY <1>1, <1>2, <1>3, <1>7, <2>2, <2>3, <2>4 DEF RowStep
  <2> QED
    BY <2>5, RowKept
<1>8. ASSUME w' = [w EXCEPT !.pc = "publish", !.c = c], UNCHANGED <<tasks, runs>>,
             pubs' = [pubs EXCEPT ![w.k] = IF @.st = "none" THEN [st |-> "prepared", rel |-> 0] ELSE @]
      PROVE  QueueInv'
  <2> DEFINE pub == IF pubs[w.k].st = "none" THEN [st |-> "prepared", rel |-> 0] ELSE pubs[w.k]
  <2>1. w' \in Worker /\ w'.pc = "publish" /\ w'.k = w.k /\ w'.t = w.t
    BY <1>2, <1>8 DEF Worker, WorkSteps
  <2>2. w'.pc \in WorkSteps /\ Holds(w', tasks'[w.k])
    BY <1>1, <1>2, <1>3, <1>8, <2>1, MovedOn
  <2>3. pub \in PubRow /\ pub.st = "prepared" /\ pub.rel = pubs[w.k].rel
    BY <1>2, Rows DEF PubRow, Announced, Named
  <2>4. pubs \in Seq(PubRow) /\ Len(pubs) = Len(tasks) /\ pubs' = [pubs EXCEPT ![w.k] = pub]
    BY <1>2, <1>8 DEF Shapes
  <2> HIDE DEF pub
  <2>5. PubsBut(w.k) /\ pubs'[w.k] = pub
    BY <1>2, <2>3, <2>4 DEF PubsBut, Ids
  <2>6. Shapes'
    BY <1>1, <1>2, <1>3, <1>8, <2>1, <2>5, ShapesKept DEF Shapes
  <2>7. \A j \in Ids : pubs'[j].rel = pubs[j].rel /\ (pubs'[j].st = "none" => pubs[j].st = "none")
    BY <2>3, <2>5 DEF PubsBut
  <2>8. Named'
    BY <1>1, <1>2, <1>8, <2>7 DEF Named, Ids, Rels, RunIds
  <2>9. BuildsOn(w.k)
    <3>1. ASSUME pubs[w.k].rel # 0 PROVE pubs[w.k].st = "prepared"
      BY <1>2, <3>1 DEF Announced, Named
    <3> QED
      BY <1>1, <1>2, <2>3, <2>5, <3>1 DEF BuildsOn, Builds
  <2>10. WorkStep
    BY <1>1, <1>2, <1>3, <1>8, <2>1, <2>2, <2>3, <2>5, <2>9 DEF WorkStep
  <2> QED
    BY <2>6, <2>8, <2>10, WorkKept
<1> QED
  BY <1>4, <1>5, <1>6, <1>7, <1>8 DEF Ingest

LEMMA WriteFilesKeeps == ASSUME QueueInv, WriteFiles PROVE QueueInv'
<1>1. Busy /\ w.pc = "files" /\ UNCHANGED <<runs, staging, pubs, rels, current, op>>
  BY DEF WriteFiles, Busy, WorkSteps
<1>2. CASE Defer(w.k, w.t)
  BY <1>1, <1>2, StillRuns, Deferred, RowKept
<1>3. CASE w' = [w EXCEPT !.pc = "seal"] /\ UNCHANGED tasks
  <2>1. w' \in Worker /\ w'.pc = "seal" /\ w'.k = w.k /\ w'.t = w.t
    BY <1>1, <1>3, Working DEF Worker, WorkSteps
  <2>2. RowsBut(w.k) /\ pubs[w.k].st = "prepared" /\ pubs[w.k].rel # 0
    BY <1>1, <1>3, Working, NothingMoved DEF QueueInv, Announced
  <2>3. w'.pc \in WorkSteps /\ Holds(w', tasks'[w.k]) /\ tasks'[w.k].st # "completed"
    BY <1>1, <1>3, <2>1, <2>2, Working, MovedOn
  <2> QED
    BY <1>1, <2>1, <2>2, <2>3, StillRuns, RowKept DEF RowStep
<1> QED
  BY <1>2, <1>3 DEF WriteFiles

LEMMA RebuildKeeps == ASSUME QueueInv, Rebuild PROVE QueueInv'
<1>1. Busy /\ w.pc = "rebuild" /\ UNCHANGED <<runs, staging, pubs, rels, current, op>>
  BY DEF Rebuild, Busy, WorkSteps
<1>2. CASE Defer(w.k, w.t)
  BY <1>1, <1>2, StillRuns, Deferred, RowKept
<1>3. ASSUME w' = [w EXCEPT !.pc = "bind", !.t.st = "completed"], UNCHANGED tasks PROVE QueueInv'
  <2> DEFINE t == [w.t EXCEPT !.st = "completed"]
  <2>1. t \in TaskRow /\ t.kind = w.t.kind /\ t.st = "completed"
    BY <1>1, Working, Restated DEF Statuses, Terminal
  <2>2. w' = [w EXCEPT !.pc = "bind", !.t = t]
    BY <1>3
  <2> HIDE DEF t
  <2>3. w' \in Worker /\ w'.pc = "bind" /\ w'.k = w.k /\ w'.t = t
    BY <1>1, <2>1, <2>2, Working DEF Worker, WorkSteps
  <2>4. RowsBut(w.k) /\ tasks'[w.k] = tasks[w.k]
    BY <1>1, <1>3, Working, NothingMoved
  <2>5. Holds(w', tasks'[w.k]) /\ tasks'[w.k].st # "completed"
    BY <1>1, <2>1, <2>3, <2>4, Working DEF Holds
  <2> QED
    BY <1>1, <2>3, <2>4, <2>5, StillRuns, RowKept DEF RowStep, WorkSteps
<1> QED
  BY <1>2, <1>3 DEF Rebuild

LEMMA PublishKeeps == ASSUME QueueInv, Publish PROVE QueueInv'
<1> DEFINE n == Len(rels) + 1
           new == [task |-> w.k, content |-> w.c, docs |-> Carried \cup {w.k}]
           pub == IF pubs[w.k].st = "none" THEN [st |-> "prepared", rel |-> n] ELSE [pubs[w.k] EXCEPT !.rel = n]
<1>1. Busy /\ w.pc = "publish" /\ UNCHANGED <<runs, staging, current, op>>
  BY DEF Publish, Busy, WorkSteps
<1>2. /\ Shapes /\ Named /\ Announced /\ w.k \in Ids /\ At(w.k) /\ w \in Worker /\ w.t \in TaskRow
      /\ w.t.st \in {"queued", "running", "retry_wait"} /\ tasks[w.k].kind = "write"
      /\ tasks[w.k].st # "completed"
  BY <1>1, Working DEF QueueInv, TaskRow
<1>3. RunsKept /\ StagingSound
  BY <1>1, StillRuns
<1>4. CASE Defer(w.k, w.t) /\ UNCHANGED <<rels, pubs>>
  BY <1>1, <1>3, <1>4, Deferred, RowKept
<1>5. ASSUME rels' = Append(rels, new), pubs' = [pubs EXCEPT ![w.k] = pub],
             w' = [w EXCEPT !.pc = "files", !.rel = n], UNCHANGED tasks
      PROVE  QueueInv'
  <2>1. rels \in Seq(RelRow) /\ n \in Nat /\ n = Len(rels) + 1 /\ n # 0 /\ Len(rels) \in Nat
    BY <1>2 DEF Shapes
  <2>2. current # 0 => rels[current].docs \subseteq Nat
    BY <1>2, Basics, Rows DEF RelRow
  <2>3. new \in RelRow /\ new.task = w.k /\ w.k \in new.docs
        /\ (current # 0 => rels[current].docs \subseteq new.docs)
    BY <1>2, <2>2, Basics DEF RelRow, Carried, Worker
  <2>4. pub \in PubRow /\ pub.st = "prepared" /\ pub.rel = n
    BY <1>2, <2>1, Rows DEF PubRow, Announced
  <2> HIDE DEF new, pub, n
  <2>5. /\ rels' \in Seq(RelRow) /\ Len(rels') = n /\ rels'[n] = new
        /\ \A r \in 1 .. Len(rels) : rels'[r] = rels[r]
    BY <1>5, <2>1, <2>3
  <2>6. RelsKept /\ Rels' = Rels \cup {n}
    BY <2>1, <2>5 DEF RelsKept, Rels
  <2>7. PubsBut(w.k) /\ pubs'[w.k] = pub
    BY <1>2, <1>5, <2>4 DEF PubsBut, Ids, Shapes
  <2>8. w' \in Worker /\ w'.pc = "files" /\ w'.k = w.k /\ w'.t = w.t
    BY <1>2, <1>5, <2>1 DEF Worker, WorkSteps
  <2>9. RowsBut(w.k) /\ Ids' = Ids /\ RunIds' = RunIds
    BY <1>1, <1>2, <1>5, NothingMoved DEF Ids, RunIds
  <2>10. Shapes'
    <3>1. current' \in 0 .. Len(rels')
      BY <1>1, <1>2, <2>1, <2>5 DEF Shapes
    <3> QED
      BY <1>1, <1>2, <1>3, <2>6, <2>7, <2>8, <2>9, <3>1, ShapesKept DEF Shapes
  <2>11. \A k \in Ids : pubs'[k].rel \in 0 .. Len(rels') /\ (pubs'[k].st = "none" => pubs'[k].rel = 0)
    <3> SUFFICES ASSUME NEW k \in Ids
                 PROVE  pubs'[k].rel \in 0 .. Len(rels') /\ (pubs'[k].st = "none" => pubs'[k].rel = 0)
      OBVIOUS
    <3>1. CASE k = w.k
      BY <2>1, <2>4, <2>5, <2>7, <3>1
    <3>2. CASE k # w.k
      <4>1. pubs'[k] = pubs[k] /\ pubs[k].rel \in 0 .. Len(rels) /\ (pubs[k].st = "none" => pubs[k].rel = 0)
        BY <1>2, <2>7, <3>2 DEF PubsBut, Named
      <4> QED
        BY <2>1, <2>5, <4>1
    <3> QED
      BY <3>1, <3>2
  <2>12. \A r \in Rels' : rels'[r].task \in Ids /\ pubs'[rels'[r].task].rel # 0
    <3> SUFFICES ASSUME NEW r \in Rels' PROVE rels'[r].task \in Ids /\ pubs'[rels'[r].task].rel # 0
      OBVIOUS
    <3>1. pubs'[w.k].rel # 0
      BY <2>1, <2>4, <2>7
    <3>2. CASE r = n
      BY <1>2, <2>3, <2>5, <3>1, <3>2
    <3>3. CASE r \in Rels
      <4>1. rels'[r] = rels[r]
        BY <2>5, <3>3 DEF Rels
      <4>2. rels[r].task \in Ids /\ pubs[rels[r].task].rel # 0
        BY <1>2, <3>3 DEF Named
      <4>3. \A j \in Ids : j # w.k => pubs'[j] = pubs[j]
        BY <2>7 DEF PubsBut
      <4> QED
        BY <3>1, <4>1, <4>2, <4>3
    <3> QED
      BY <2>6, <3>2, <3>3
  <2>13. Named'
    BY <1>1, <1>2, <1>5, <2>9, <2>11, <2>12 DEF Named
  <2>14. w'.pc \in WorkSteps /\ Holds(w', tasks'[w.k])
    BY <1>1, <1>2, <1>5, <2>8, <2>9, MovedOn
  <2>15. BuildsOn(w.k)
    BY <2>3, <2>4, <2>5, <2>7 DEF BuildsOn
  <2>16. WorkStep
    BY <1>1, <1>2, <1>5, <2>1, <2>4, <2>6, <2>7, <2>8, <2>9, <2>14, <2>15 DEF WorkStep
  <2> QED
    BY <2>10, <2>13, <2>16, WorkKept
<1> QED
  BY <1>4, <1>5 DEF Publish

-----------------------------------------------------------------------------
(* The seal, and everybody else                                             *)

LEMMA SettleSeals ==
  ASSUME QueueInv, w.pc \in {"seal", "reseal"}, Settle(w.k), w' = Resting,
         UNCHANGED <<runs, staging, rels, op>>
  PROVE  QueueInv'
<1> DEFINE pub == [pubs[w.k] EXCEPT !.st = "committed"]
           row == [tasks[w.k] EXCEPT !.st = "completed"]
<1>1. /\ Shapes /\ Named /\ w.k \in Ids /\ pubs[w.k].st = "prepared" /\ pubs[w.k].rel # 0
      /\ tasks[w.k] \in TaskRow /\ pubs[w.k] \in PubRow
  BY Basics, Rows DEF QueueInv, Announced
<1>2. pub \in PubRow /\ pub.st = "committed" /\ pub.rel = pubs[w.k].rel
  BY <1>1 DEF PubRow
<1>3. row \in TaskRow /\ row.kind = tasks[w.k].kind /\ row.st = "completed"
  BY <1>1, Restated DEF Statuses, Terminal
<1>4. pubs' = [pubs EXCEPT ![w.k] = pub] /\ tasks' = [tasks EXCEPT ![w.k] = row] /\ current' = pubs[w.k].rel
  BY <1>1 DEF Settle
<1>5. tasks \in Seq(TaskRow) /\ pubs \in Seq(PubRow) /\ w.k \in 1 .. Len(tasks) /\ Len(pubs) = Len(tasks)
  BY <1>1 DEF Shapes, Ids
<1> HIDE DEF pub, row
<1>6. PubsBut(w.k) /\ pubs'[w.k] = pub
  BY <1>2, <1>4, <1>5 DEF PubsBut, Ids
<1>7. RowsBut(w.k) /\ tasks'[w.k] = row
  BY <1>3, <1>4, <1>5 DEF RowsBut, Ids
<1>8. RunsKept /\ StagingSound /\ RelsKept /\ w' \in Worker /\ w'.pc = "idle"
  BY <1>1, NothingMoved, NotRow DEF Resting
<1>9. Shapes'
  <2>1. current' \in 0 .. Len(rels')
    BY <1>1, <1>4 DEF Named
  <2> QED
    BY <1>1, <1>6, <1>7, <1>8, <2>1, ShapesKept DEF Shapes
<1>10. Named'
  <2>1. Ids' = Ids /\ RunIds' = RunIds /\ Rels' = Rels
    BY <1>7 DEF RowsBut, Ids, RunIds, Rels
  <2>2. /\ \A j \in Ids : pubs'[j].rel = pubs[j].rel /\ (pubs'[j].st = "none" => pubs[j].st = "none")
        /\ \A j \in Ids : tasks'[j].kind = tasks[j].kind
    BY <1>2, <1>6, <1>7 DEF PubsBut, RowsBut
  <2> QED
    BY <1>1, <2>1, <2>2 DEF Named
<1>11. SealStep
  BY <1>2, <1>3, <1>4, <1>6, <1>7, <1>8 DEF SealStep
<1> QED
  BY <1>9, <1>10, <1>11, SealKept

LEMMA SealKeeps == ASSUME QueueInv, Seal PROVE QueueInv'
<1>1. Busy /\ w.pc = "seal" /\ UNCHANGED <<runs, staging, rels, op>>
  BY DEF Seal, Busy, WorkSteps
<1>2. CASE Settle(w.k) /\ w' = Resting
  BY <1>1, <1>2, SettleSeals
<1>3. CASE Defer(w.k, w.t) /\ UNCHANGED <<pubs, current>>
  BY <1>1, <1>3, StillRuns, Deferred, RowKept
<1> QED
  BY <1>2, <1>3 DEF Seal

\* No row, journal or release is written.
LEMMA StillKept ==
  ASSUME QueueInv, UNCHANGED <<tasks, pubs, rels, current>>, w' = w \/ w' = Resting, RunsKept, StagingSound,
         op' \in Handler, op'.pc # "idle" => op'.k \in Ids /\ op'.t.kind = tasks[op'.k].kind,
         op'.pc = "retry" => OccupiesHead(op'.t)
  PROVE  QueueInv'
<1>1. Shapes /\ Named /\ Order /\ AtHead /\ Announced /\ Builds /\ AllLive /\ w \in Worker
  BY Rows DEF QueueInv
<1>2. /\ Ids' = Ids /\ Rels' = Rels
      /\ \A k : RowsBut(k) /\ PubsBut(k)
      /\ RelsKept
  BY <1>1, NothingMoved DEF Ids, Rels
<1>3. /\ w' \in Worker /\ (w'.pc # "idle" => w' = w)
      /\ (Busy' => Busy /\ w' = w) /\ (\A k : At(k)' => At(k))
  BY <1>1, NotRow DEF Resting, Busy, At, WorkSteps
<1>4. Shapes'
  BY <1>1, <1>2, <1>3, ShapesKept DEF Shapes
<1>5. Named'
  BY <1>1, <1>2, NamedKept
<1>6. Order' /\ Builds' /\ AllLive'
  BY <1>1, <1>2, <1>3 DEF Order, Builds, AllLive
<1>7. AtHead'
  BY <1>1, <1>2, <1>3 DEF AtHead
<1>8. Announced'
  BY <1>1, <1>2, <1>3 DEF Announced
<1> QED
  BY <1>4, <1>5, <1>6, <1>7, <1>8 DEF QueueInv

LEMMA ResealKeeps == ASSUME QueueInv, Reseal PROVE QueueInv'
<1>1. w.pc = "reseal" /\ w' = Resting /\ UNCHANGED <<runs, staging, rels, op>>
  BY DEF Reseal
<1>2. CASE Settle(w.k)
  BY <1>1, <1>2, SettleSeals
<1>3. CASE UNCHANGED <<tasks, events, pubs, current>>
  <2>1. RunsKept /\ StagingSound
    BY <1>1, NothingMoved DEF QueueInv
  <2>2. /\ op' \in Handler /\ (op'.pc # "idle" => op'.k \in Ids /\ op'.t.kind = tasks[op'.k].kind)
        /\ (op'.pc = "retry" => OccupiesHead(op'.t))
    BY <1>1, Rows, Basics DEF QueueInv, AtHead
  <2> QED
    BY <1>1, <1>3, <2>1, <2>2, StillKept
<1> QED
  BY <1>2, <1>3 DEF Reseal

LEMMA RecoverKeeps == ASSUME QueueInv, Recover PROVE QueueInv'
<1> PICK k \in Orphaned :
       IF pubs[k].rel = 0
       THEN pubs' = [pubs EXCEPT ![k].st = "abandoned"] /\ UNCHANGED w
       ELSE /\ UNCHANGED pubs
            /\ w' = [Resting EXCEPT !.pc = "reseal", !.k = k] \/ UNCHANGED w
  BY DEF Recover
<1>1. /\ w.pc = "idle" /\ ~Busy /\ UNCHANGED <<tasks, runs, staging, rels, current, op>>
      /\ k \in Ids /\ pubs[k].st = "prepared" /\ ~OccupiesHead(tasks[k])
  BY DEF Recover, Busy, WorkSteps, Orphaned
<1>2. Shapes /\ Named /\ Order /\ AtHead /\ Announced /\ Builds /\ AllLive /\ pubs[k] \in PubRow
  BY <1>1, Rows DEF QueueInv
<1>3. /\ RunsKept /\ StagingSound /\ RelsKept /\ RowsBut(k)
      /\ Ids' = Ids /\ Rels' = Rels /\ RunIds' = RunIds
  BY <1>1, <1>2, NothingMoved DEF Ids, Rels, RunIds
<1>4. /\ op' \in Handler /\ (op'.pc # "idle" => op'.k \in Ids /\ op'.t.kind = tasks[op'.k].kind)
      /\ (op'.pc = "retry" => OccupiesHead(op'.t))
  BY <1>1, <1>2, Rows, Basics DEF AtHead
<1>5. CASE UNCHANGED <<pubs, w>>
  BY <1>1, <1>3, <1>4, <1>5, StillKept
<1>6. ASSUME pubs' = [pubs EXCEPT ![k].st = "abandoned"], UNCHANGED w PROVE QueueInv'
  <2> DEFINE pub == [pubs[k] EXCEPT !.st = "abandoned"]
  <2>1. pub \in PubRow /\ pub.st = "abandoned" /\ pub.rel = pubs[k].rel
    BY <1>2 DEF PubRow
  <2>2. pubs' = [pubs EXCEPT ![k] = pub] /\ pubs \in Seq(PubRow) /\ Len(pubs) = Len(tasks)
    BY <1>2, <1>6 DEF Shapes
  <2> HIDE DEF pub
  <2>3. PubsBut(k) /\ pubs'[k] = pub
    BY <1>1, <2>1, <2>2 DEF PubsBut, Ids
  <2>4. Shapes'
    BY <1>1, <1>2, <1>3, <1>4, <1>6, <2>3, Rows, ShapesKept DEF Shapes
  <2>5. \A j \in Ids : pubs'[j].rel = pubs[j].rel /\ (pubs'[j].st = "none" => pubs[j].st = "none")
    BY <2>1, <2>3 DEF PubsBut
  <2>6. Named'
    BY <1>1, <1>2, <1>3, <2>5 DEF Named
  <2>7. ~Busy' /\ w'.pc = "idle"
    BY <1>1, <1>6 DEF Busy
  <2>8. Order'
    <3> SUFFICES ASSUME NEW i \in Ids, NEW j \in Ids, i < j, OccupiesHead(tasks[i])
                 PROVE  tasks[j].st \in {"queued", "cancelled"} /\ pubs'[j] = NoPub
      BY <1>1, <1>3, <2>7 DEF Order, At
    <3>1. tasks[j].st \in {"queued", "cancelled"} /\ pubs[j] = NoPub
      BY <1>2 DEF Order
    <3>2. j # k
      BY <1>1, <3>1 DEF NoPub
    <3> QED
      BY <2>3, <3>1, <3>2 DEF PubsBut
  <2>9. AtHead'
    BY <1>1, <1>2, <1>3, <1>4, <2>7 DEF AtHead
  <2>10. \A j \in Ids : pubs'[j].st # "prepared"
    BY <1>1, <1>2, <2>1, <2>3 DEF PubsBut, Announced
  <2>11. Announced'
    <3>1. ASSUME NEW j \in Ids, OccupiesHead(tasks[j]) PROVE pubs'[j].st \in {"none", "prepared"}
      BY <1>1, <1>2, <2>3, <3>1 DEF PubsBut, Announced
    <3>2. ASSUME NEW j \in Ids, pubs'[j].st # "none" PROVE tasks[j].kind = "write"
      BY <1>2, <2>5, <3>2, <1>1, <2>3 DEF PubsBut, Announced
    <3> QED
      BY <1>1, <1>3, <2>7, <2>10, <3>1, <3>2 DEF Announced, At
  <2>12. Builds' /\ AllLive'
    BY <1>1, <1>2, <1>3, <2>10 DEF Builds, AllLive
  <2> QED
    BY <2>4, <2>6, <2>8, <2>9, <2>11, <2>12 DEF QueueInv
<1>7. ASSUME pubs[k].rel # 0, UNCHANGED pubs, w' = [Resting EXCEPT !.pc = "reseal", !.k = k] PROVE QueueInv'
  <2>1. w' \in Worker /\ w'.pc = "reseal" /\ w'.k = k /\ ~Busy'
    BY <1>1, <1>2, <1>7, Basics, NotRow DEF Resting, Worker, Busy, WorkSteps
  <2>2. Shapes'
    BY <1>1, <1>2, <1>3, <1>4, <1>7, <2>1, NothingMoved, ShapesKept DEF Shapes
  <2>3. Named'
    BY <1>1, <1>2, <1>3, <1>7, NamedKept
  <2>4. Order' /\ Builds' /\ AllLive'
    BY <1>1, <1>2, <1>3, <1>7, <2>1 DEF Order, Builds, AllLive, At
  <2>5. AtHead'
    BY <1>1, <1>2, <1>3, <1>4, <2>1 DEF AtHead
  <2>6. Announced'
    BY <1>1, <1>2, <1>3, <1>7, <2>1 DEF Announced, At
  <2> QED
    BY <2>2, <2>3, <2>4, <2>5, <2>6 DEF QueueInv
<1> QED
  BY <1>5, <1>6, <1>7

LEMMA DueStep ==
  ASSUME NEW t, Due(t) # "none"
  PROVE  /\ t.st # "blocked" /\ Due(t) \in {"claim", "unbound", "ingest", "requeue"}
         /\ t.kind = "reindex" => Due(t) = "claim"
BY DEF Due

LEMMA ReadHeadKeeps == ASSUME QueueInv, ReadHead PROVE QueueInv'
<1> PICK k \in Ids : /\ IsHead(k) /\ Due(tasks[k]) # "none"
                     /\ w' = [Resting EXCEPT !.pc = Due(tasks[k]), !.k = k, !.t = tasks[k]]
  BY DEF ReadHead
<1>1. /\ w.pc = "idle" /\ ~Busy /\ Orphaned = {} /\ UNCHANGED <<tasks, runs, staging, pubs, rels, current, op>>
      /\ OccupiesHead(tasks[k]) /\ \A j \in Ids : OccupiesHead(tasks[j]) => k <= j
  BY DEF ReadHead, Busy, WorkSteps, IsHead, Held
<1>2. /\ Shapes /\ Named /\ Order /\ AtHead /\ Announced /\ Builds /\ AllLive
      /\ tasks[k] \in TaskRow /\ Ids \subseteq Nat
  BY Rows, Basics DEF QueueInv
<1>3. /\ RunsKept /\ StagingSound /\ RelsKept /\ RowsBut(k) /\ PubsBut(k)
      /\ Ids' = Ids /\ Rels' = Rels
  BY <1>1, <1>2, NothingMoved DEF Ids, Rels
<1>4. /\ w' \in Worker /\ w'.pc = Due(tasks[k]) /\ w'.k = k /\ w'.t = tasks[k]
      /\ w'.pc \in {"claim", "unbound", "ingest", "requeue"} /\ Busy' /\ At(k)'
  BY <1>2, DueStep, NotRow DEF Resting, Worker, WorkSteps, Busy, At
<1>5. \A i : At(i)' => i = k
  BY <1>4 DEF At
<1>6. op.pc = "retry" => OccupiesHead(op.t)
  BY <1>2 DEF AtHead
<1>7. \A j \in Ids : pubs[j].st = "prepared" => j = k
  <2> SUFFICES ASSUME NEW j \in Ids, pubs[j].st = "prepared" PROVE j = k
    OBVIOUS
  <2>1. OccupiesHead(tasks[j])
    BY <1>1 DEF Orphaned
  <2>2. k <= j
    BY <1>1, <2>1
  <2>3. ~(k < j)
    BY <1>1, <1>2 DEF Order, NoPub
  <2> QED
    BY <1>2, <2>2, <2>3
<1>8. Shapes'
  BY <1>1, <1>2, <1>3, <1>4, Rows, ShapesKept DEF Shapes
<1>9. Named'
  BY <1>1, <1>2, <1>3, NamedKept
<1>10. Order' /\ Builds' /\ AllLive'
  BY <1>1, <1>2, <1>3, <1>5 DEF Order, Builds, AllLive
<1>11. AtHead'
  <2>1. Holds(w', tasks[k])
    <3>1. tasks[k].st \in {"queued", "running", "retry_wait"}
      BY <1>1, <1>2, DueStep DEF TaskRow, Statuses, OccupiesHead, Terminal
    <3> QED
      BY <1>2, <1>4, <3>1, DueStep DEF Holds, TaskRow
  <2>2. ASSUME NEW i \in Ids, i < k PROVE ~OccupiesHead(tasks[i])
    BY <1>1, <1>2, <2>2
  <2> QED
    BY <1>1, <1>2, <1>3, <1>4, <1>6, <2>1, <2>2 DEF AtHead
<1>12. Announced'
  BY <1>1, <1>2, <1>3, <1>4, <1>5, <1>7 DEF Announced
<1> QED
  BY <1>8, <1>9, <1>10, <1>11, <1>12 DEF QueueInv

-----------------------------------------------------------------------------
(* Handlers, the librarian's runs, restarts                                 *)

LEMMA Appended ==
  ASSUME NEW S, NEW s \in Seq(S), NEW e \in S, NEW n \in Nat, n = Len(s)
  PROVE  /\ Append(s, e) \in Seq(S) /\ Len(Append(s, e)) = n + 1
         /\ \A i \in 1 .. n : Append(s, e)[i] = s[i]
         /\ Append(s, e)[n + 1] = e
OBVIOUS

LEMMA SubmitKeeps ==
  ASSUME QueueInv, NEW kind \in Kinds, Submit(kind)
  PROVE  QueueInv'
<1> DEFINE n == Len(tasks)
           row == [NoRow EXCEPT !.kind = kind]
<1>1. Shapes /\ Named /\ Order /\ AtHead /\ Announced /\ Builds /\ AllLive
  BY DEF QueueInv
<1>2. /\ tasks \in Seq(TaskRow) /\ staging \in Seq(Content) /\ pubs \in Seq(PubRow)
      /\ n \in Nat /\ Len(staging) = n /\ Len(pubs) = n /\ n = Len(tasks)
  BY <1>1 DEF Shapes
<1>3. row \in TaskRow /\ row.kind = kind /\ row.st = "queued" /\ kind \in {"write", "reindex"}
  BY KnowledgeAssumption DEF NoRow, TaskRow, Statuses
<1>4. /\ tasks' = Append(tasks, row) /\ staging' = Append(staging, Empty) /\ pubs' = Append(pubs, NoPub)
      /\ UNCHANGED <<runs, rels, current, w, op>>
  BY DEF Submit
<1> HIDE DEF n, row
<1>5. /\ tasks' \in Seq(TaskRow) /\ Len(tasks') = n + 1
      /\ \A i \in 1 .. n : tasks'[i] = tasks[i]
      /\ tasks'[n + 1] = row
  BY <1>2, <1>3, <1>4, Appended
<1>6. /\ staging' \in Seq(Content) /\ Len(staging') = n + 1
      /\ \A i \in 1 .. n : staging'[i] = staging[i]
      /\ staging'[n + 1] = Empty
  BY <1>2, <1>4, NotRow, Appended
<1>7. /\ pubs' \in Seq(PubRow) /\ Len(pubs') = n + 1
      /\ \A i \in 1 .. n : pubs'[i] = pubs[i]
      /\ pubs'[n + 1] = NoPub
  BY <1>2, <1>4, NotRow, Appended
<1>8. /\ Ids = 1 .. n /\ Ids' = Ids \cup {n + 1} /\ n + 1 \notin Ids
      /\ \A i \in Ids : i < n + 1 /\ i \in Nat
      /\ Rels' = Rels /\ RunIds' = RunIds
      /\ Busy' = Busy /\ \A i : At(i)' = At(i)
  BY <1>2, <1>4, <1>5 DEF Ids, Rels, RunIds, Busy, At
<1>9. \A i \in Ids : tasks'[i] = tasks[i] /\ staging'[i] = staging[i] /\ pubs'[i] = pubs[i]
  BY <1>5, <1>6, <1>7, <1>8
<1>10. (w.pc # "idle" => w.k \in Ids) /\ (op.pc # "idle" => op.k \in Ids) /\ (w.k # n + 1 \/ w.pc = "idle")
  BY <1>1, <1>8, Basics
<1>11. \A i : At(i) => i \in Ids
  BY <1>1, Basics DEF At, Busy, WorkSteps
<1>12. Shapes'
  BY <1>1, <1>4, <1>5, <1>6, <1>7, <1>8, Basics DEF Shapes
<1>13. Named'
  <2>1. \A k \in Ids' : pubs'[k].rel \in 0 .. Len(rels') /\ (pubs'[k].st = "none" => pubs'[k].rel = 0)
    <3>1. pubs'[n + 1].rel \in 0 .. Len(rels') /\ pubs'[n + 1].rel = 0
      BY <1>1, <1>4, <1>7, Basics DEF NoPub
    <3>2. ASSUME NEW k \in Ids
          PROVE  pubs'[k].rel \in 0 .. Len(rels') /\ (pubs'[k].st = "none" => pubs'[k].rel = 0)
      <4>1. pubs[k].rel \in 0 .. Len(rels) /\ (pubs[k].st = "none" => pubs[k].rel = 0)
        BY <1>1 DEF Named
      <4>2. pubs'[k] = pubs[k] /\ rels' = rels
        BY <1>4, <1>9
      <4> QED
        BY <4>1, <4>2
    <3> QED
      BY <1>8, <3>1, <3>2
  <2>2. \A k \in Ids' : staging'[k].good => staging'[k].by \in RunIds /\ runs[staging'[k].by].task = k
    BY <1>1, <1>6, <1>8, <1>9 DEF Named, Empty
  <2> QED
    BY <1>1, <1>4, <1>8, <1>9, <2>1, <2>2, ZenonT(40) DEF Named
<1>14. Order'
  <2> SUFFICES ASSUME NEW i \in Ids', NEW j \in Ids', i < j, OccupiesHead(tasks'[i]) \/ At(i)
               PROVE  tasks'[j].st \in {"queued", "cancelled"} /\ pubs'[j] = NoPub
    BY <1>8 DEF Order
  <2>1. i \in Ids
    BY <1>2, <1>8
  <2>2. CASE j = n + 1
    BY <1>3, <1>5, <1>7, <2>2
  <2>3. CASE j \in Ids
    BY <1>1, <1>9, <2>1, <2>3 DEF Order
  <2> QED
    BY <1>8, <2>2, <2>3
<1>15. AtHead'
  <2>1. ASSUME Busy PROVE Holds(w, tasks'[w.k]) /\ \A i \in Ids' : i < w.k => ~OccupiesHead(tasks'[i])
    <3>1. w.k \in Ids /\ Holds(w, tasks'[w.k])
      BY <1>1, <1>9, <2>1, Basics DEF AtHead, Busy, WorkSteps
    <3>2. ASSUME NEW i \in Ids', i < w.k PROVE ~OccupiesHead(tasks'[i])
      <4>1. i \in Ids
        BY <1>2, <1>8, <3>1, <3>2
      <4> QED
        BY <1>1, <1>9, <2>1, <3>2, <4>1 DEF AtHead
    <3> QED
      BY <3>1, <3>2
  <2>2. op.pc # "idle" => op.k \in Ids
    BY <1>1, Basics
  <2>3. /\ op.pc # "idle" => op.t.kind = tasks'[op.k].kind
        /\ op.pc = "retry" => OccupiesHead(op.t)
    BY <1>1, <1>9, <2>2 DEF AtHead
  <2> QED
    BY <1>4, <1>8, <2>1, <2>3 DEF AtHead
<1>16. Announced'
  <2>1. /\ \A k \in Ids' : OccupiesHead(tasks'[k]) \/ At(k) => pubs'[k].st \in {"none", "prepared"}
        /\ \A k \in Ids' : pubs'[k].st # "none" => tasks'[k].kind = "write"
    BY <1>1, <1>7, <1>8, <1>9 DEF Announced, NoPub
  <2>2. \A j, k \in Ids' : pubs'[j].st = "prepared" /\ (pubs'[k].st = "prepared" \/ At(k)) => j = k
    BY <1>1, <1>7, <1>8, <1>9, <1>11 DEF Announced, NoPub
  <2>3. w.pc \in {"files", "seal", "reseal"} => w.k \in Ids
    BY <1>1, Basics
  <2>4. /\ w.pc \in {"files", "seal", "reseal"} => pubs'[w.k].st = "prepared" /\ pubs'[w.k].rel # 0
        /\ w.pc = "reseal" => ~OccupiesHead(tasks'[w.k])
    BY <1>1, <1>9, <2>3 DEF Announced
  <2> QED
    BY <1>4, <1>8, <2>1, <2>2, <2>4 DEF Announced
<1>17. Builds'
  BY <1>1, <1>4, <1>7, <1>8, <1>9 DEF Builds, NoPub
<1>18. AllLive'
  BY <1>1, <1>3, <1>4, <1>5, <1>8, <1>9 DEF AllLive
<1> QED
  BY <1>12, <1>13, <1>14, <1>15, <1>16, <1>17, <1>18 DEF QueueInv

\* A handler writes the row it has read: one that has not ended is queued
\* again, or it is cancelled.
LEMMA HandledRow ==
  ASSUME QueueInv, op.pc # "idle", RowsBut(op.k), UNCHANGED <<runs, staging, pubs, rels, current, w>>,
         op' \in Handler, op'.pc \in {"idle", "cancelled"}, op'.pc # "idle" => op'.k = op.k /\ op'.t = op.t,
         tasks'[op.k].st = "cancelled" \/ (tasks'[op.k].st = "queued" /\ OccupiesHead(tasks[op.k]))
  PROVE  QueueInv'
<1>1. Shapes /\ Named /\ Order /\ AtHead /\ Announced /\ Builds /\ AllLive /\ w \in Worker /\ op.k \in Ids
  BY Rows, Basics DEF QueueInv
<1>2. /\ Ids' = Ids /\ Rels' = Rels /\ RunsKept /\ StagingSound /\ PubsBut(op.k) /\ RelsKept
      /\ Busy' = Busy /\ \A i : At(i)' = At(i)
  BY <1>1, NothingMoved DEF RowsBut, Ids, Rels, Busy, At
<1>3. \A j \in Ids : tasks'[j].kind = tasks[j].kind /\ (j # op.k => tasks'[j] = tasks[j])
  BY DEF RowsBut
<1>4. \A j \in Ids : OccupiesHead(tasks'[j]) => OccupiesHead(tasks[j])
  BY <1>3 DEF OccupiesHead, Terminal
<1>5. \A j \in Ids : tasks'[j].st = tasks[j].st \/ tasks'[j].st \in {"queued", "cancelled"}
  BY <1>3
<1>6. Shapes'
  BY <1>1, <1>2, ShapesKept DEF Shapes
<1>7. Named'
  BY <1>1, <1>2, NamedKept
<1>8. Order'
  BY <1>1, <1>2, <1>4, <1>5 DEF Order
<1>9. AtHead'
  <2>1. ASSUME Busy PROVE Holds(w, tasks'[w.k])
    <3>1. w.k \in Ids /\ Holds(w, tasks[w.k])
      BY <1>1, <2>1, Basics DEF AtHead, Busy, WorkSteps
    <3> QED
      BY <1>3, <1>5, <3>1 DEF Holds
  <2>2. ASSUME Busy, NEW i \in Ids, i < w.k PROVE ~OccupiesHead(tasks'[i])
    BY <1>1, <1>4, <2>2 DEF AtHead
  <2>3. /\ op'.pc # "idle" => op'.t.kind = tasks'[op'.k].kind
        /\ op'.pc # "retry"
    BY <1>1, <1>3 DEF AtHead
  <2> QED
    BY <1>2, <2>1, <2>2, <2>3 DEF AtHead
<1>10. Announced'
  <2>1. w.pc = "reseal" => ~OccupiesHead(tasks'[w.k])
    BY <1>1, <1>4, Basics DEF Announced
  <2> QED
    BY <1>1, <1>2, <1>3, <1>4, <2>1 DEF Announced
<1>11. Builds' /\ AllLive'
  BY <1>1, <1>2, <1>3, <1>5 DEF Builds, AllLive
<1> QED
  BY <1>6, <1>7, <1>8, <1>9, <1>10, <1>11 DEF QueueInv

LEMMA RetryReadKeeps ==
  ASSUME QueueInv, NEW k \in Ids, RetryRead(k)
  PROVE  QueueInv'
<1>1. /\ UNCHANGED <<tasks, runs, staging, pubs, rels, current, w>>
      /\ OccupiesHead(tasks[k])
      /\ op' = [pc |-> "retry", k |-> k, t |-> tasks[k]]
  BY DEF RetryRead, IsHead, Held
<1>2. Shapes /\ tasks[k] \in TaskRow /\ Ids \subseteq Nat
  BY Rows, Basics DEF QueueInv
<1>3. op' \in Handler /\ op'.k = k /\ op'.t = tasks[k]
  BY <1>1, <1>2 DEF Handler
<1>4. RunsKept /\ StagingSound
  BY <1>1, <1>2, NothingMoved
<1> QED
  BY <1>1, <1>3, <1>4, StillKept

\* A retry that overtakes the worker is remembered.
LEMMA NotOvertaken ==
  ASSUME Counted, RetryWrite, ~used'.raced
  PROVE  ~Overtakes
<1> DEFINE b == used.raced \/ Overtakes
<1>1. used' = [used EXCEPT !.raced = b]
  BY DEF RetryWrite
<1> HIDE DEF b
<1>2. used'.raced = b
  BY <1>1 DEF Counted
<1> QED
  BY <1>2 DEF b

\* What a handler does to the row it has read.
LEMMA HandlerWrites ==
  ASSUME QueueInv, RetryWrite \/ CancelWrite
  PROVE  /\ UNCHANGED <<runs, staging, pubs, rels, current, files, w>> /\ RowsBut(op.k) /\ op.k \in Ids
         /\ \/ tasks'[op.k].st = "cancelled"
            \/ RetryWrite /\ Overtakes
            \/ /\ tasks'[op.k].st = "queued" /\ OccupiesHead(tasks[op.k])
               /\ tasks[op.k].st # "running" /\ w.k # op.k
<1>1. /\ op.pc # "idle" /\ op.k \in Ids /\ op.t \in TaskRow /\ op.t.kind = tasks[op.k].kind /\ Shapes
      /\ UNCHANGED <<runs, staging, pubs, rels, current, files, w>>
      /\ RetryWrite => OccupiesHead(op.t)
  BY Basics, Rows DEF RetryWrite, CancelWrite, QueueInv, AtHead, Handler
<1>2. CASE RetryWrite
  <2> DEFINE t == [op.t EXCEPT !.st = "queued", !.att = 0]
  <2>1. t \in TaskRow /\ t.kind = op.t.kind /\ t.st = "queued"
    BY <1>1 DEF TaskRow, Statuses
  <2>2. UpdateTask(op.k, t)
    BY <1>2 DEF RetryWrite
  <2> HIDE DEF t
  <2>3. RowsBut(op.k) /\ tasks'[op.k] = t
    BY <1>1, <2>1, <2>2, Updated
  <2>4. CASE Overtakes
    BY <1>1, <1>2, <2>3, <2>4
  <2>5. CASE ~Overtakes
    BY <1>1, <1>2, <2>1, <2>3, <2>5 DEF Overtakes
  <2> QED
    BY <2>4, <2>5
<1>3. CASE CancelWrite
  <2> DEFINE t == [op.t EXCEPT !.st = "cancelled"]
  <2>1. t \in TaskRow /\ t.kind = op.t.kind /\ t.st = "cancelled"
    BY <1>1, Restated DEF Statuses, Terminal
  <2>2. UpdateTask(op.k, t)
    BY <1>3 DEF CancelWrite
  <2> HIDE DEF t
  <2> QED
    BY <1>1, <2>1, <2>2, Updated
<1> QED
  BY <1>2, <1>3

LEMMA RetryWriteKeeps == ASSUME QueueInv, RetryWrite, ~Overtakes PROVE QueueInv'
<1>1. /\ op.pc = "retry" /\ op' = NoOp /\ UNCHANGED <<runs, staging, pubs, rels, current, w>>
  BY DEF RetryWrite
<1>2. op' \in Handler /\ op'.pc = "idle"
  BY <1>1, NotRow DEF NoOp
<1> QED
  BY <1>1, <1>2, HandlerWrites, HandledRow

LEMMA CancelReadKeeps ==
  ASSUME QueueInv, NEW k \in Ids, CancelRead(k)
  PROVE  QueueInv'
<1>1. /\ UNCHANGED <<tasks, runs, staging, pubs, rels, current, w>>
      /\ op' = [pc |-> "cancel", k |-> k, t |-> tasks[k]]
  BY DEF CancelRead
<1>2. Shapes /\ tasks[k] \in TaskRow /\ Ids \subseteq Nat
  BY Rows, Basics DEF QueueInv
<1>3. op' \in Handler /\ op'.pc = "cancel" /\ op'.k = k /\ op'.t.kind = tasks[k].kind
  BY <1>1, <1>2 DEF Handler
<1>4. RunsKept /\ StagingSound
  BY <1>1, <1>2, NothingMoved
<1> QED
  BY <1>1, <1>3, <1>4, StillKept

LEMMA CancelWriteKeeps == ASSUME QueueInv, CancelWrite PROVE QueueInv'
<1>1. /\ op.pc = "cancel" /\ op' = [op EXCEPT !.pc = "cancelled"] /\ UNCHANGED <<runs, staging, pubs, rels, current, w>>
      /\ op \in Handler /\ op.k \in Ids /\ op.t \in TaskRow /\ op.t.kind = tasks[op.k].kind /\ Shapes
  BY Basics, Rows DEF CancelWrite, QueueInv, AtHead, Handler
<1> DEFINE t == [op.t EXCEPT !.st = "cancelled"]
<1>2. t \in TaskRow /\ t.kind = op.t.kind /\ t.st = "cancelled"
  BY <1>1, Restated DEF Statuses, Terminal
<1>3. UpdateTask(op.k, t)
  BY DEF CancelWrite
<1> HIDE DEF t
<1>4. RowsBut(op.k) /\ tasks'[op.k] = t
  BY <1>1, <1>2, <1>3, Updated
<1>5. op' \in Handler /\ op'.pc = "cancelled" /\ op'.k = op.k /\ op'.t = op.t
  BY <1>1 DEF Handler
<1> QED
  BY <1>1, <1>2, <1>4, <1>5, HandledRow

LEMMA CancelEventKeeps == ASSUME QueueInv, CancelEvent PROVE QueueInv'
<1>1. UNCHANGED <<tasks, runs, staging, pubs, rels, current, w>> /\ op' \in Handler /\ op'.pc = "idle"
  BY NotRow DEF CancelEvent, NoOp
<1>2. RunsKept /\ StagingSound
  BY <1>1, NothingMoved DEF QueueInv
<1> QED
  BY <1>1, <1>2, StillKept

LEMMA OthersStill ==
  ASSUME QueueInv, UNCHANGED <<tasks, w, op>>
  PROVE  /\ op' \in Handler /\ (op'.pc # "idle" => op'.k \in Ids /\ op'.t.kind = tasks[op'.k].kind)
         /\ op'.pc = "retry" => OccupiesHead(op'.t)
BY Rows, Basics DEF QueueInv, AtHead

LEMMA RunEnded ==
  ASSUME Shapes, NEW r \in RunIds, NEW s \in {"succeeded", "failed"}, runs' = [runs EXCEPT ![r].st = s]
  PROVE  /\ RunsKept /\ Len(runs') = Len(runs)
         /\ \A i \in RunIds : runs'[i].task = runs[i].task /\ (i # r => runs'[i] = runs[i])
         /\ runs'[r].st = s
<1> DEFINE row == [runs[r] EXCEPT !.st = s]
<1>1. row \in RunRow /\ row.task = runs[r].task /\ row.st = s
  BY Rows DEF RunRow
<1>2. runs' = [runs EXCEPT ![r] = row] /\ runs \in Seq(RunRow) /\ r \in 1 .. Len(runs)
  BY DEF Shapes, RunIds
<1> HIDE DEF row
<1> QED
  BY <1>1, <1>2 DEF RunsKept, RunIds

LEMMA WrittenSound ==
  ASSUME QueueInv, NEW r \in RunIds, NEW final \in BOOLEAN, Written(r, final)
  PROVE  /\ StagingSound
         /\ \E good \in BOOLEAN : staging'[runs[r].task] = [by |-> r, final |-> final, good |-> good]
         /\ \A k \in Ids : k # runs[r].task => staging'[k] = staging[k]
<1>1. /\ Shapes /\ runs[r].task \in Ids /\ r \in Nat
  BY DEF QueueInv, Named, RunIds
<1>2. PICK good \in BOOLEAN : staging' = [staging EXCEPT ![runs[r].task] = [by |-> r, final |-> final, good |-> good]]
  BY DEF Written
<1> DEFINE k == runs[r].task
           c == [by |-> r, final |-> final, good |-> good]
<1>3. c \in Content /\ c.by = r
  BY <1>1 DEF Content
<1>4. staging \in Seq(Content) /\ Len(staging) = Len(tasks) /\ staging' = [staging EXCEPT ![k] = c] /\ k \in 1 .. Len(tasks)
  BY <1>1, <1>2 DEF Shapes, Ids
<1>5. staging'[k] = c
  BY <1>4
<1> HIDE DEF c
<1>6. staging' \in Seq(Content) /\ Len(staging') = Len(staging) /\ \A j \in Ids : j # k => staging'[j] = staging[j]
  BY <1>3, <1>4 DEF Ids
<1>7. StagingSound
  BY <1>3, <1>5, <1>6 DEF StagingSound
<1> QED
  BY <1>5, <1>6, <1>7 DEF c

LEMMA RunStepKeeps ==
  ASSUME QueueInv, NEW r \in Active, RunWrites(r) \/ RunSucceeds(r) \/ RunFails(r)
  PROVE  QueueInv'
<1>1. /\ UNCHANGED <<tasks, pubs, rels, current, w, op>> /\ r \in RunIds /\ Shapes
  BY DEF RunWrites, RunSucceeds, RunFails, Active, RunIds, QueueInv
<1>2. RunsKept
  <2>1. CASE UNCHANGED runs
    BY <1>1, <2>1, NothingMoved
  <2>2. CASE runs' = [runs EXCEPT ![r].st = "succeeded"] \/ runs' = [runs EXCEPT ![r].st = "failed"]
    BY <1>1, <2>2, RunEnded
  <2> QED
    BY <2>1, <2>2 DEF RunWrites, RunSucceeds, RunFails
<1>3. StagingSound
  <2>1. CASE UNCHANGED staging
    BY <1>1, <2>1, NothingMoved
  <2>2. CASE Written(r, FALSE) \/ Written(r, TRUE)
    BY <1>1, <2>2, WrittenSound
  <2> QED
    BY <2>1, <2>2 DEF RunWrites, RunSucceeds, RunFails
<1> QED
  BY <1>1, <1>2, <1>3, OthersStill, StillKept

LEMMA CrashKeeps == ASSUME QueueInv, Crash PROVE QueueInv'
<1>1. /\ UNCHANGED <<tasks, staging, pubs, rels, current>> /\ w' = Resting /\ op' = NoOp /\ Shapes
  BY DEF Crash, QueueInv
<1>2. PICK dead : runs' = [r \in 1 .. Len(runs) |-> IF r \in dead THEN [runs[r] EXCEPT !.st = "failed"] ELSE runs[r]]
  BY DEF Crash
<1> DEFINE row(r) == IF r \in dead THEN [runs[r] EXCEPT !.st = "failed"] ELSE runs[r]
<1>3. ASSUME NEW r \in 1 .. Len(runs) PROVE row(r) \in RunRow /\ row(r).task = runs[r].task
  <2>1. runs[r] \in RunRow
    BY <1>1, <1>3, Rows DEF RunIds
  <2> QED
    BY <2>1 DEF RunRow
<1>4. runs' = [r \in 1 .. Len(runs) |-> row(r)] /\ Len(runs) \in Nat
  BY <1>1, <1>2 DEF Shapes
<1> HIDE DEF row
<1>5. runs' \in Seq(RunRow) /\ Len(runs') = Len(runs)
  BY <1>3, <1>4
<1>6. RunsKept
  BY <1>3, <1>4, <1>5 DEF RunsKept, RunIds
<1>7. StagingSound
  BY <1>1, NothingMoved
<1>8. op' \in Handler /\ op'.pc = "idle"
  BY <1>1, NotRow DEF NoOp
<1> QED
  BY <1>1, <1>6, <1>7, <1>8, StillKept

-----------------------------------------------------------------------------
(* Nothing that was completed is lost                                       *)

LEMMA QueueInit == KInit => QueueInv
<1> SUFFICES ASSUME KInit PROVE QueueInv
  OBVIOUS
<1>1. /\ tasks = <<>> /\ runs = <<>> /\ rels = <<>> /\ staging = <<>> /\ pubs = <<>> /\ current = 0
      /\ w = Resting /\ op = NoOp
  BY DEF KInit
<1>2. Ids = {} /\ Rels = {} /\ RunIds = {}
  BY <1>1 DEF Ids, Rels, RunIds
<1>3. w.pc = "idle" /\ op.pc = "idle" /\ ~Busy
  BY <1>1 DEF Resting, NoOp, Busy, WorkSteps
<1>4. Shapes
  BY <1>1, <1>3, NotRow DEF Shapes
<1> QED
  BY <1>2, <1>3, <1>4 DEF QueueInv, Named, Order, AtHead, Announced, Builds, AllLive, At

LEMMA QueueStep ==
  ASSUME QueueInv, Counted, ~used'.raced, [KNext]_kvars
  PROVE  QueueInv'
<1>1. CASE WorkerStep
  BY <1>1, RecoverKeeps, ResealKeeps, ReadHeadKeeps, UnboundKeeps, RequeueKeeps, ClaimKeeps, PrepareKeeps,
     DispatchKeeps, BindKeeps, IngestKeeps, PublishKeeps, WriteFilesKeeps, SealKeeps, RebuildKeeps DEF WorkerStep
<1>2. CASE HandlerStep
  BY <1>2, NotOvertaken, RetryWriteKeeps, CancelWriteKeeps, CancelEventKeeps DEF HandlerStep
<1>3. CASE RunEnds \/ \E r \in Active : RunWrites(r)
  BY <1>3, RunStepKeeps DEF RunEnds
<1>4. CASE \E kind \in Kinds : Submit(kind)
  BY <1>4, SubmitKeeps
<1>5. CASE \E k \in Ids : RetryRead(k) \/ CancelRead(k)
  BY <1>5, RetryReadKeeps, CancelReadKeeps
<1>6. CASE Crash
  BY <1>6, CrashKeeps
<1>7. CASE UNCHANGED kvars
  BY <1>7, OthersStill, StillKept, NothingMoved DEF kvars, QueueInv
<1> QED
  BY <1>1, <1>2, <1>3, <1>4, <1>5, <1>6, <1>7 DEF KNext

LEMMA CrashCounted ==
  ASSUME Counted, NEW b \in BOOLEAN, used' = [used EXCEPT !.crashes = @ + 1, !.outlived = b]
  PROVE  Counted' /\ used'.outlived = b /\ used'.raced = used.raced
<1>1. used.crashes + 1 \in Nat
  BY DEF Counted
<1> QED
  BY <1>1 DEF Counted

LEMMA RetryCounted ==
  ASSUME Counted, NEW b \in BOOLEAN, used' = [used EXCEPT !.raced = b]
  PROVE  Counted' /\ used'.raced = b /\ used'.outlived = used.outlived
BY DEF Counted

\* What has happened is not forgotten.
LEMMA CountedStep ==
  ASSUME Counted, [KNext]_kvars
  PROVE  Counted' /\ (used.outlived => used'.outlived) /\ (used.raced => used'.raced)
<1>1. CASE UNCHANGED used
  BY <1>1 DEF Counted
<1>2. CASE \E k \in Ids : RetryRead(k) \/ CancelRead(k)
  BY <1>2 DEF RetryRead, CancelRead, Counted
<1>3. CASE Crash
  <2> PICK dead : used' = [used EXCEPT !.crashes = @ + 1, !.outlived = @ \/ dead # Active]
    BY <1>3 DEF Crash
  <2> DEFINE b == used.outlived \/ dead # Active
  <2>1. b \in BOOLEAN /\ (used.outlived => b)
    BY DEF Counted
  <2>2. used' = [used EXCEPT !.crashes = @ + 1, !.outlived = b]
    OBVIOUS
  <2> HIDE DEF b
  <2> QED
    BY <2>1, <2>2, CrashCounted
<1>4. CASE WorkerStep
  BY <1>1, <1>4 DEF WorkerStep, Recover, Reseal, ReadHead, Unbound, Requeue, Claim, Prepare, Dispatch, Bind, Ingest,
     Publish, WriteFiles, Seal, Rebuild
<1>5. CASE RetryWrite
  <2> DEFINE b == used.raced \/ Overtakes
  <2>1. b \in BOOLEAN /\ (used.raced => b)
    BY DEF Counted
  <2>2. used' = [used EXCEPT !.raced = b]
    BY <1>5 DEF RetryWrite
  <2> HIDE DEF b
  <2> QED
    BY <2>1, <2>2, RetryCounted
<1>6. CASE CancelWrite \/ CancelEvent \/ RunEnds \/ (\E r \in Active : RunWrites(r)) \/ \E kind \in Kinds : Submit(kind)
  BY <1>1, <1>6 DEF CancelWrite, CancelEvent, RunEnds, RunSucceeds, RunFails, RunWrites, Submit
<1> QED
  BY <1>1, <1>2, <1>3, <1>4, <1>5, <1>6 DEF KNext, HandlerStep, kvars

LEMMA CountedInit == KInit => Counted
BY DEF KInit, Counted

\* The write queue of a library: the invariant holds whatever fails, is
\* cancelled or crashes, and whether or not a librarian's run outlives the
\* process, until a retry overtakes the worker (reviveTask,
\* knowledge_library.go).
THEOREM QueueInvariant == KSpec => []Queued
<1>1. ASSUME Queued, [KNext]_kvars PROVE Queued'
  <2>1. Counted' /\ (~used'.raced => ~used.raced)
    BY <1>1, CountedStep DEF Queued
  <2> QED
    BY <1>1, <2>1, QueueStep DEF Queued
<1>2. KInit => Queued
  BY QueueInit, CountedInit DEF Queued
<1> QED
  BY <1>1, <1>2, PTL DEF KSpec

\* What a completed task wrote stays in the release readers see, unless a
\* retry has overtaken the worker.
THEOREM CompletedKept == KSpec => []NothingLost
<1>1. Queued => NothingLost
  BY DEF Queued, QueueInv, NothingLost
<1> QED
  BY <1>1, QueueInvariant, PTL

-----------------------------------------------------------------------------
(* A turn at work is bound to its task                                      *)

LEMMA Idles ==
  /\ Resting.pc = "idle"
  /\ \A k, t : Block(k, t) => w' = Resting
  /\ \A k, t : Defer(k, t) => w' = Resting
BY DEF Resting, Block, Defer

LEMMA IngestCases ==
  ASSUME Ingest
  PROVE  \/ /\ ~EndedRun(w.t.run)
            /\ w' = Resting /\ UNCHANGED <<tasks, runs, pubs>>
         \/ /\ EndedRun(w.t.run)
            /\ Defer(w.k, w.t) /\ UNCHANGED <<runs, pubs>>
         \/ /\ EndedRun(w.t.run)
            /\ Repair(w.k, w.t) /\ UNCHANGED pubs
         \/ /\ EndedRun(w.t.run) /\ staging[w.k].good
            /\ \E r \in SameContent(w.k, staging[w.k]) : w' = [w EXCEPT !.pc = "files", !.rel = r]
            /\ UNCHANGED <<tasks, runs, pubs>>
         \/ /\ EndedRun(w.t.run) /\ staging[w.k].good
            /\ SameContent(w.k, staging[w.k]) = {}
            /\ w' = [w EXCEPT !.pc = "publish", !.c = staging[w.k]]
            /\ pubs' = [pubs EXCEPT ![w.k] = IF @.st = "none" THEN [st |-> "prepared", rel |-> 0] ELSE @]
            /\ UNCHANGED <<tasks, runs>>
<1>1. CASE ~EndedRun(w.t.run)
  BY <1>1 DEF Ingest
<1>2. CASE EndedRun(w.t.run) /\ ~SucceededRun(w.t.run)
  BY <1>2 DEF Ingest
<1>3. CASE EndedRun(w.t.run) /\ SucceededRun(w.t.run)
  <2> DEFINE c == staging[w.k]
  <2>1. IF ~c.good THEN Repair(w.k, w.t) /\ UNCHANGED pubs
        ELSE /\ IF SameContent(w.k, c) # {}
                  THEN /\ \E r \in SameContent(w.k, c) : w' = [w EXCEPT !.pc = "files", !.rel = r]
                       /\ UNCHANGED pubs
                  ELSE /\ w' = [w EXCEPT !.pc = "publish", !.c = c]
                       /\ pubs' = [pubs EXCEPT ![w.k] = IF @.st = "none" THEN [st |-> "prepared", rel |-> 0] ELSE @]
             /\ UNCHANGED <<tasks, events, runs>>
    BY <1>3 DEF Ingest
  <2> QED
    BY <1>3, <2>1
<1> QED
  BY <1>1, <1>2, <1>3

LEMMA NotIngesting ==
  ASSUME w \in Worker, WorkerStep, ~Claim, ~ReadHead
  PROVE  w'.pc # "ingest"
<1>1. CASE Recover
  BY <1>1 DEF Recover, Resting
<1>2. CASE Reseal \/ Unbound \/ Requeue \/ Bind
  BY <1>2, Idles DEF Reseal, Unbound, Requeue, Bind
<1>3. CASE Prepare
  BY <1>3, Idles DEF Prepare, Worker
<1>4. CASE Dispatch
  BY <1>4, Idles DEF Dispatch, Worker
<1>5. CASE Ingest
  <2>1. ASSUME Repair(w.k, w.t) PROVE w'.pc # "ingest"
    BY <2>1, Idles DEF Repair, Worker
  <2> QED
    BY <1>5, <2>1, Idles, IngestCases DEF Worker
<1>6. CASE Publish
  BY <1>6, Idles DEF Publish, Worker
<1>7. CASE WriteFiles \/ Seal \/ Rebuild
  BY <1>7, Idles DEF WriteFiles, Seal, Rebuild, Worker
<1> QED
  BY <1>1, <1>2, <1>3, <1>4, <1>5, <1>6, <1>7 DEF WorkerStep

LEMMA ClaimWrites ==
  ASSUME QueueInv, Claim, w'.pc # "idle"
  PROVE  /\ Busy /\ tasks' = [tasks EXCEPT ![w.k].st = "running"]
         /\ tasks'[w.k] = [tasks[w.k] EXCEPT !.st = "running"]
         /\ w'.t = tasks'[w.k] /\ w'.k = w.k /\ w'.t.st = "running"
<1>1. Busy /\ Resting.pc = "idle"
  BY DEF Claim, Busy, WorkSteps, Resting
<1>2. /\ tasks' = [tasks EXCEPT ![w.k].st = "running"]
      /\ w' = [w EXCEPT !.pc = AfterClaim(w.t), !.t = [tasks[w.k] EXCEPT !.st = "running"]]
  BY <1>1 DEF Claim
<1> DEFINE row == [tasks[w.k] EXCEPT !.st = "running"]
<1>3. row \in TaskRow /\ row.st = "running"
  BY <1>1, Working, Restated DEF Statuses
<1>4. tasks \in Seq(TaskRow) /\ w.k \in 1 .. Len(tasks) /\ w \in Worker
  BY <1>1, Working DEF Shapes, Ids
<1>5. tasks' = [tasks EXCEPT ![w.k] = row] /\ w' = [w EXCEPT !.pc = AfterClaim(w.t), !.t = row]
  BY <1>2
<1> HIDE DEF row
<1>6. tasks'[w.k] = row /\ w'.t = row /\ w'.k = w.k
  BY <1>4, <1>5 DEF Worker
<1> QED
  BY <1>1, <1>2, <1>3, <1>6 DEF row

LEMMA ReadWrites ==
  ASSUME QueueInv, ReadHead
  PROVE  /\ w.pc = "idle" /\ UNCHANGED <<tasks, runs, pubs, rels, staging, current, files>>
         /\ w'.k \in Ids /\ w'.t = tasks[w'.k] /\ w'.pc = Due(w'.t) /\ OccupiesHead(w'.t)
         /\ w'.pc \in {"claim", "unbound", "ingest", "requeue"}
         /\ w'.pc = "ingest" => w'.t.st = "running"
<1> PICK k \in Ids : /\ IsHead(k) /\ Due(tasks[k]) # "none"
                     /\ w' = [Resting EXCEPT !.pc = Due(tasks[k]), !.k = k, !.t = tasks[k]]
  BY DEF ReadHead
<1>1. w'.pc = Due(tasks[k]) /\ w'.k = k /\ w'.t = tasks[k] /\ OccupiesHead(tasks[k])
  BY DEF Resting, IsHead, Held
<1>2. Due(tasks[k]) = "ingest" => tasks[k].st = "running"
  BY DEF Due
<1> QED
  BY <1>1, <1>2, DueStep DEF ReadHead

LEMMA InStepStep ==
  ASSUME QueueInv, Counted, InStep, ~used'.raced, [KNext]_kvars
  PROVE  InStep'
<1> SUFFICES ASSUME w'.pc = "ingest"
             PROVE  \/ tasks'[w'.k].st = "cancelled"
                    \/ tasks'[w'.k].st = "running" /\ tasks'[w'.k].run = w'.t.run
  BY DEF InStep
<1>1. w \in Worker /\ Shapes
  BY Rows DEF QueueInv
<1>2. CASE Claim
  BY <1>2, ClaimWrites
<1>3. CASE ReadHead
  BY <1>3, ReadWrites
<1>4. CASE WorkerStep /\ ~Claim /\ ~ReadHead
  BY <1>1, <1>4, NotIngesting
<1>5. CASE UNCHANGED <<tasks, w>>
  BY <1>5 DEF InStep
<1>6. CASE RetryWrite \/ CancelWrite
  <2>1. w' = w /\ w.k \in Ids /\ RowsBut(op.k) /\ (w.k = op.k => tasks'[op.k].st = "cancelled")
    BY <1>1, <1>6, NotOvertaken, HandlerWrites, Basics
  <2>2. CASE w.k = op.k
    BY <2>1, <2>2
  <2>3. CASE w.k # op.k
    BY <2>1, <2>3 DEF InStep, RowsBut
  <2> QED
    BY <2>2, <2>3
<1>7. CASE \E kind \in Kinds : Submit(kind)
  <2>1. PICK kind : tasks' = Append(tasks, [NoRow EXCEPT !.kind = kind]) /\ w' = w
    BY <1>7 DEF Submit
  <2>2. w.k \in 1 .. Len(tasks) /\ tasks \in Seq(TaskRow)
    BY <1>1, <2>1, Basics DEF Shapes
  <2>3. tasks'[w.k] = tasks[w.k]
    BY <2>1, <2>2
  <2> QED
    BY <2>1, <2>3 DEF InStep
<1>8. CASE Crash
  BY <1>8 DEF Crash, Resting
<1>9. CASE CancelEvent \/ RunEnds \/ (\E r \in Active : RunWrites(r)) \/ \E k \in Ids : RetryRead(k) \/ CancelRead(k)
  <2>1. UNCHANGED <<tasks, w>>
    BY <1>9 DEF CancelEvent, RunEnds, RunSucceeds, RunFails, RunWrites, RetryRead, CancelRead
  <2> QED
    BY <1>5, <2>1
<1> QED
  BY <1>2, <1>3, <1>4, <1>5, <1>6, <1>7, <1>8, <1>9 DEF KNext, HandlerStep, kvars

LEMMA WrittenRow ==
  ASSUME QueueInv, Busy
  PROVE  /\ \A t \in TaskRow : t.kind = tasks[w.k].kind /\ UpdateTask(w.k, t) => RowsBut(w.k)
         /\ \A t \in TaskRow : t.kind = tasks[w.k].kind /\ Block(w.k, t) => RowsBut(w.k)
         /\ Defer(w.k, w.t) => RowsBut(w.k)
<1>1. ASSUME NEW t \in TaskRow, t.kind = tasks[w.k].kind, UpdateTask(w.k, t) PROVE RowsBut(w.k)
  BY <1>1, Working, Updated
<1>2. ASSUME NEW t \in TaskRow, t.kind = tasks[w.k].kind, Block(w.k, t) PROVE RowsBut(w.k)
  <2>1. [t EXCEPT !.st = "blocked"] \in TaskRow /\ [t EXCEPT !.st = "blocked"].kind = t.kind
    BY Restated DEF Statuses
  <2> QED
    BY <1>1, <1>2, <2>1 DEF Block
<1>3. ASSUME Defer(w.k, w.t) PROVE RowsBut(w.k)
  <2> DEFINE spent == [w.t EXCEPT !.att = @ + 1]
  <2>1. spent \in TaskRow /\ spent.kind = tasks[w.k].kind
    BY Working DEF TaskRow
  <2>2. Block(w.k, spent) \/ UpdateTask(w.k, [spent EXCEPT !.st = "retry_wait"])
    BY <1>3 DEF Defer
  <2> HIDE DEF spent
  <2>3. [spent EXCEPT !.st = "retry_wait"] \in TaskRow /\ [spent EXCEPT !.st = "retry_wait"].kind = spent.kind
    BY <2>1, Restated DEF Statuses
  <2> QED
    BY <1>1, <1>2, <2>1, <2>2, <2>3
<1> QED
  BY <1>1, <1>2, <1>3

LEMMA SettledRow ==
  ASSUME QueueInv, w.pc \in {"seal", "reseal"}, Settle(w.k)
  PROVE  /\ RowsBut(w.k) /\ tasks'[w.k].st = "completed"
         /\ w.k \in Ids /\ pubs[w.k].st = "prepared" /\ pubs[w.k].rel # 0 /\ current' = pubs[w.k].rel
<1> DEFINE row == [tasks[w.k] EXCEPT !.st = "completed"]
<1>1. /\ Shapes /\ w.k \in Ids /\ pubs[w.k].st = "prepared" /\ pubs[w.k].rel # 0 /\ tasks[w.k] \in TaskRow
  BY Basics, Rows DEF QueueInv, Announced
<1>2. row \in TaskRow /\ row.kind = tasks[w.k].kind /\ row.st = "completed"
  BY <1>1, Restated DEF Statuses, Terminal
<1>3. tasks' = [tasks EXCEPT ![w.k] = row] /\ tasks \in Seq(TaskRow) /\ w.k \in 1 .. Len(tasks)
  BY <1>1 DEF Settle, Shapes, Ids
<1>4. current' = pubs[w.k].rel
  BY <1>1 DEF Settle
<1> HIDE DEF row
<1>5. RowsBut(w.k) /\ tasks'[w.k] = row
  BY <1>2, <1>3 DEF RowsBut, Ids
<1> QED
  BY <1>1, <1>2, <1>4, <1>5

LEMMA WorkRows ==
  ASSUME QueueInv,
         Unbound \/ Requeue \/ Claim \/ Prepare \/ Dispatch \/ Bind \/ Ingest \/ Publish \/ WriteFiles \/ Seal \/ Rebuild
  PROVE  Busy /\ RowsBut(w.k) /\ \A i : At(i)' => i = w.k
<1>1. Busy
  BY DEF Unbound, Requeue, Claim, Prepare, Dispatch, Bind, Ingest, Publish, WriteFiles, Seal, Rebuild, Busy, WorkSteps
<1>2. /\ Shapes /\ w.k \in Ids /\ w \in Worker /\ w.t \in TaskRow /\ w.t.kind = tasks[w.k].kind
      /\ UNCHANGED tasks => RowsBut(w.k)
  BY <1>1, Working, NothingMoved
<1>3. RowsBut(w.k)
  <2>1. CASE Unbound \/ Bind
    BY <1>1, <1>2, <2>1, WrittenRow DEF Unbound, Bind
  <2>2. CASE Requeue
    <3>1. [w.t EXCEPT !.st = "queued"] \in TaskRow /\ [w.t EXCEPT !.st = "queued"].kind = w.t.kind
      BY <1>2, Restated DEF Statuses
    <3> QED
      BY <1>1, <1>2, <2>2, <3>1, WrittenRow DEF Requeue
  <2>3. CASE Claim
    <3>1. CASE UNCHANGED tasks
      BY <1>2, <3>1
    <3>2. CASE tasks' = [tasks EXCEPT ![w.k].st = "running"]
      <4> DEFINE row == [tasks[w.k] EXCEPT !.st = "running"]
      <4>1. row \in TaskRow /\ row.kind = tasks[w.k].kind
        BY <1>1, Working, Restated DEF Statuses
      <4>2. tasks' = [tasks EXCEPT ![w.k] = row] /\ tasks \in Seq(TaskRow) /\ w.k \in 1 .. Len(tasks)
        BY <1>2, <3>2 DEF Shapes, Ids
      <4> HIDE DEF row
      <4> QED
        BY <4>1, <4>2 DEF RowsBut, Ids
    <3> QED
      BY <2>3, <3>1, <3>2 DEF Claim
  <2>4. CASE Prepare
    <3>1. [w.t EXCEPT !.staged = TRUE] \in TaskRow /\ [w.t EXCEPT !.staged = TRUE].kind = w.t.kind
      BY <1>2 DEF TaskRow
    <3> QED
      BY <1>1, <1>2, <2>4, <3>1, WrittenRow DEF Prepare
  <2>5. CASE Dispatch
    BY <1>1, <1>2, <2>5, WrittenRow DEF Dispatch
  <2>6. CASE Ingest
    <3>1. ASSUME Repair(w.k, w.t) PROVE RowsBut(w.k)
      <4> DEFINE next == [w.t EXCEPT !.rep = @ + 1, !.turn = w.t.turn + 1]
      <4>1. next \in TaskRow /\ next.kind = w.t.kind
        BY <1>1, <1>2, TurnsTyped, Repaired DEF TaskRow
      <4>2. Block(w.k, w.t) \/ Block(w.k, next) \/ UNCHANGED tasks
        BY <3>1 DEF Repair
      <4> HIDE DEF next
      <4> QED
        BY <1>1, <1>2, <4>1, <4>2, WrittenRow
    <3> QED
      BY <1>1, <1>2, <2>6, <3>1, IngestCases, WrittenRow
  <2>7. CASE Publish \/ WriteFiles \/ Rebuild
    BY <1>1, <1>2, <2>7, WrittenRow DEF Publish, WriteFiles, Rebuild
  <2>8. CASE Seal
    BY <1>1, <2>8, WrittenRow, SettledRow DEF Seal
  <2> QED
    BY <2>1, <2>2, <2>3, <2>4, <2>5, <2>6, <2>7, <2>8
<1>4. w'.pc = "idle" \/ w'.k = w.k
  <2>1. CASE Unbound \/ Requeue \/ Bind \/ Prepare \/ Dispatch
    BY <1>2, <2>1, Idles DEF Unbound, Requeue, Bind, Prepare, Dispatch, Worker
  <2>2. CASE Claim \/ Publish \/ WriteFiles \/ Seal \/ Rebuild
    BY <1>2, <2>2, Idles DEF Claim, Publish, WriteFiles, Seal, Rebuild, Worker
  <2>3. CASE Ingest
    <3>1. ASSUME Repair(w.k, w.t) PROVE w'.pc = "idle" \/ w'.k = w.k
      BY <1>2, <3>1, Idles DEF Repair, Worker
    <3> QED
      BY <1>2, <2>3, <3>1, IngestCases, Idles DEF Worker
  <2> QED
    BY <2>1, <2>2, <2>3
<1> QED
  BY <1>1, <1>3, <1>4 DEF At, Busy, WorkSteps

LEMMA NoTurnAt ==
  ASSUME QueueInv, Turns, Busy, w.pc \notin {"bind", "ingest"}, NEW r \in Active
  PROVE  runs[r].task # w.k
BY DEF Turns, TurnBound, At

LEMMA TurnsMoved ==
  ASSUME QueueInv, Turns, w.pc # "idle", RowsBut(w.k), \A i : At(i)' => i = w.k,
         \A r \in Active' : runs'[r].task # w.k => r \in Active /\ runs'[r].task = runs[r].task,
         \A r \in Active' : runs'[r].task = w.k => TurnBound(r)'
  PROVE  Turns'
<1> SUFFICES ASSUME NEW r \in Active', runs'[r].task # w.k PROVE TurnBound(r)'
  BY DEF Turns
<1> DEFINE k == runs[r].task
<1>1. r \in Active /\ runs'[r].task = k /\ k # w.k /\ r \in RunIds
  BY DEF Active, RunIds
<1>2. k \in Ids /\ tasks'[k] = tasks[k]
  BY <1>1 DEF QueueInv, Named, RowsBut
<1>3. ~At(k) /\ ~At(k)'
  BY <1>1 DEF At
<1>4. OccupiesHead(tasks[k]) => tasks[k].st = "running" /\ tasks[k].run = r
  BY <1>1, <1>3 DEF Turns, TurnBound
<1> QED
  BY <1>1, <1>2, <1>3, <1>4 DEF TurnBound

\* The task the worker is at has no turn, before or after.
LEMMA TurnsQuiet ==
  ASSUME QueueInv, Turns, Busy, \A r \in Active : runs[r].task # w.k, RowsBut(w.k), \A i : At(i)' => i = w.k,
         \A r \in Active' : r \in Active /\ runs'[r].task = runs[r].task
  PROVE  Turns'
<1>1. w.pc # "idle"
  BY DEF Busy, WorkSteps
<1> QED
  BY <1>1, TurnsMoved

LEMMA RunsAfter ==
  ASSUME Shapes, NEW k \in Ids, NEW purpose \in {"turn", "repair"}, NEW n \in Nat,
         NEW s \in {"active", "failed"}, NewRun(k, purpose, n, s)
  PROVE  \A r \in Active' : \/ r \in Active /\ runs'[r].task = runs[r].task
                            \/ s = "active" /\ r = Len(runs) + 1 /\ runs'[r].task = k
<1> DEFINE row == [task |-> k, purpose |-> purpose, turn |-> n, st |-> s]
<1>1. runs \in Seq(RunRow) /\ row \in RunRow /\ runs' = Append(runs, row) /\ row.task = k /\ row.st = s
  BY Basics DEF Shapes, RunRow, NewRun
<1> HIDE DEF row
<1>2. /\ Len(runs') = Len(runs) + 1 /\ Len(runs) \in Nat
      /\ \A i \in 1 .. Len(runs) : runs'[i] = runs[i]
      /\ runs'[Len(runs) + 1] = row
  BY <1>1
<1> SUFFICES ASSUME NEW r \in Active'
             PROVE  \/ r \in Active /\ runs'[r].task = runs[r].task
                    \/ s = "active" /\ r = Len(runs) + 1 /\ runs'[r].task = k
  OBVIOUS
<1>3. r \in 1 .. Len(runs') /\ runs'[r].st = "active"
  BY DEF Active
<1>4. CASE r = Len(runs) + 1
  BY <1>1, <1>2, <1>3, <1>4
<1>5. CASE r \in 1 .. Len(runs)
  BY <1>2, <1>3, <1>5 DEF Active
<1> QED
  BY <1>2, <1>3, <1>4, <1>5

LEMMA SameTurns ==
  ASSUME UNCHANGED runs
  PROVE  Active' = Active /\ \A r \in Active' : r \in Active /\ runs'[r].task = runs[r].task
BY DEF Active

\* Only one task may run while the worker is at the head.
LEMMA HeadMayRun ==
  ASSUME QueueInv, Busy
  PROVE  MayRun(w.k)
<1> SUFFICES ASSUME NEW j \in Ids, j # w.k, tasks[j].st = "running" PROVE FALSE
  BY DEF MayRun
<1>1. w.k \in Ids /\ At(w.k) /\ Ids \subseteq Nat /\ AtHead /\ Order
  BY Working, Basics DEF QueueInv
<1>2. OccupiesHead(tasks[j])
  BY DEF OccupiesHead, Terminal
<1>3. CASE j < w.k
  BY <1>1, <1>2, <1>3 DEF AtHead
<1>4. CASE w.k < j
  BY <1>1, <1>4 DEF Order
<1> QED
  BY <1>1, <1>3, <1>4

LEMMA BoundNew ==
  ASSUME QueueInv, Turns, Busy, \A r \in Active : runs[r].task # w.k, RowsBut(w.k), \A i : At(i)' => i = w.k,
         NEW purpose \in {"turn", "repair"}, NEW n \in Nat, NewRun(w.k, purpose, n, "active"),
         w'.pc = "bind", w'.k = w.k, w'.t.run = Len(runs) + 1, w'.t.st = "running"
  PROVE  Turns'
<1>1. At(w.k)' /\ w.pc # "idle" /\ w.k \in Ids /\ Shapes
  BY Working DEF At, Busy, WorkSteps
<1>2. \A r \in Active' : \/ r \in Active /\ runs'[r].task = runs[r].task
                         \/ r = Len(runs) + 1 /\ runs'[r].task = w.k
  BY <1>1, RunsAfter
<1>3. \A r \in Active' : runs'[r].task = w.k => r = Len(runs) + 1
  BY <1>2
<1>4. \A r \in Active' : runs'[r].task = w.k => TurnBound(r)'
  BY <1>1, <1>3 DEF TurnBound
<1> QED
  BY <1>1, <1>2, <1>4, TurnsMoved

LEMMA DispatchTurns == ASSUME QueueInv, Turns, Dispatch PROVE Turns'
<1> DEFINE n == NextTurn(w.k, w.t)
           next(r) == [w.t EXCEPT !.run = r, !.turn = n, !.st = "running"]
<1>1. /\ Busy /\ w.pc = "dispatch" /\ RowsBut(w.k) /\ \A i : At(i)' => i = w.k
  BY WorkRows DEF Dispatch
<1>2. \A r \in Active : runs[r].task # w.k
  BY <1>1, NoTurnAt
<1>3. Shapes /\ w.k \in Ids /\ n \in Nat /\ w \in Worker /\ w.t \in TaskRow
  BY <1>1, Working, TurnsTyped
<1>4. CASE UNCHANGED runs
  BY <1>1, <1>2, <1>4, SameTurns, TurnsQuiet
<1>5. CASE NewRun(w.k, "turn", n, "failed")
  BY <1>1, <1>2, <1>3, <1>5, RunsAfter, TurnsQuiet
<1>6. ASSUME NewRun(w.k, "turn", n, "active"), w' = [w EXCEPT !.pc = "bind", !.t = next(Len(runs) + 1)]
      PROVE  Turns'
  <2>1. next(Len(runs) + 1).run = Len(runs) + 1 /\ next(Len(runs) + 1).st = "running"
    BY <1>3 DEF TaskRow
  <2> HIDE DEF next, n
  <2>2. w'.pc = "bind" /\ w'.k = w.k /\ w'.t = next(Len(runs) + 1)
    BY <1>3, <1>6 DEF Worker
  <2> QED
    BY <1>1, <1>2, <1>3, <1>6, <2>1, <2>2, BoundNew
<1> QED
  BY <1>4, <1>5, <1>6 DEF Dispatch

LEMMA BindTurns == ASSUME QueueInv, Turns, Bind PROVE Turns'
<1>1. Busy /\ w.pc = "bind" /\ w' = Resting /\ RowsBut(w.k) /\ UNCHANGED runs /\ UpdateTask(w.k, w.t) /\ Shapes
      /\ \A i : At(i)' => i = w.k
  BY WorkRows DEF Bind, QueueInv
<1>2. (\A i : ~At(i)') /\ w.pc # "idle" /\ At(w.k) /\ MayRun(w.k) /\ w.k \in Ids
  BY <1>1, Idles, Working, HeadMayRun DEF At, Busy, WorkSteps
<1>3. tasks'[w.k] = w.t
  BY <1>1, <1>2 DEF UpdateTask, Shapes, Ids
<1>4. \A r \in Active' : runs'[r].task = w.k => TurnBound(r)'
  <2> SUFFICES ASSUME NEW r \in Active, runs[r].task = w.k PROVE TurnBound(r)'
    BY <1>1, SameTurns
  <2>1. w.t.run = r /\ w.t.st = "running"
    BY <1>1, <1>2 DEF Turns, TurnBound
  <2>2. runs'[r].task = w.k /\ tasks'[w.k].st = "running" /\ tasks'[w.k].run = r
    BY <1>1, <1>3, <2>1
  <2> QED
    BY <1>2, <2>2 DEF TurnBound
<1> QED
  BY <1>1, <1>2, <1>4, SameTurns, TurnsMoved

LEMMA IngestTurns == ASSUME QueueInv, Turns, InStep, Ingest PROVE Turns'
<1>1. Busy /\ w.pc = "ingest" /\ RowsBut(w.k) /\ \A i : At(i)' => i = w.k
  BY WorkRows DEF Ingest
<1>2. Shapes /\ w.k \in Ids /\ w \in Worker /\ w.t \in TaskRow /\ At(w.k) /\ w.pc # "idle"
  BY <1>1, Working
<1>3. \A r \in Active : runs[r].task = w.k => w.t.run = r /\ r # 0
  BY <1>1, <1>2 DEF Turns, TurnBound, Active
<1>4. EndedRun(w.t.run) => \A r \in Active : runs[r].task # w.k
  BY <1>3 DEF EndedRun, Active
<1>5. CASE w' = Resting /\ UNCHANGED <<tasks, runs, pubs>>
  <2>1. \A i : ~At(i)'
    BY <1>5, Idles DEF At, Busy, WorkSteps
  <2>2. \A r \in Active' : runs'[r].task = w.k => TurnBound(r)'
    <3> SUFFICES ASSUME NEW r \in Active, runs[r].task = w.k PROVE TurnBound(r)'
      BY <1>5, SameTurns
    <3>1. tasks[w.k].st = "cancelled" \/ (tasks[w.k].st = "running" /\ tasks[w.k].run = r)
      BY <1>1, <1>3 DEF InStep
    <3>2. runs'[r].task = w.k /\ tasks' = tasks
      BY <1>5
    <3> QED
      BY <2>1, <3>1, <3>2 DEF TurnBound, OccupiesHead, Terminal
  <2> QED
    BY <1>1, <1>2, <1>5, <2>2, SameTurns, TurnsMoved
<1>6. CASE EndedRun(w.t.run) /\ UNCHANGED runs
  BY <1>1, <1>4, <1>6, SameTurns, TurnsQuiet
<1>7. ASSUME EndedRun(w.t.run), Repair(w.k, w.t) PROVE Turns'
  <2> DEFINE n == w.t.turn + 1
             next == [w.t EXCEPT !.rep = @ + 1, !.turn = n]
             bound == [next EXCEPT !.run = Len(runs) + 1, !.st = "running"]
  <2>1. n \in Nat /\ next \in TaskRow
    BY <1>1, <1>2, TurnsTyped, Repaired DEF TaskRow
  <2>2. \/ UNCHANGED runs \/ NewRun(w.k, "repair", n, "failed")
        \/ NewRun(w.k, "repair", n, "active") /\ w' = [w EXCEPT !.pc = "bind", !.t = bound]
    BY <1>7 DEF Repair
  <2> HIDE DEF n, next
  <2>3. bound.run = Len(runs) + 1 /\ bound.st = "running"
    BY <2>1 DEF TaskRow
  <2> HIDE DEF bound
  <2>4. CASE UNCHANGED runs
    BY <1>6, <1>7, <2>4
  <2>5. CASE NewRun(w.k, "repair", n, "failed")
    BY <1>1, <1>2, <1>4, <1>7, <2>1, <2>5, RunsAfter, TurnsQuiet
  <2>6. CASE NewRun(w.k, "repair", n, "active") /\ w' = [w EXCEPT !.pc = "bind", !.t = bound]
    <3>1. w'.pc = "bind" /\ w'.k = w.k /\ w'.t = bound
      BY <1>2, <2>6 DEF Worker
    <3> QED
      BY <1>1, <1>4, <1>7, <2>1, <2>3, <2>6, <3>1, BoundNew
  <2> QED
    BY <2>2, <2>4, <2>5, <2>6
<1> QED
  BY <1>5, <1>6, <1>7, IngestCases

LEMMA QuietTurns ==
  ASSUME QueueInv, Turns,
         Unbound \/ Requeue \/ Claim \/ Prepare \/ Publish \/ WriteFiles \/ Seal \/ Rebuild
  PROVE  Turns'
<1>1. UNCHANGED runs /\ w.pc \notin {"bind", "ingest"}
  BY DEF Unbound, Requeue, Claim, Prepare, Publish, WriteFiles, Seal, Rebuild
<1>2. Busy /\ RowsBut(w.k) /\ \A i : At(i)' => i = w.k
  BY WorkRows
<1>3. \A r \in Active : runs[r].task # w.k
  BY <1>1, <1>2, NoTurnAt
<1> QED
  BY <1>1, <1>2, <1>3, SameTurns, TurnsQuiet

LEMMA StillTurns ==
  ASSUME Turns, UNCHANGED tasks, \A r \in Active' : r \in Active /\ runs'[r].task = runs[r].task,
         UNCHANGED w \/ (~Busy /\ ~Busy')
  PROVE  Turns'
<1> SUFFICES ASSUME NEW r \in Active' PROVE TurnBound(r)'
  BY DEF Turns
<1>1. TurnBound(r) /\ runs'[r].task = runs[r].task
  BY DEF Turns
<1>2. CASE UNCHANGED w
  BY <1>1, <1>2 DEF TurnBound, At, Busy
<1>3. CASE ~Busy /\ ~Busy'
  BY <1>1, <1>3 DEF TurnBound, At
<1> QED
  BY <1>2, <1>3

LEMMA ResealTurns == ASSUME QueueInv, Turns, Reseal PROVE Turns'
<1>1. w.pc = "reseal" /\ w' = Resting /\ UNCHANGED runs
  BY DEF Reseal
<1>2. ~Busy /\ ~Busy'
  BY <1>1, Idles DEF Busy, WorkSteps
<1>3. CASE UNCHANGED tasks
  BY <1>1, <1>2, <1>3, SameTurns, StillTurns
<1>4. CASE Settle(w.k)
  <2>1. RowsBut(w.k) /\ ~OccupiesHead(tasks'[w.k])
    BY <1>1, <1>4, SettledRow DEF OccupiesHead, Terminal
  <2>2. \A r \in Active' : runs'[r].task = w.k => TurnBound(r)'
    BY <1>2, <2>1 DEF TurnBound, At
  <2> QED
    BY <1>1, <1>2, <2>1, <2>2, SameTurns, TurnsMoved DEF At
<1> QED
  BY <1>3, <1>4 DEF Reseal

LEMMA ReadHeadTurns == ASSUME QueueInv, Turns, ReadHead PROVE Turns'
<1>1. /\ w.pc = "idle" /\ ~Busy /\ UNCHANGED <<tasks, runs>> /\ w'.k \in Ids /\ w'.t = tasks[w'.k]
      /\ w'.pc = Due(w'.t) /\ OccupiesHead(w'.t) /\ w'.pc \in {"claim", "unbound", "ingest", "requeue"}
  BY ReadWrites DEF Busy, WorkSteps
<1> SUFFICES ASSUME NEW r \in Active PROVE TurnBound(r)'
  BY <1>1, SameTurns DEF Turns
<1> DEFINE k == runs[r].task
<1>2. runs'[r].task = k /\ k \in Ids /\ tasks[k].kind = "write" /\ r # 0
  BY <1>1 DEF QueueInv, Named, Active, RunIds
<1>3. OccupiesHead(tasks[k]) => tasks[k].st = "running" /\ tasks[k].run = r
  BY <1>1 DEF Turns, TurnBound, At
<1>4. CASE w'.k = k
  <2>1. w'.pc = "ingest" /\ w'.t.run = r
    BY <1>1, <1>2, <1>3, <1>4 DEF Due
  <2> QED
    BY <1>2, <1>4, <2>1 DEF TurnBound, At, Busy, WorkSteps
<1>5. CASE w'.k # k
  BY <1>1, <1>2, <1>3, <1>5 DEF TurnBound, At
<1> QED
  BY <1>4, <1>5

LEMMA HandlerTurns ==
  ASSUME QueueInv, Counted, ~used'.raced, Turns, RetryWrite \/ CancelWrite
  PROVE  Turns'
<1>1. /\ UNCHANGED <<runs, w>> /\ RowsBut(op.k) /\ op.k \in Ids
      /\ tasks'[op.k].st = "cancelled" \/ (OccupiesHead(tasks[op.k]) /\ tasks[op.k].st # "running")
  BY NotOvertaken, HandlerWrites
<1> SUFFICES ASSUME NEW r \in Active PROVE TurnBound(r)'
  BY <1>1, SameTurns DEF Turns
<1> DEFINE k == runs[r].task
<1>2. TurnBound(r) /\ k \in Ids /\ runs'[r].task = k
  BY <1>1 DEF Turns, QueueInv, Named, Active, RunIds
<1>3. \A i : At(i)' = At(i)
  BY <1>1 DEF At, Busy
<1>4. CASE k = op.k /\ ~At(k)
  BY <1>1, <1>2, <1>3, <1>4 DEF TurnBound, OccupiesHead, Terminal
<1>5. CASE k # op.k \/ At(k)
  BY <1>1, <1>2, <1>3, <1>5 DEF TurnBound, RowsBut
<1> QED
  BY <1>4, <1>5

LEMMA SubmitTurns ==
  ASSUME QueueInv, Turns, NEW kind \in Kinds, Submit(kind)
  PROVE  Turns'
<1>1. tasks' = Append(tasks, [NoRow EXCEPT !.kind = kind]) /\ UNCHANGED <<runs, w>> /\ tasks \in Seq(TaskRow)
  BY DEF Submit, QueueInv, Shapes
<1> SUFFICES ASSUME NEW r \in Active PROVE TurnBound(r)'
  BY <1>1, SameTurns DEF Turns
<1> DEFINE k == runs[r].task
<1>2. TurnBound(r) /\ k \in 1 .. Len(tasks) /\ runs'[r].task = k
  BY <1>1 DEF Turns, QueueInv, Named, Active, RunIds, Ids
<1>3. tasks'[k] = tasks[k]
  BY <1>1, <1>2
<1> QED
  BY <1>1, <1>2, <1>3 DEF TurnBound, At, Busy

LEMMA CrashTurns ==
  ASSUME QueueInv, Counted, Crash, ~used'.outlived
  PROVE  Turns'
<1> PICK dead :
       /\ runs' = [r \in 1 .. Len(runs) |-> IF r \in dead THEN [runs[r] EXCEPT !.st = "failed"] ELSE runs[r]]
       /\ used' = [used EXCEPT !.crashes = @ + 1, !.outlived = @ \/ dead # Active]
  BY DEF Crash
<1>1. dead = Active
  BY DEF Counted
<1>2. runs \in Seq(RunRow) /\ Len(runs) \in Nat
  BY DEF QueueInv, Shapes
<1>3. ASSUME NEW r \in 1 .. Len(runs) PROVE runs'[r].st # "active"
  <2>1. runs[r] \in RunRow
    BY <1>2, <1>3
  <2> QED
    BY <1>1, <2>1 DEF RunRow, Active
<1>4. Active' = {}
  <2>1. Len(runs') = Len(runs)
    BY <1>2
  <2> QED
    BY <1>3, <2>1 DEF Active
<1> QED
  BY <1>4 DEF Turns

LEMMA TurnsStep ==
  ASSUME QueueInv, Counted, InStep, Turns, [KNext]_kvars, ~used'.raced, ~used'.outlived
  PROVE  Turns'
<1>1. CASE WorkerStep
  <2>1. CASE Recover
    <3>1. UNCHANGED <<tasks, runs>> /\ ~Busy /\ ~Busy'
      BY <2>1 DEF Recover, Busy, WorkSteps, Resting
    <3> QED
      BY <3>1, SameTurns, StillTurns
  <2> QED
    BY <1>1, <2>1, ResealTurns, ReadHeadTurns, QuietTurns, DispatchTurns, BindTurns, IngestTurns DEF WorkerStep
<1>2. CASE RetryWrite \/ CancelWrite
  BY <1>2, HandlerTurns
<1>3. CASE RunEnds
  <2>1. PICK r \in Active : RunSucceeds(r) \/ RunFails(r)
    BY <1>3 DEF RunEnds
  <2>2. PICK s \in {"succeeded", "failed"} : runs' = [runs EXCEPT ![r].st = s]
    BY <2>1 DEF RunSucceeds, RunFails
  <2>3. UNCHANGED <<tasks, w>> /\ Shapes /\ r \in RunIds
    BY <2>1 DEF RunSucceeds, RunFails, QueueInv, Active, RunIds
  <2>4. \A i \in Active' : i \in Active /\ runs'[i].task = runs[i].task
    BY <2>2, <2>3, RunEnded DEF Active, RunIds
  <2> QED
    BY <2>3, <2>4, StillTurns
<1>4. CASE \E kind \in Kinds : Submit(kind)
  BY <1>4, SubmitTurns
<1>5. CASE UNCHANGED <<tasks, runs, w>>
  BY <1>5, SameTurns, StillTurns
<1>6. CASE CancelEvent \/ (\E r \in Active : RunWrites(r)) \/ \E k \in Ids : RetryRead(k) \/ CancelRead(k)
  <2>1. UNCHANGED <<tasks, runs, w>>
    BY <1>6 DEF CancelEvent, RunWrites, RetryRead, CancelRead
  <2> QED
    BY <1>5, <2>1
<1>7. CASE Crash
  BY <1>7, CrashTurns
<1> QED
  BY <1>1, <1>2, <1>3, <1>4, <1>5, <1>6, <1>7 DEF KNext, HandlerStep, kvars

LEMMA TurnInvStep ==
  ASSUME TurnInv, [KNext]_kvars
  PROVE  TurnInv'
<1>1. Counted /\ Counted' /\ (used.outlived => used'.outlived) /\ (used.raced => used'.raced)
  BY CountedStep DEF TurnInv
<1>2. ASSUME ~used'.raced PROVE QueueInv' /\ InStep' /\ TurnsBound'
  <2>1. QueueInv /\ InStep /\ TurnsBound
    BY <1>1, <1>2 DEF TurnInv
  <2>2. QueueInv' /\ InStep'
    BY <1>1, <1>2, <2>1, QueueStep, InStepStep
  <2>3. ASSUME ~used'.outlived PROVE Turns'
    BY <1>1, <1>2, <2>1, <2>3, TurnsStep DEF TurnsBound
  <2> QED
    BY <2>2, <2>3 DEF TurnsBound
<1> QED
  BY <1>1, <1>2 DEF TurnInv

LEMMA TurnsInit == KInit => InStep /\ Turns
<1> SUFFICES ASSUME KInit PROVE InStep /\ Turns
  OBVIOUS
<1>1. InStep
  BY DEF KInit, InStep, Resting
<1>2. Active = {}
  BY DEF KInit, Active
<1> QED
  BY <1>1, <1>2 DEF Turns

\* A turn that works is the one its task's row names, and the task is the one
\* that is running: until a run outlives its process or a retry overtakes the
\* worker.
THEOREM TurnsInvariant == KSpec => []TurnInv
<1>1. TurnInv /\ [KNext]_kvars => TurnInv'
  BY TurnInvStep
<1>2. KInit => TurnInv
  BY TurnsInit, QueueInit, CountedInit DEF TurnInv, TurnsBound
<1> QED
  BY <1>1, <1>2, PTL DEF KSpec

\* A staging directory is emptied for the turn to come, or written by a run
\* that works for its task.
LEMMA StagingMoves ==
  ASSUME QueueInv, [KNext]_kvars, NEW k \in Ids
  PROVE  \/ staging'[k] = staging[k]
         \/ staging'[k] = Empty /\ k = w.k /\ w.pc = "prepare"
         \/ staging'[k].by \in Active /\ runs[staging'[k].by].task = k
<1>1. Shapes
  BY DEF QueueInv
<1>2. CASE UNCHANGED staging
  BY <1>2
<1>3. CASE Prepare
  BY <1>1, <1>3 DEF Prepare, Shapes, Ids
<1>4. ASSUME NEW r \in Active, NEW f \in BOOLEAN, Written(r, f)
      PROVE  staging'[k] = staging[k] \/ (staging'[k].by \in Active /\ runs[staging'[k].by].task = k)
  <2>1. r \in RunIds
    BY DEF Active, RunIds
  <2>2. CASE k = runs[r].task
    <3>1. PICK good \in BOOLEAN : staging'[k] = [by |-> r, final |-> f, good |-> good]
      BY <1>4, <2>1, <2>2, WrittenSound
    <3> QED
      BY <2>2, <3>1
  <2>3. CASE k # runs[r].task
    BY <1>4, <2>1, <2>3, WrittenSound
  <2> QED
    BY <2>2, <2>3
<1>5. CASE \E kind \in Kinds : Submit(kind)
  <2>1. staging' = Append(staging, Empty) /\ staging \in Seq(Content) /\ k \in 1 .. Len(staging)
    BY <1>1, <1>5 DEF Submit, Shapes, Ids
  <2>2. staging'[k] = staging[k]
    BY <2>1
  <2> QED
    BY <2>2
<1>6. CASE RunEnds \/ \E r \in Active : RunWrites(r)
  BY <1>2, <1>4, <1>6 DEF RunEnds, RunSucceeds, RunFails, RunWrites
<1>7. CASE WorkerStep /\ ~Prepare
  BY <1>2, <1>7 DEF WorkerStep, Recover, Reseal, ReadHead, Unbound, Requeue, Claim, Dispatch, Bind, Ingest,
     Publish, WriteFiles, Seal, Rebuild
<1>8. CASE HandlerStep \/ Crash \/ \E j \in Ids : RetryRead(j) \/ CancelRead(j)
  BY <1>2, <1>8 DEF HandlerStep, RetryWrite, CancelWrite, CancelEvent, Crash, RetryRead, CancelRead
<1> QED
  BY <1>2, <1>3, <1>5, <1>6, <1>7, <1>8 DEF KNext, kvars

LEMMA StagingStep ==
  ASSUME TurnInv, [KNext]_kvars, ~used.raced, ~used.outlived, NEW k \in Ids,
         staging'[k] = Empty, staging[k] # Empty
  PROVE  \A r \in Active : runs[r].task # k
<1>1. QueueInv /\ Turns
  BY DEF TurnInv, TurnsBound
<1>2. k = w.k /\ w.pc = "prepare"
  BY <1>1, StagingMoves DEF Empty, Active
<1> QED
  BY <1>1, <1>2, NoTurnAt DEF Busy, WorkSteps

\* A staging directory is never emptied under the turn that writes it, unless
\* a run has outlived its process or a retry has overtaken the worker.
THEOREM DirectoryKept == KSpec => StagingKept
<1>1. TurnInv /\ [KNext]_kvars => [\A k \in Ids : staging'[k] = Empty /\ staging[k] # Empty
                    => used.raced \/ used.outlived \/ \A r \in Active : runs[r].task # k]_kvars
  BY StagingStep
<1> QED
  BY <1>1, TurnsInvariant, PTL DEF KSpec, StagingKept

-----------------------------------------------------------------------------
(* What was published does not come again                                   *)

LEMMA RunsStep ==
  ASSUME QueueInv, [KNext]_kvars
  PROVE  RunsKept /\ \A r \in Active' : r \in Active \/ r \notin RunIds
<1>1. Shapes /\ Len(runs) \in Nat /\ RunIds = 1 .. Len(runs)
  BY DEF QueueInv, Shapes, RunIds
<1>2. CASE UNCHANGED runs
  BY <1>1, <1>2, NothingMoved, SameTurns
<1>3. ASSUME Busy, tasks[w.k].kind = "write", NEW purpose \in {"turn", "repair"}, NEW n \in Nat, NEW s \in {"active", "failed"},
             NewRun(w.k, purpose, n, s)
      PROVE  RunsKept /\ \A r \in Active' : r \in Active \/ r \notin RunIds
  <2>1. w.k \in Ids
    BY <1>3, Working
  <2>2. RunsKept
    BY <1>1, <1>3, <2>1, RunAdded
  <2>3. \A r \in Active' : r \in Active \/ r = Len(runs) + 1
    BY <1>1, <1>3, <2>1, RunsAfter
  <2> QED
    BY <1>1, <2>2, <2>3
<1>4. CASE Dispatch
  <2>1. Busy /\ w.pc = "dispatch"
    BY <1>4 DEF Dispatch, Busy, WorkSteps
  <2>2. tasks[w.k].kind = "write" /\ NextTurn(w.k, w.t) \in Nat
    BY <2>1, Working, TurnsTyped DEF TaskRow
  <2>3. UNCHANGED runs \/ \E s \in {"active", "failed"} : NewRun(w.k, "turn", NextTurn(w.k, w.t), s)
    BY <1>4 DEF Dispatch
  <2> QED
    BY <1>2, <1>3, <2>1, <2>2, <2>3
<1>5. CASE Ingest
  <2>1. Busy /\ w.pc = "ingest"
    BY <1>5 DEF Ingest, Busy, WorkSteps
  <2>2. tasks[w.k].kind = "write" /\ w.t.turn + 1 \in Nat
    BY <2>1, Working, TurnsTyped DEF TaskRow
  <2>3. Repair(w.k, w.t) => UNCHANGED runs \/ \E s \in {"active", "failed"} : NewRun(w.k, "repair", w.t.turn + 1, s)
    BY DEF Repair
  <2>4. UNCHANGED runs \/ \E s \in {"active", "failed"} : NewRun(w.k, "repair", w.t.turn + 1, s)
    BY <1>5, <2>3, IngestCases
  <2> QED
    BY <1>2, <1>3, <2>1, <2>2, <2>4
<1>6. CASE RunEnds
  <2>1. PICK r \in Active : RunSucceeds(r) \/ RunFails(r)
    BY <1>6 DEF RunEnds
  <2>2. PICK s \in {"succeeded", "failed"} : runs' = [runs EXCEPT ![r].st = s]
    BY <2>1 DEF RunSucceeds, RunFails
  <2>3. r \in RunIds
    BY DEF Active, RunIds
  <2>4. RunsKept /\ \A i \in Active' : i \in Active
    BY <1>1, <2>2, <2>3, RunEnded DEF Active, RunIds
  <2> QED
    BY <2>4
<1>7. CASE Crash
  <2> PICK dead : runs' = [r \in 1 .. Len(runs) |-> IF r \in dead THEN [runs[r] EXCEPT !.st = "failed"] ELSE runs[r]]
    BY <1>7 DEF Crash
  <2> DEFINE row(r) == IF r \in dead THEN [runs[r] EXCEPT !.st = "failed"] ELSE runs[r]
  <2>1. ASSUME NEW r \in 1 .. Len(runs)
        PROVE  row(r) \in RunRow /\ row(r).task = runs[r].task /\ (row(r).st = "active" => runs[r].st = "active")
    <3>1. runs[r] \in RunRow
      BY <1>1, <2>1, Rows DEF RunIds
    <3> QED
      BY <3>1 DEF RunRow
  <2>2. runs' = [r \in 1 .. Len(runs) |-> row(r)]
    OBVIOUS
  <2> HIDE DEF row
  <2>3. runs' \in Seq(RunRow) /\ Len(runs') = Len(runs)
    BY <1>1, <2>1, <2>2
  <2>4. RunsKept
    BY <1>1, <2>1, <2>2, <2>3 DEF RunsKept, RunIds
  <2>5. \A r \in Active' : r \in Active
    BY <2>1, <2>2, <2>3 DEF Active
  <2> QED
    BY <2>4, <2>5
<1>8. CASE WorkerStep /\ ~Dispatch /\ ~Ingest
  BY <1>2, <1>8 DEF WorkerStep, Recover, Reseal, ReadHead, Unbound, Requeue, Claim, Prepare, Bind,
     Publish, WriteFiles, Seal, Rebuild
<1>9. CASE HandlerStep \/ (\E r \in Active : RunWrites(r)) \/ (\E kind \in Kinds : Submit(kind))
           \/ \E j \in Ids : RetryRead(j) \/ CancelRead(j)
  BY <1>2, <1>9 DEF HandlerStep, RetryWrite, CancelWrite, CancelEvent, RunWrites, Submit, RetryRead, CancelRead
<1> QED
  BY <1>2, <1>4, <1>5, <1>6, <1>7, <1>8, <1>9 DEF KNext, kvars

LEMMA RelsStep ==
  ASSUME QueueInv, [KNext]_kvars, ~Publish
  PROVE  rels' = rels /\ \A k \in Ids : pubs'[k].rel = pubs[k].rel
<1>1. Shapes /\ \A k \in Ids : pubs[k] \in PubRow
  BY Rows DEF QueueInv
<1>2. CASE UNCHANGED <<rels, pubs>>
  BY <1>2
<1>3. ASSUME NEW k, NEW s, pubs' = [pubs EXCEPT ![k].st = s] PROVE \A j \in Ids : pubs'[j].rel = pubs[j].rel
  <2> DEFINE pub == [pubs[k] EXCEPT !.st = s]
  <2> SUFFICES ASSUME NEW j \in Ids PROVE pubs'[j].rel = pubs[j].rel
    OBVIOUS
  <2>1. k \in Ids => pub.rel = pubs[k].rel
    BY <1>1 DEF PubRow
  <2>2. pubs' = [pubs EXCEPT ![k] = pub] /\ pubs \in Seq(PubRow) /\ j \in 1 .. Len(pubs)
    BY <1>1, <1>3 DEF Shapes, Ids
  <2> HIDE DEF pub
  <2> QED
    BY <2>1, <2>2
<1>4. ASSUME NEW k, Settle(k) PROVE \A j \in Ids : pubs'[j].rel = pubs[j].rel
  <2>1. pubs' = [pubs EXCEPT ![k].st = IF pubs[k].st = "prepared" THEN "committed" ELSE pubs[k].st]
    BY <1>4 DEF Settle
  <2> QED
    BY <1>3, <2>1
<1>5. CASE Recover
  <2>1. UNCHANGED pubs \/ \E k : pubs' = [pubs EXCEPT ![k].st = "abandoned"]
    BY <1>5 DEF Recover
  <2> QED
    BY <1>3, <1>5, <2>1 DEF Recover
<1>6. CASE Reseal \/ Seal
  BY <1>4, <1>6 DEF Reseal, Seal
<1>7. CASE Ingest
  <2>1. CASE pubs' = [pubs EXCEPT ![w.k] = IF @.st = "none" THEN [st |-> "prepared", rel |-> 0] ELSE @]
    <3> DEFINE pub == IF pubs[w.k].st = "none" THEN [st |-> "prepared", rel |-> 0] ELSE pubs[w.k]
    <3>1. w.k \in Ids
      BY <1>7, Working DEF Ingest, Busy, WorkSteps
    <3>2. pub.rel = pubs[w.k].rel
      BY <3>1 DEF QueueInv, Named
    <3>3. pubs' = [pubs EXCEPT ![w.k] = pub] /\ pubs \in Seq(PubRow) /\ Ids = 1 .. Len(pubs)
      BY <1>1, <2>1 DEF Shapes, Ids
    <3> HIDE DEF pub
    <3>4. \A j \in Ids : pubs'[j].rel = pubs[j].rel
      BY <3>2, <3>3
    <3> QED
      BY <1>7, <3>4 DEF Ingest
  <2>2. UNCHANGED rels
    BY <1>7 DEF Ingest
  <2> QED
    BY <1>2, <1>7, <2>1, <2>2, IngestCases
<1>8. CASE \E kind \in Kinds : Submit(kind)
  <2>1. pubs' = Append(pubs, NoPub) /\ rels' = rels /\ pubs \in Seq(PubRow) /\ Ids = 1 .. Len(pubs)
    BY <1>1, <1>8 DEF Submit, Shapes, Ids
  <2> QED
    BY <2>1
<1>9. CASE WorkerStep /\ ~Recover /\ ~Reseal /\ ~Ingest /\ ~Seal
  BY <1>2, <1>9 DEF WorkerStep, ReadHead, Unbound, Requeue, Claim, Prepare, Dispatch, Bind, WriteFiles, Rebuild
<1>10. CASE HandlerStep \/ RunEnds \/ Crash \/ (\E r \in Active : RunWrites(r)) \/ \E j \in Ids : RetryRead(j) \/ CancelRead(j)
  BY <1>2, <1>10 DEF HandlerStep, RetryWrite, CancelWrite, CancelEvent, RunEnds, RunSucceeds, RunFails, Crash,
     RunWrites, RetryRead, CancelRead
<1> QED
  BY <1>2, <1>5, <1>6, <1>7, <1>8, <1>9, <1>10 DEF KNext, kvars

LEMMA Growth ==
  ASSUME QueueInv, [KNext]_kvars
  PROVE  Ids \subseteq Ids'
<1>1. Shapes /\ Len(tasks) \in Nat
  BY DEF QueueInv, Shapes
<1>2. CASE Len(tasks') = Len(tasks)
  BY <1>2 DEF Ids
<1>3. CASE \E kind \in Kinds : Submit(kind)
  <2>1. PICK kind : tasks' = Append(tasks, [NoRow EXCEPT !.kind = kind])
    BY <1>3 DEF Submit
  <2>2. Len(tasks') = Len(tasks) + 1
    BY <1>1, <2>1 DEF Shapes
  <2> QED
    BY <1>1, <2>2 DEF Ids
<1>4. CASE UNCHANGED tasks
  BY <1>2, <1>4
<1>5. CASE WorkerStep
  <2>1. CASE Recover \/ ReadHead
    BY <1>4, <2>1 DEF Recover, ReadHead
  <2>2. CASE Reseal
    BY <1>2, <1>4, <2>2, SettledRow DEF Reseal, RowsBut
  <2> QED
    BY <1>2, <1>5, <2>1, <2>2, WorkRows DEF WorkerStep, RowsBut
<1>6. CASE RetryWrite \/ CancelWrite
  BY <1>2, <1>6, HandlerWrites DEF RowsBut
<1>7. CASE CancelEvent \/ RunEnds \/ Crash \/ (\E r \in Active : RunWrites(r)) \/ \E j \in Ids : RetryRead(j) \/ CancelRead(j)
  BY <1>4, <1>7 DEF CancelEvent, RunEnds, RunSucceeds, RunFails, Crash, RunWrites, RetryRead, CancelRead
<1> QED
  BY <1>3, <1>4, <1>5, <1>6, <1>7 DEF KNext, HandlerStep, kvars

LEMMA PublishWrites ==
  ASSUME QueueInv, Publish, NEW n, n = Len(rels) + 1
  PROVE  /\ Busy /\ w.k \in Ids /\ w.pc = "publish" /\ UNCHANGED <<runs, staging, current, files>>
         /\ \/ UNCHANGED <<rels, pubs>> /\ w'.pc = "idle"
            \/ /\ Rels' = Rels \cup {n} /\ n \notin Rels /\ n # 0
               /\ \A r \in Rels : rels'[r] = rels[r]
               /\ rels'[n].task = w.k /\ rels'[n].content = w.c /\ rels'[n].docs = Carried \cup {w.k}
               /\ \A k \in Ids : k # w.k => pubs'[k] = pubs[k]
               /\ pubs'[w.k].st = "prepared" /\ pubs'[w.k].rel = n
               /\ w'.pc = "files" /\ w'.k = w.k /\ w'.rel = n
<1> DEFINE new == [task |-> w.k, content |-> w.c, docs |-> Carried \cup {w.k}]
           pub == IF pubs[w.k].st = "none" THEN [st |-> "prepared", rel |-> n] ELSE [pubs[w.k] EXCEPT !.rel = n]
<1>1. Busy /\ w.pc = "publish" /\ UNCHANGED <<runs, staging, current, files>>
  BY DEF Publish, Busy, WorkSteps
<1>2. Shapes /\ Announced /\ w.k \in Ids /\ At(w.k) /\ w \in Worker
  BY <1>1, Working DEF QueueInv
<1>3. CASE Defer(w.k, w.t) /\ UNCHANGED <<rels, pubs>>
  BY <1>1, <1>2, <1>3, Idles
<1>4. ASSUME rels' = Append(rels, new), pubs' = [pubs EXCEPT ![w.k] = pub], w' = [w EXCEPT !.pc = "files", !.rel = n]
      PROVE  /\ Rels' = Rels \cup {n} /\ n \notin Rels /\ n # 0
             /\ \A r \in Rels : rels'[r] = rels[r]
             /\ rels'[n].task = w.k /\ rels'[n].content = w.c /\ rels'[n].docs = Carried \cup {w.k}
             /\ \A k \in Ids : k # w.k => pubs'[k] = pubs[k]
             /\ pubs'[w.k].st = "prepared" /\ pubs'[w.k].rel = n
             /\ w'.pc = "files" /\ w'.k = w.k /\ w'.rel = n
  <2>1. rels \in Seq(RelRow) /\ n \in Nat /\ n # 0 /\ Len(rels) \in Nat
    BY <1>2 DEF Shapes
  <2>2. current # 0 => rels[current].docs \subseteq Nat
    BY <1>2, Basics, Rows DEF RelRow
  <2>3. new \in RelRow
    BY <1>2, <2>2, Basics DEF RelRow, Carried, Worker
  <2>4. pub.st = "prepared" /\ pub.rel = n
    BY <1>2, <2>1, Rows DEF PubRow, Announced
  <2> HIDE DEF new, pub
  <2>5. Len(rels') = n /\ rels'[n] = new /\ \A r \in 1 .. Len(rels) : rels'[r] = rels[r]
    BY <1>4, <2>1, <2>3
  <2>6. Rels' = Rels \cup {n} /\ n \notin Rels /\ Rels = 1 .. Len(rels)
    BY <2>1, <2>5 DEF Rels
  <2>7. pubs'[w.k] = pub /\ \A k \in Ids : k # w.k => pubs'[k] = pubs[k]
    BY <1>2, <1>4 DEF Ids, Shapes
  <2>8. w'.pc = "files" /\ w'.k = w.k /\ w'.rel = n
    BY <1>2, <1>4 DEF Worker
  <2>9. rels'[n].task = w.k /\ rels'[n].content = w.c /\ rels'[n].docs = Carried \cup {w.k}
    BY <2>5 DEF new
  <2> QED
    BY <2>1, <2>4, <2>5, <2>6, <2>7, <2>8, <2>9
<1> QED
  BY <1>1, <1>2, <1>3, <1>4 DEF Publish

LEMMA NoReturnStep ==
  ASSUME QueueInv, Turns, NoReturn, Fresh, [KNext]_kvars
  PROVE  NoReturn'
<1> DEFINE n == Len(rels) + 1
<1>1. /\ Shapes /\ Named
      /\ RunsKept /\ \A r \in Active' : r \in Active \/ r \notin RunIds
  BY RunsStep DEF QueueInv
<1>2. RunIds \subseteq RunIds' /\ \A r \in RunIds : runs'[r].task = runs[r].task
  BY <1>1 DEF RunsKept, RunIds, Shapes
<1>3. ASSUME NEW r \in Rels, rels'[r] = rels[r], r # pubs[rels[r].task].rel
      PROVE  rels[r].content # staging'[rels[r].task] /\ rels[r].content.by \notin Active'
  <2> DEFINE k == rels[r].task
             c == rels[r].content
  <2>1. k \in Ids /\ c.good /\ c.by \in RunIds /\ runs[c.by].task = k /\ c # staging[k] /\ c.by \notin Active
    BY <1>1, <1>3 DEF NoReturn, Named
  <2>2. staging'[k] = staging[k] \/ staging'[k] = Empty \/ staging'[k].by \in Active
    BY <2>1, StagingMoves
  <2>3. ~Empty.good
    BY DEF Empty
  <2> QED
    BY <1>1, <2>1, <2>2, <2>3
<1>4. CASE rels' = rels /\ \A k \in Ids : pubs'[k].rel = pubs[k].rel
  <2> SUFFICES ASSUME NEW r \in Rels
               PROVE  LET k == rels[r].task
                          c == rels[r].content IN
                        /\ c.good /\ c.by \in RunIds' /\ runs'[c.by].task = k
                        /\ r # pubs'[k].rel => c # staging'[k] /\ c.by \notin Active'
    BY <1>4 DEF NoReturn, Rels
  <2> DEFINE k == rels[r].task
             c == rels[r].content
  <2>1. k \in Ids /\ c.good /\ c.by \in RunIds /\ runs[c.by].task = k
    BY <1>1 DEF NoReturn, Named
  <2>2. r # pubs'[k].rel => c # staging'[k] /\ c.by \notin Active'
    BY <1>3, <1>4, <2>1
  <2> QED
    BY <1>2, <2>1, <2>2
<1>5. CASE Publish /\ rels' # rels
  <2>1. /\ Busy /\ w.k \in Ids /\ w.pc = "publish" /\ UNCHANGED <<runs, staging>>
        /\ Rels' = Rels \cup {n}
        /\ \A r \in Rels : rels'[r] = rels[r]
        /\ rels'[n].task = w.k /\ rels'[n].content = w.c
        /\ \A k \in Ids : k # w.k => pubs'[k] = pubs[k]
        /\ pubs'[w.k].rel = n
    BY <1>5, PublishWrites
  <2>2. /\ w.c = staging[w.k] /\ w.c.good
        /\ \A r \in Rels : rels[r].task = w.k => rels[r].content # w.c
    BY <2>1 DEF Fresh
  <2>3. w.c.by \in RunIds /\ runs[w.c.by].task = w.k
    BY <1>1, <2>1, <2>2 DEF Named
  <2> HIDE DEF n
  <2> SUFFICES ASSUME NEW r \in Rels'
               PROVE  LET k == rels'[r].task
                          c == rels'[r].content IN
                        /\ c.good /\ c.by \in RunIds' /\ runs'[c.by].task = k
                        /\ r # pubs'[k].rel => c # staging'[k] /\ c.by \notin Active'
    BY DEF NoReturn
  <2>4. CASE r = n
    BY <1>2, <2>1, <2>2, <2>3, <2>4
  <2>5. CASE r \in Rels
    <3> DEFINE k == rels[r].task
               c == rels[r].content
    <3>1. k \in Ids /\ c.good /\ c.by \in RunIds /\ runs[c.by].task = k
      BY <1>1, <2>5 DEF NoReturn, Named
    <3>2. r # pubs'[k].rel => c # staging[k] /\ c.by \notin Active
      <4>1. CASE k = w.k
        BY <2>1, <2>2, <2>5, <3>1, <4>1, NoTurnAt
      <4>2. CASE k # w.k
        BY <2>1, <2>5, <3>1, <4>2 DEF NoReturn
      <4> QED
        BY <4>1, <4>2
    <3>3. runs'[c.by].task = k /\ UNCHANGED <<staging, runs>> /\ Active' = Active
      BY <1>2, <2>1, <3>1, SameTurns
    <3> QED
      BY <1>2, <2>1, <2>5, <3>1, <3>2, <3>3
  <2> QED
    BY <2>1, <2>4, <2>5
<1>6. CASE Publish /\ rels' = rels
  <2>1. (UNCHANGED <<rels, pubs>>) \/ (Rels' = Rels \cup {n} /\ n \notin Rels)
    BY <1>6, PublishWrites
  <2>2. Rels' = Rels
    BY <1>6 DEF Rels
  <2> QED
    BY <1>4, <1>6, <2>1, <2>2
<1> QED
  BY <1>4, <1>5, <1>6, RelsStep

LEMMA NotLate ==
  ASSUME QueueInv, WorkerStep, ~Ingest, ~Publish, ~WriteFiles
  PROVE  w'.pc \notin {"publish", "files", "seal"}
<1>1. w \in Worker
  BY Rows DEF QueueInv
<1>2. CASE Recover
  BY <1>2 DEF Recover, Resting
<1>3. CASE Reseal \/ Unbound \/ Requeue \/ Bind
  BY <1>3, Idles DEF Reseal, Unbound, Requeue, Bind
<1>4. CASE ReadHead
  BY <1>4, ReadWrites
<1>5. CASE Claim
  BY <1>1, <1>5, Idles, ClaimedFor, ZenonT(40) DEF Claim, Worker
<1>6. CASE Prepare \/ Dispatch
  BY <1>1, <1>6, Idles DEF Prepare, Dispatch, Worker
<1>7. CASE Seal \/ Rebuild
  BY <1>1, <1>7, Idles DEF Seal, Rebuild, Worker
<1> QED
  BY <1>2, <1>3, <1>4, <1>5, <1>6, <1>7 DEF WorkerStep

LEMMA OthersWork ==
  ASSUME [KNext]_kvars, ~WorkerStep
  PROVE  UNCHANGED <<rels, current, files>> /\ (UNCHANGED w \/ w' = Resting)
<1>1. CASE RunEnds
  BY <1>1 DEF RunEnds, RunSucceeds, RunFails
<1>2. CASE HandlerStep
  BY <1>2 DEF HandlerStep, RetryWrite, CancelWrite, CancelEvent
<1>3. CASE (\E r \in Active : RunWrites(r)) \/ (\E kind \in Kinds : Submit(kind))
           \/ \E j \in Ids : RetryRead(j) \/ CancelRead(j)
  BY <1>3 DEF RunWrites, Submit, RetryRead, CancelRead
<1>4. CASE Crash
  BY <1>4 DEF Crash
<1> QED
  BY <1>1, <1>2, <1>3, <1>4 DEF KNext, kvars

LEMMA FreshStep ==
  ASSUME QueueInv, Turns, NoReturn, Fresh, [KNext]_kvars
  PROVE  Fresh'
<1>1. Shapes /\ Named /\ w \in Worker
  BY Rows DEF QueueInv
<1>2. CASE ~WorkerStep
  <2>1. /\ rels' = rels /\ (\A k \in Ids : pubs'[k].rel = pubs[k].rel) /\ (w' = w \/ w'.pc = "idle")
    BY <1>2, RelsStep, OthersWork, Idles DEF WorkerStep
  <2> SUFFICES ASSUME w' = w, w.pc \in {"publish", "files", "seal"} PROVE Fresh'
    BY <2>1 DEF Fresh
  <2>2. Busy /\ w.k \in Ids /\ w.pc \notin {"bind", "ingest", "prepare"}
    BY <1>1, Basics DEF Busy, WorkSteps
  <2>3. staging'[w.k] = staging[w.k]
    <3>1. \A r \in Active : runs[r].task # w.k
      BY <2>2, NoTurnAt
    <3> QED
      BY <2>2, <3>1, StagingMoves
  <2> QED
    BY <2>1, <2>2, <2>3 DEF Fresh, Rels
<1>3. CASE WorkerStep /\ ~Ingest /\ ~Publish /\ ~WriteFiles
  BY <1>3, NotLate DEF Fresh
<1>4. CASE Publish
  <2> DEFINE n == Len(rels) + 1
  <2>1. w'.pc = "idle" \/ (w'.pc = "files" /\ w'.k = w.k /\ w'.rel = n /\ pubs'[w.k].rel = n)
    BY <1>4, PublishWrites
  <2> HIDE DEF n
  <2> QED
    BY <2>1 DEF Fresh
<1>5. CASE WriteFiles
  <2>1. UNCHANGED pubs /\ w.pc = "files" /\ (w'.pc = "idle" \/ w' = [w EXCEPT !.pc = "seal"])
    BY <1>5, Idles DEF WriteFiles
  <2>2. w'.pc = "idle" \/ (w'.pc = "seal" /\ w'.k = w.k /\ w'.rel = w.rel)
    BY <1>1, <2>1 DEF Worker
  <2> QED
    BY <2>1, <2>2 DEF Fresh
<1>6. CASE Ingest
  <2> DEFINE c == staging[w.k]
  <2>1. /\ UNCHANGED <<staging, rels>> /\ w.k \in Ids /\ c \in Content
        /\ \A k \in Ids : pubs'[k].rel = pubs[k].rel
    BY <1>1, <1>6, RelsStep, Basics, Rows DEF Ingest, Publish
  <2>2. CASE w'.pc \in {"idle", "bind"}
    BY <2>2 DEF Fresh
  <2>3. ASSUME Repair(w.k, w.t) PROVE w'.pc \in {"idle", "bind"}
    BY <1>1, <2>3, Idles DEF Repair, Worker
  <2>4. ASSUME NEW r \in SameContent(w.k, c), w' = [w EXCEPT !.pc = "files", !.rel = r] PROVE Fresh'
    <3>1. w'.pc = "files" /\ w'.k = w.k /\ w'.rel = r
      BY <1>1, <2>4 DEF Worker
    <3>2. r = pubs[w.k].rel
      BY <2>4 DEF SameContent, NoReturn, Rels
    <3> QED
      BY <2>1, <3>1, <3>2 DEF Fresh
  <2>5. ASSUME c.good, SameContent(w.k, c) = {}, w' = [w EXCEPT !.pc = "publish", !.c = c] PROVE Fresh'
    <3>1. w'.pc = "publish" /\ w'.k = w.k /\ w'.c = c
      BY <1>1, <2>5 DEF Worker
    <3>2. \A r \in Rels : rels[r].task = w.k => rels[r].content # c
      BY <2>5 DEF SameContent, Rels
    <3> QED
      BY <2>1, <2>5, <3>1, <3>2 DEF Fresh, Rels
  <2> QED
    BY <1>6, <2>2, <2>3, <2>4, <2>5, IngestCases, Idles
<1> QED
  BY <1>2, <1>3, <1>4, <1>5, <1>6

-----------------------------------------------------------------------------
(* The official files                                                       *)

\* Files, releases and the live one stay, and what is announced stays so.
LEMMA FilesStill ==
  ASSUME QueueInv, FilesInv, UNCHANGED <<rels, current, files>>, Ids \subseteq Ids',
         \A k \in Ids : pubs[k].st = "prepared" /\ pubs[k].rel # 0 => pubs'[k].st = "prepared" /\ pubs'[k].rel = pubs[k].rel,
         w'.pc \in {"seal", "reseal"} => w' = w
  PROVE  /\ Unannounced' => Agree(current)'
         /\ w'.pc \in {"seal", "reseal"} => Agree(pubs[w.k].rel)'
<1>1. \A r : Agree(r)' = Agree(r)
  BY DEF Agree
<1>2. Unannounced' => Agree(current)
  BY DEF Unannounced, FilesInv
<1>3. w'.pc \in {"seal", "reseal"} => w.k \in Ids /\ pubs'[w.k].rel = pubs[w.k].rel /\ Agree(pubs[w.k].rel)
  BY Basics DEF FilesInv, QueueInv, Announced
<1> QED
  BY <1>1, <1>2, <1>3 DEF Agree

LEMMA RecoverFiles ==
  ASSUME QueueInv, FilesInv, Recover
  PROVE  /\ Unannounced' => Agree(current)'
         /\ w'.pc \in {"seal", "reseal"} => Agree(pubs[w.k].rel)'
<1>1. /\ w.pc = "idle" /\ UNCHANGED <<tasks, rels, current>> /\ Ids' = Ids /\ Shapes
      /\ \A k \in Ids : pubs[k] \in PubRow
  BY Rows DEF Recover, Ids, QueueInv
<1>2. PICK k \in Orphaned :
        IF pubs[k].rel = 0
        THEN pubs' = [pubs EXCEPT ![k].st = "abandoned"] /\ UNCHANGED <<files, w>>
        ELSE \/ Materialize(pubs[k].rel) /\ w' = [Resting EXCEPT !.pc = "reseal", !.k = k] /\ UNCHANGED pubs
             \/ UNCHANGED <<pubs, w>>
  BY DEF Recover
<1>3. k \in Ids /\ pubs[k].st = "prepared"
  BY DEF Orphaned
<1>4. CASE pubs[k].rel = 0
  <2> DEFINE pub == [pubs[k] EXCEPT !.st = "abandoned"]
  <2>1. pubs' = [pubs EXCEPT ![k] = pub] /\ pubs \in Seq(PubRow) /\ Ids = 1 .. Len(pubs)
    BY <1>1, <1>2, <1>4 DEF Shapes, Ids
  <2> HIDE DEF pub
  <2>2. \A j \in Ids : j # k => pubs'[j] = pubs[j]
    BY <2>1
  <2> QED
    BY <1>1, <1>2, <1>4, <2>2, FilesStill
<1>5. CASE pubs[k].rel # 0 /\ UNCHANGED <<pubs, w>>
  BY <1>1, <1>3, <1>5 DEF Unannounced
<1>6. CASE pubs[k].rel # 0 /\ Materialize(pubs[k].rel) /\ w' = [Resting EXCEPT !.pc = "reseal", !.k = k] /\ UNCHANGED pubs
  <2>1. w'.k = k
    BY <1>6 DEF Resting
  <2>2. Agree(pubs[w.k].rel)'
    BY <1>1, <1>6, <2>1 DEF Agree, Materialize
  <2> QED
    BY <1>1, <1>3, <1>6, <2>2 DEF Unannounced
<1> QED
  BY <1>2, <1>4, <1>5, <1>6

LEMMA SealFiles ==
  ASSUME QueueInv, FilesInv, Seal \/ Reseal
  PROVE  /\ Unannounced' => Agree(current)'
         /\ w'.pc \in {"seal", "reseal"} => Agree(pubs[w.k].rel)'
<1>1. /\ w.pc \in {"seal", "reseal"} /\ UNCHANGED <<rels, files>> /\ w'.pc = "idle"
      /\ Settle(w.k) \/ UNCHANGED <<pubs, current>>
  BY Idles DEF Seal, Reseal
<1>2. CASE Settle(w.k)
  <2>1. current' = pubs[w.k].rel /\ Agree(pubs[w.k].rel)
    BY <1>1, <1>2, SettledRow DEF FilesInv
  <2> QED
    BY <1>1, <2>1 DEF Agree
<1>3. CASE UNCHANGED <<pubs, current>>
  <2>1. pubs[w.k].st = "prepared" /\ pubs[w.k].rel # 0 /\ w.k \in Ids
    BY <1>1, Basics DEF QueueInv, Announced
  <2>2. Ids' = Ids
    BY <1>3, WorkRows, SettledRow DEF Seal, Reseal, RowsBut, Ids
  <2> QED
    BY <1>1, <1>3, <2>1, <2>2 DEF Unannounced
<1> QED
  BY <1>1, <1>2, <1>3

LEMMA PublishFiles ==
  ASSUME QueueInv, FilesInv, Publish
  PROVE  /\ Unannounced' => Agree(current)'
         /\ w'.pc \in {"seal", "reseal"} => Agree(pubs[w.k].rel)'
<1> DEFINE n == Len(rels) + 1
<1>1. /\ w.k \in Ids /\ UNCHANGED <<current, files>>
      /\ \/ UNCHANGED <<rels, pubs>> /\ w'.pc = "idle"
         \/ n # 0 /\ pubs'[w.k].st = "prepared" /\ pubs'[w.k].rel = n /\ w'.pc = "files"
  BY PublishWrites
<1>2. Ids' = Ids
  BY WorkRows DEF RowsBut, Ids
<1> HIDE DEF n
<1>3. CASE UNCHANGED <<rels, pubs>> /\ w'.pc = "idle"
  BY <1>1, <1>2, <1>3, FilesStill
<1>4. CASE n # 0 /\ pubs'[w.k].st = "prepared" /\ pubs'[w.k].rel = n /\ w'.pc = "files"
  BY <1>1, <1>2, <1>4 DEF Unannounced
<1> QED
  BY <1>1, <1>3, <1>4

LEMMA WriteFilesFiles ==
  ASSUME QueueInv, FilesInv, Fresh, WriteFiles
  PROVE  /\ Unannounced' => Agree(current)'
         /\ w'.pc \in {"seal", "reseal"} => Agree(pubs[w.k].rel)'
<1>1. /\ w.pc = "files" /\ UNCHANGED <<pubs, rels>> /\ w \in Worker
      /\ w'.pc = "idle" \/ (Materialize(w.rel) /\ w' = [w EXCEPT !.pc = "seal"])
  BY Idles, Rows DEF WriteFiles, QueueInv
<1>2. pubs[w.k].st = "prepared" /\ pubs[w.k].rel # 0 /\ w.k \in Ids /\ w.rel = pubs[w.k].rel
  BY <1>1, Basics DEF QueueInv, Announced, Fresh
<1>3. ~Unannounced'
  <2>1. Ids' = Ids
    BY WorkRows DEF RowsBut, Ids
  <2> QED
    BY <1>1, <1>2, <2>1 DEF Unannounced
<1>4. ASSUME Materialize(w.rel), w' = [w EXCEPT !.pc = "seal"] PROVE Agree(pubs[w.k].rel)'
  <2>1. w'.k = w.k
    BY <1>1, <1>4 DEF Worker
  <2> QED
    BY <1>1, <1>2, <1>4, <2>1 DEF Agree, Materialize
<1> QED
  BY <1>1, <1>3, <1>4

LEMMA RebuildFiles ==
  ASSUME QueueInv, FilesInv, Rebuild
  PROVE  /\ Unannounced' => Agree(current)'
         /\ w'.pc \in {"seal", "reseal"} => Agree(pubs[w.k].rel)'
<1>1. /\ w.pc = "rebuild" /\ Busy /\ UNCHANGED <<pubs, rels, current>> /\ w \in Worker
      /\ w'.pc \in {"idle", "bind"}
      /\ \/ UNCHANGED files
         \/ current # 0 /\ (Materialize(current) \/ TornFiles(current))
  BY Idles, Rows DEF Rebuild, QueueInv, Busy, WorkSteps, Worker
<1>2. Unannounced
  <2>1. At(w.k) /\ w.k \in Ids /\ tasks[w.k].kind = "reindex"
    BY <1>1, Working DEF TaskRow
  <2> SUFFICES ASSUME NEW k \in Ids, pubs[k].st = "prepared" PROVE FALSE
    BY DEF Unannounced
  <2>2. k = w.k
    BY <2>1 DEF QueueInv, Announced
  <2> QED
    BY <2>1, <2>2 DEF QueueInv, Announced
<1>3. Agree(current)
  BY <1>2 DEF FilesInv
<1>4. Agree(current)'
  <2>1. CASE UNCHANGED files
    BY <1>1, <1>3, <2>1 DEF Agree
  <2>2. CASE current # 0 /\ (Materialize(current) \/ TornFiles(current))
    <3> DEFINE page == FirstPage(rels[current].docs)
    <3>1. files = [rel |-> current, docs |-> page]
      BY <1>3, <2>2 DEF Agree
    <3>2. \/ files' = [rel |-> current, docs |-> page]
          \/ files' = [files EXCEPT !.docs = files.docs \cap page]
          \/ files' = [files EXCEPT !.docs = page]
      BY <2>2 DEF Materialize, TornFiles
    <3> HIDE DEF page
    <3>3. page \cap page = page
      OBVIOUS
    <3>4. files' = [rel |-> current, docs |-> page]
      BY <3>1, <3>2, <3>3
    <3> QED
      BY <1>1, <2>2, <3>4 DEF Agree, page
  <2> QED
    BY <1>1, <2>1, <2>2
<1> QED
  BY <1>1, <1>4

LEMMA PreparedStays ==
  ASSUME QueueInv, [KNext]_kvars, ~Recover, ~Reseal, ~Seal, ~Publish, NEW k \in Ids, pubs[k].st = "prepared"
  PROVE  pubs'[k] = pubs[k]
<1>1. pubs \in Seq(PubRow) /\ k \in 1 .. Len(pubs)
  BY DEF QueueInv, Shapes, Ids
<1>2. CASE UNCHANGED pubs
  BY <1>2
<1>3. CASE pubs' = [pubs EXCEPT ![w.k] = IF @.st = "none" THEN [st |-> "prepared", rel |-> 0] ELSE @]
  BY <1>1, <1>3
<1>4. CASE \E kind \in Kinds : Submit(kind)
  <2>1. pubs' = Append(pubs, NoPub)
    BY <1>4 DEF Submit
  <2> QED
    BY <1>1, <2>1
<1>5. CASE WorkerStep
  BY <1>2, <1>3, <1>5, IngestCases DEF WorkerStep, ReadHead, Unbound, Requeue, Claim, Prepare, Dispatch, Bind, WriteFiles, Rebuild
<1>6. CASE HandlerStep \/ RunEnds \/ Crash \/ (\E r \in Active : RunWrites(r)) \/ \E j \in Ids : RetryRead(j) \/ CancelRead(j)
  BY <1>2, <1>6 DEF HandlerStep, RetryWrite, CancelWrite, CancelEvent, RunEnds, RunSucceeds, RunFails, Crash,
     RunWrites, RetryRead, CancelRead
<1> QED
  BY <1>2, <1>4, <1>5, <1>6 DEF KNext, kvars

LEMMA NotSealing ==
  ASSUME QueueInv, ReadHead \/ Unbound \/ Requeue \/ Claim \/ Prepare \/ Dispatch \/ Bind \/ Ingest
  PROVE  w'.pc \notin {"seal", "reseal"} /\ UNCHANGED <<rels, current, files>>
<1>1. w \in Worker
  BY Rows DEF QueueInv
<1>2. CASE ReadHead
  BY <1>2, ReadWrites
<1>3. CASE Unbound \/ Requeue \/ Bind
  BY <1>3, Idles DEF Unbound, Requeue, Bind
<1>4. CASE Claim
  BY <1>1, <1>4, Idles, ClaimedFor DEF Claim, Worker
<1>5. CASE Prepare \/ Dispatch
  BY <1>1, <1>5, Idles DEF Prepare, Dispatch, Worker
<1>6. CASE Ingest
  <2>1. ASSUME Repair(w.k, w.t) PROVE w'.pc \notin {"seal", "reseal"}
    BY <1>1, <2>1, Idles DEF Repair, Worker
  <2>2. UNCHANGED <<rels, current, files>>
    BY <1>6 DEF Ingest
  <2>3. ASSUME NEW r, w' = [w EXCEPT !.pc = "files", !.rel = r] PROVE w'.pc = "files"
    BY <1>1, <2>3 DEF Worker
  <2>4. ASSUME NEW c, w' = [w EXCEPT !.pc = "publish", !.c = c] PROVE w'.pc = "publish"
    BY <1>1, <2>4 DEF Worker
  <2>5. w'.pc \notin {"seal", "reseal"}
    BY <1>6, <2>1, <2>3, <2>4, IngestCases, Idles
  <2> QED
    BY <2>2, <2>5
<1> QED
  BY <1>2, <1>3, <1>4, <1>5, <1>6

LEMMA FilesStep ==
  ASSUME QueueInv, FilesInv, Fresh, [KNext]_kvars
  PROVE  FilesInv'
<1>1. Ids \subseteq Ids'
  BY Growth
<1>2. CASE Recover \/ Seal \/ Reseal \/ Publish \/ WriteFiles \/ Rebuild
  BY <1>2, RecoverFiles, SealFiles, PublishFiles, WriteFilesFiles, RebuildFiles DEF FilesInv
<1>3. CASE ~(Recover \/ Seal \/ Reseal \/ Publish \/ WriteFiles \/ Rebuild)
  <2>1. \A k \in Ids : pubs[k].st = "prepared" /\ pubs[k].rel # 0 => pubs'[k].st = "prepared" /\ pubs'[k].rel = pubs[k].rel
    BY <1>3, PreparedStays
  <2>2. UNCHANGED <<rels, current, files>> /\ (w'.pc \in {"seal", "reseal"} => w' = w)
    BY <1>3, OthersWork, NotSealing, Idles DEF WorkerStep
  <2> QED
    BY <1>1, <2>1, <2>2, FilesStill DEF FilesInv
<1> QED
  BY <1>2, <1>3

LEMMA ContentStep ==
  ASSUME ContentInv, [KNext]_kvars
  PROVE  ContentInv'
<1>1. Counted /\ Counted' /\ (used.outlived => used'.outlived) /\ (used.raced => used'.raced)
  BY CountedStep DEF ContentInv
<1>2. ASSUME ~used'.raced, ~used'.outlived
      PROVE  QueueInv' /\ InStep' /\ Turns' /\ NoReturn' /\ Fresh' /\ FilesInv'
  <2>1. QueueInv /\ InStep /\ Turns /\ NoReturn /\ Fresh /\ FilesInv
    BY <1>1, <1>2 DEF ContentInv
  <2>2. QueueInv' /\ InStep' /\ Turns'
    BY <1>1, <1>2, <2>1, QueueStep, InStepStep, TurnsStep
  <2> QED
    BY <2>1, <2>2, NoReturnStep, FreshStep, FilesStep
<1> QED
  BY <1>1, <1>2 DEF ContentInv

LEMMA ContentInit == KInit => ContentInv
<1> SUFFICES ASSUME KInit PROVE ContentInv
  OBVIOUS
<1>1. /\ tasks = <<>> /\ rels = <<>> /\ current = 0 /\ files = [rel |-> 0, docs |-> {}] /\ w.pc = "idle"
  BY DEF KInit, Resting
<1>2. Ids = {} /\ Rels = {}
  BY <1>1 DEF Ids, Rels
<1>3. NoReturn /\ Fresh
  BY <1>1, <1>2 DEF NoReturn, Fresh
<1>4. FilesInv
  BY <1>1, <1>2 DEF FilesInv, Agree
<1> QED
  BY <1>3, <1>4, TurnsInit, QueueInit, CountedInit DEF ContentInv

\* What was once published is never staged again, and the files follow the
\* releases: until a run outlives its process, whose directory then has two
\* writers, or a retry overtakes the worker.
THEOREM ContentInvariant == KSpec => []ContentInv
<1>1. ContentInv /\ [KNext]_kvars => ContentInv'
  BY ContentStep
<1> QED
  BY <1>1, ContentInit, PTL DEF KSpec

\* Once the queue is empty and nothing is left to recover, the official files
\* are those of the current release, as far as they fit the page that is read.
THEOREM FilesFollow == KSpec => []FilesMatch
<1>1. ASSUME ContentInv PROVE FilesMatch
  <2> SUFFICES ASSUME Held = {}, Orphaned = {}, current # 0, ~used.raced, ~used.outlived
               PROVE  files = [rel |-> current, docs |-> FirstPage(rels[current].docs)]
    BY DEF FilesMatch, Rests
  <2>1. FilesInv
    BY <1>1 DEF ContentInv
  <2>2. Unannounced
    BY DEF Unannounced, Orphaned, Held
  <2> QED
    BY <2>1, <2>2 DEF FilesInv, Agree
<1> QED
  BY <1>1, ContentInvariant, PTL
=============================================================================
