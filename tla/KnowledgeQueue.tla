---------------------------- MODULE KnowledgeQueue ----------------------------
(***************************************************************************)
(* The write queue of one knowledge library: events become FIFO tasks, one *)
(* worker goroutine takes the head through freeze, model turn, validation, *)
(* publication and seal, and recovers what a restart interrupted, while    *)
(* HTTP handlers submit, retry and cancel.  A row is read once and written *)
(* back whole, so each actor keeps the copy it works on.                   *)
(*   application/knowledge_library.go, knowledge_library_worker.go,        *)
(*   sqlstore/knowledge_library_tasks.go, knowledgelib/library.go,         *)
(*   projection.go                                                         *)
(***************************************************************************)
EXTENDS Integers, Sequences, FiniteSetsExt

CONSTANTS
  Kinds,        \* what is submitted: "write" (an event), "reindex"
  Faults,       \* steps of the worker that may fail
  PageLimit,    \* documents ReleaseDocuments returns for limit 1000: 200
  MaxTasks,     \* bound on the submissions
  MaxRuns,      \* bound on the model turns
  MaxAttempts,  \* task.MaxAttempts, 3 in the code
  MaxRepairs,   \* knowledgeLibraryMaxRepairAttempts
  MaxRetries,   \* bound on the operator's retries
  MaxCancels,   \* bound on the operator's cancellations
  MaxActs,      \* bound on both together
  MaxCrashes    \* bound on restarts of the control plane

ASSUME KnowledgeAssumption ==
  /\ Kinds \subseteq {"write", "reindex"}
  /\ Faults \subseteq {"prepare", "dispatch", "publish", "files", "seal"}
  /\ {PageLimit, MaxTasks, MaxRuns, MaxAttempts} \subseteq Nat \ {0}
  /\ {MaxRepairs, MaxRetries, MaxCancels, MaxActs, MaxCrashes} \subseteq Nat

VARIABLES
  tasks,    \* knowledge_write_tasks in the order of seq
  events,   \* the status of the event behind each task
  runs,     \* librarian runs, each with its knowledge_task_turns row
  staging,  \* what lies in the staging directory of each task
  pubs,     \* knowledge_publications, one journal row per task
  rels,     \* knowledge_releases in the order of seq
  current,  \* knowledge_libraries.current_release_id, 0 when none
  files,    \* the official Markdown on disk: its INDEX's release, its documents
  w,        \* the worker goroutine: next step, head, copy of the row, what it read, release
  op,       \* the HTTP handler in flight: next step, task, copy of the row
  used      \* how much of each bound is spent; history: whether a run outlived a
            \* restart, whether a retry overtook the worker

kvars == <<tasks, events, runs, staging, pubs, rels, current, files, w, op, used>>

Terminal == {"completed", "failed", "cancelled"}
Statuses == Terminal \cup {"queued", "running", "retry_wait", "blocked"}
Ids == 1 .. Len(tasks)
NoRow == [kind |-> "write", st |-> "queued", run |-> 0, staged |-> FALSE, att |-> 0, rep |-> 0, turn |-> 0]
Empty == [by |-> 0, final |-> FALSE, good |-> FALSE]
NoPub == [st |-> "none", rel |-> 0]
Resting == [pc |-> "idle", k |-> 0, t |-> NoRow, c |-> Empty, rel |-> 0]
NoOp == [pc |-> "idle", k |-> 0, t |-> NoRow]

OccupiesHead(t) == t.st \notin Terminal
Held == {k \in Ids : OccupiesHead(tasks[k])}
IsHead(k) == k \in Held /\ \A j \in Held : k <= j
Active == {r \in 1 .. Len(runs) : runs[r].st = "active"}
EndedRun(r) == r # 0 /\ runs[r].st # "active"
SucceededRun(r) == r # 0 /\ runs[r].st = "succeeded"
\* GetByClientKey: the runs made under one client key, at most one.
KeyedRuns(k, purpose, n) == {r \in 1 .. Len(runs) : runs[r].task = k /\ runs[r].purpose = purpose /\ runs[r].turn = n}
\* idx_knowledge_write_tasks_single_active: one row may say running.
MayRun(k) == \A j \in Ids \ {k} : tasks[j].st # "running"

KInit ==
  /\ tasks = <<>> /\ events = <<>> /\ runs = <<>> /\ staging = <<>>
  /\ pubs = <<>> /\ rels = <<>> /\ current = 0
  /\ files = [rel |-> 0, docs |-> {}]
  /\ w = Resting /\ op = NoOp
  /\ used = [retries |-> 0, cancels |-> 0, crashes |-> 0, outlived |-> FALSE, raced |-> FALSE]

-----------------------------------------------------------------------------
(* Writes shared by the worker and the handlers *)

\* UpdateTask writes every column of the copy; the index refuses a second
\* running row, and the caller returns.
UpdateTask(k, t) ==
  tasks' = IF t.st = "running" /\ ~MayRun(k) THEN tasks ELSE [tasks EXCEPT ![k] = t]
UpdateEventStatus(k, s) ==
  events' = IF events[k] = "none" THEN events ELSE [events EXCEPT ![k] = s]

\* blockTask
Block(k, t) ==
  /\ UpdateTask(k, [t EXCEPT !.st = "blocked"])
  /\ UpdateEventStatus(k, "blocked")
  /\ w' = Resting
\* Mutant: the attempt is not counted.
DeferUncounted(k, t) ==
  /\ UpdateTask(k, [t EXCEPT !.st = "retry_wait"])
  /\ UpdateEventStatus(k, "queued")
  /\ w' = Resting
\* deferTask: one attempt is spent, and the last one blocks.
Defer(k, t) ==
  LET spent == [t EXCEPT !.att = @ + 1] IN
  IF spent.att >= MaxAttempts THEN Block(k, spent)
  ELSE /\ UpdateTask(k, [spent EXCEPT !.st = "retry_wait"])
       /\ UpdateEventStatus(k, "queued")
       /\ w' = Resting

\* ReleaseDocuments: the first page of a release, in the order of the path.
FirstPage(docs) == {d \in docs : Cardinality({e \in docs : e < d}) < PageLimit}
\* materializeLibraryFiles: owned files outside the page are removed, then the
\* page and INDEX.md are written.
Materialize(r) == files' = [rel |-> r, docs |-> FirstPage(rels[r].docs)]
TornFiles(r) == \/ files' = [files EXCEPT !.docs = @ \cap FirstPage(rels[r].docs)]
                \/ files' = [files EXCEPT !.docs = FirstPage(rels[r].docs)]

\* SettlePublication: journal row, current pointer, task and event at once.
Settle(k) ==
  /\ pubs' = [pubs EXCEPT ![k].st = IF @ = "prepared" THEN "committed" ELSE @]
  /\ IF pubs[k].rel = 0 THEN UNCHANGED <<tasks, events, current>>
     ELSE /\ current' = pubs[k].rel
          /\ tasks' = [tasks EXCEPT ![k].st = "completed"]
          /\ UpdateEventStatus(k, "completed")

-----------------------------------------------------------------------------
(* HTTP handlers *)

\* SubmitKnowledgeLibraryEvent, ReindexKnowledgeLibrary: a row at the tail.
Submit(kind) ==
  /\ Len(tasks) < MaxTasks
  /\ tasks' = Append(tasks, [NoRow EXCEPT !.kind = kind])
  /\ events' = Append(events, IF kind = "write" THEN "queued" ELSE "none")
  /\ staging' = Append(staging, Empty)
  /\ pubs' = Append(pubs, NoPub)
  /\ UNCHANGED <<runs, rels, current, files, w, op, used>>

\* reviveTask: the row and the head are read, no status is refused.
RetryRead(k) ==
  /\ op.pc = "idle" /\ used.retries < MaxRetries /\ used.retries + used.cancels < MaxActs
  /\ IsHead(k)
  /\ op' = [pc |-> "retry", k |-> k, t |-> tasks[k]]
  /\ used' = [used EXCEPT !.retries = @ + 1]
  /\ UNCHANGED <<tasks, events, runs, staging, pubs, rels, current, files, w>>
\* It overtakes the worker if the row has changed since, has a turn at work or
\* is in the worker's hands; a blocked one is not.
Overtakes == tasks[op.k] # op.t \/ op.t.st = "running" \/ w.k = op.k
RetryWrite ==
  /\ op.pc = "retry"
  /\ UpdateTask(op.k, [op.t EXCEPT !.st = "queued", !.att = 0])
  /\ op' = NoOp
  /\ used' = [used EXCEPT !.raced = @ \/ Overtakes]
  /\ UNCHANGED <<events, runs, staging, pubs, rels, current, files, w>>

\* CancelKnowledgeWriteTask: only a waiting task that has no publication.
Cancellable(k) == tasks[k].st \in {"queued", "retry_wait", "blocked"}
                  /\ pubs[k].st \notin {"prepared", "committed"}
CancelRead(k) ==
  /\ op.pc = "idle" /\ used.cancels < MaxCancels /\ used.retries + used.cancels < MaxActs
  /\ Cancellable(k)
  /\ op' = [pc |-> "cancel", k |-> k, t |-> tasks[k]]
  /\ used' = [used EXCEPT !.cancels = @ + 1]
  /\ UNCHANGED <<tasks, events, runs, staging, pubs, rels, current, files, w>>
CancelWrite ==
  /\ op.pc = "cancel"
  /\ UpdateTask(op.k, [op.t EXCEPT !.st = "cancelled"])
  /\ op' = [op EXCEPT !.pc = "cancelled"]
  /\ UNCHANGED <<events, runs, staging, pubs, rels, current, files, w, used>>
CancelEvent ==
  /\ op.pc = "cancelled"
  /\ UpdateEventStatus(op.k, "failed")
  /\ op' = NoOp
  /\ UNCHANGED <<tasks, runs, staging, pubs, rels, current, files, w, used>>

-----------------------------------------------------------------------------
(* The worker: recovery, head, claim *)

\* recoverLibraryPublications: a prepared row whose task has left the queue.
Orphaned == {k \in Ids : pubs[k].st = "prepared" /\ ~OccupiesHead(tasks[k])}

Recover ==
  /\ w.pc = "idle"
  /\ \E k \in Orphaned :
       /\ \A j \in Orphaned : k <= j
       /\ IF pubs[k].rel = 0
            THEN /\ pubs' = [pubs EXCEPT ![k].st = "abandoned"]
                 /\ UNCHANGED <<files, w>>
            ELSE \/ /\ Materialize(pubs[k].rel)
                    /\ w' = [Resting EXCEPT !.pc = "reseal", !.k = k]
                    /\ UNCHANGED pubs
                 \/ /\ "files" \in Faults
                    /\ TornFiles(pubs[k].rel)
                    /\ UNCHANGED <<pubs, w>>
  /\ UNCHANGED <<tasks, events, runs, staging, rels, current, op, used>>
Reseal ==
  /\ w.pc = "reseal"
  /\ \/ Settle(w.k)
     \/ "seal" \in Faults /\ UNCHANGED <<tasks, events, pubs, current>>
  /\ w' = Resting
  /\ UNCHANGED <<runs, staging, rels, files, op, used>>

\* Mutant: a running head is queued again, whatever its run does.
DueAgain(t) == IF t.st \in {"running", "retry_wait"} THEN "requeue" ELSE IF t.st = "blocked" THEN "none" ELSE "claim"
\* processLibrary: what the head row, as read, is due for.
Due(t) ==
  IF t.st = "blocked" THEN "none"
  ELSE IF t.kind = "reindex" \/ t.st = "queued" THEN "claim"
  ELSE IF t.st = "running" THEN IF t.run = 0 THEN "unbound" ELSE "ingest"
  ELSE IF t.staged /\ EndedRun(t.run) THEN "claim" ELSE "requeue"
ReadHead ==
  /\ w.pc = "idle" /\ Orphaned = {}
  /\ \E k \in Ids :
       /\ IsHead(k) /\ Due(tasks[k]) # "none"
       /\ w' = [Resting EXCEPT !.pc = Due(tasks[k]), !.k = k, !.t = tasks[k]]
  /\ UNCHANGED <<tasks, events, runs, staging, pubs, rels, current, files, op, used>>

\* A running head without a run is blocked; a waiting one without a finished
\* turn is queued again.
Unbound ==
  /\ w.pc = "unbound" /\ Block(w.k, w.t)
  /\ UNCHANGED <<runs, staging, pubs, rels, current, files, op, used>>
Requeue ==
  /\ w.pc = "requeue"
  /\ UpdateTask(w.k, [w.t EXCEPT !.st = "queued"])
  /\ w' = Resting
  /\ UNCHANGED <<events, runs, staging, pubs, rels, current, files, op, used>>

\* What a claimed head is taken to: a queued one to the harness only after a
\* turn that succeeded, a waiting one after any turn that has ended.
AfterClaim(t) ==
  IF t.kind = "reindex" THEN "rebuild"
  ELSE IF t.st = "queued" /\ ~(t.staged /\ SucceededRun(t.run)) THEN "prepare" ELSE "ingest"
\* ClaimTask and the GetTask that follows: a compare and set on the head.
Claim ==
  /\ w.pc = "claim"
  /\ IF IsHead(w.k) /\ tasks[w.k].st # "blocked" /\ MayRun(w.k)
       THEN /\ tasks' = [tasks EXCEPT ![w.k].st = "running"]
            /\ w' = [w EXCEPT !.pc = AfterClaim(w.t), !.t = [tasks[w.k] EXCEPT !.st = "running"]]
       ELSE w' = Resting /\ UNCHANGED tasks
  /\ UNCHANGED <<events, runs, staging, pubs, rels, current, files, op, used>>

-----------------------------------------------------------------------------
(* The worker: freeze the input and start a model turn *)

\* captureSnapshot, ResetStaging and the two row writes around them.
Prepare ==
  /\ w.pc = "prepare"
  /\ \/ /\ staging' = [staging EXCEPT ![w.k] = Empty]
        /\ UpdateTask(w.k, [w.t EXCEPT !.staged = TRUE])
        /\ UpdateEventStatus(w.k, "processing")
        /\ w' = [w EXCEPT !.pc = "dispatch", !.t.staged = TRUE]
     \/ "prepare" \in Faults /\ Defer(w.k, w.t) /\ UNCHANGED staging
  /\ UNCHANGED <<runs, pubs, rels, current, files, op, used>>

\* unfinishedTurn: the recorded turn whose run has not ended.
UnfinishedTurn(k, t) == \E r \in Active : runs[r].task = k /\ runs[r].turn = t.turn
NextTurn(k, t) == IF UnfinishedTurn(k, t) THEN t.turn ELSE t.turn + 1
NewRun(k, purpose, n, s) == runs' = Append(runs, [task |-> k, purpose |-> purpose, turn |-> n, st |-> s])

\* dispatchLibraryRun: the turn's client key makes a run or finds the one made.
Dispatch ==
  /\ w.pc = "dispatch"
  /\ LET n == NextTurn(w.k, w.t)
         made == KeyedRuns(w.k, "turn", n)
         Bound(r) == w' = [w EXCEPT !.pc = "bind", !.t = [w.t EXCEPT !.run = r, !.turn = n, !.st = "running"]]
     IN IF made # {}
          THEN /\ \E r \in made : Bound(r)
               /\ UNCHANGED <<tasks, events, runs>>
          ELSE /\ Len(runs) < MaxRuns
               /\ \/ NewRun(w.k, "turn", n, "active") /\ Bound(Len(runs) + 1) /\ UNCHANGED <<tasks, events>>
                  \/ "dispatch" \in Faults /\ NewRun(w.k, "turn", n, "failed") /\ Defer(w.k, w.t)
  /\ UNCHANGED <<staging, pubs, rels, current, files, op, used>>
\* The row is bound to its run in a statement of its own.
Bind ==
  /\ w.pc = "bind"
  /\ UpdateTask(w.k, w.t)
  /\ w' = Resting
  /\ UNCHANGED <<events, runs, staging, pubs, rels, current, files, op, used>>

-----------------------------------------------------------------------------
(* The worker: validate, publish, seal *)

\* repairOrBlock: a model turn in the same staging directory, within its
\* budget; its client key is not replayed but refused.
Repair(k, t) ==
  LET n == t.turn + 1
      next == [t EXCEPT !.rep = @ + 1, !.turn = n]
  IN IF t.rep >= MaxRepairs THEN Block(k, t) /\ UNCHANGED runs
     ELSE IF KeyedRuns(k, "repair", n) # {} THEN Block(k, next) /\ UNCHANGED runs
     ELSE /\ Len(runs) < MaxRuns
          /\ \/ /\ NewRun(k, "repair", n, "active")
                /\ w' = [w EXCEPT !.pc = "bind", !.t = [next EXCEPT !.run = Len(runs) + 1, !.st = "running"]]
                /\ UNCHANGED <<tasks, events>>
             \/ "dispatch" \in Faults /\ NewRun(k, "repair", n, "failed") /\ Block(k, next)

\* ReleaseByProjectionDigest: this task's release of exactly this content.
SameContent(k, c) == {r \in 1 .. Len(rels) : rels[r].task = k /\ rels[r].content = c}

\* ingestRunningTask up to the journal row that announces the publication.
Ingest ==
  /\ w.pc = "ingest"
  /\ CASE ~EndedRun(w.t.run) -> w' = Resting /\ UNCHANGED <<tasks, events, runs, pubs>>
       [] ~SucceededRun(w.t.run) /\ EndedRun(w.t.run) -> Defer(w.k, w.t) /\ UNCHANGED <<runs, pubs>>
       [] OTHER ->
            LET c == staging[w.k] IN
            IF ~c.good THEN Repair(w.k, w.t) /\ UNCHANGED pubs
            ELSE /\ IF SameContent(w.k, c) # {}
                      THEN /\ \E r \in SameContent(w.k, c) : w' = [w EXCEPT !.pc = "files", !.rel = r]
                           /\ UNCHANGED pubs
                      ELSE /\ w' = [w EXCEPT !.pc = "publish", !.c = c]
                           /\ pubs' = [pubs EXCEPT ![w.k] = IF @.st = "none" THEN [st |-> "prepared", rel |-> 0] ELSE @]
                 /\ UNCHANGED <<tasks, events, runs>>
  /\ UNCHANGED <<staging, rels, current, files, op, used>>

\* Mutant: the release is made of this task's documents alone.
CarriedNothing == {}
\* publishLocked: the release carries forward what the live one holds, and
\* stays unreachable until it is sealed.
Carried == IF current = 0 THEN {} ELSE rels[current].docs
Publish ==
  /\ w.pc = "publish"
  /\ \/ /\ rels' = Append(rels, [task |-> w.k, content |-> w.c, docs |-> Carried \cup {w.k}])
        /\ pubs' = [pubs EXCEPT ![w.k] = IF @.st = "none" THEN [st |-> "prepared", rel |-> Len(rels) + 1]
                                         ELSE [@ EXCEPT !.rel = Len(rels) + 1]]
        /\ w' = [w EXCEPT !.pc = "files", !.rel = Len(rels) + 1]
        /\ UNCHANGED <<tasks, events>>
     \/ "publish" \in Faults /\ Defer(w.k, w.t) /\ UNCHANGED <<rels, pubs>>
  /\ UNCHANGED <<runs, staging, current, files, op, used>>

\* Mutant: files that cannot be written are only logged.
WriteFilesLogged ==
  /\ w.pc = "files"
  /\ Materialize(w.rel) \/ ("files" \in Faults /\ TornFiles(w.rel))
  /\ w' = [w EXCEPT !.pc = "seal"]
  /\ UNCHANGED <<tasks, events, runs, staging, pubs, rels, current, op, used>>
\* completeTask: the official files first, then the seal.
WriteFiles ==
  /\ w.pc = "files"
  /\ \/ Materialize(w.rel) /\ w' = [w EXCEPT !.pc = "seal"] /\ UNCHANGED <<tasks, events>>
     \/ "files" \in Faults /\ TornFiles(w.rel) /\ Defer(w.k, w.t)
  /\ UNCHANGED <<runs, staging, pubs, rels, current, op, used>>
Seal ==
  /\ w.pc = "seal"
  /\ \/ Settle(w.k) /\ w' = Resting
     \/ "seal" \in Faults /\ Defer(w.k, w.t) /\ UNCHANGED <<pubs, current>>
  /\ UNCHANGED <<runs, staging, rels, files, op, used>>

\* runReindexTask: the current release is rendered again.
Rebuild ==
  /\ w.pc = "rebuild"
  /\ \/ /\ IF current = 0 THEN UNCHANGED files ELSE Materialize(current)
        /\ w' = [w EXCEPT !.pc = "bind", !.t.st = "completed"]
        /\ UNCHANGED <<tasks, events>>
     \/ "files" \in Faults /\ current # 0 /\ TornFiles(current) /\ Defer(w.k, w.t)
  /\ UNCHANGED <<runs, staging, pubs, rels, current, op, used>>

-----------------------------------------------------------------------------
(* The librarian's runs, and restarts *)

\* A run writes its staging directory while it goes, and once more at its end.
Written(r, final) == \E good \in BOOLEAN :
  staging' = [staging EXCEPT ![runs[r].task] = [by |-> r, final |-> final, good |-> good]]
RunWrites(r) ==
  /\ r \in Active
  /\ Written(r, FALSE)
  /\ UNCHANGED <<tasks, events, runs, pubs, rels, current, files, w, op, used>>
RunSucceeds(r) ==
  /\ r \in Active
  /\ Written(r, TRUE)
  /\ runs' = [runs EXCEPT ![r].st = "succeeded"]
  /\ UNCHANGED <<tasks, events, pubs, rels, current, files, w, op, used>>
RunFails(r) ==
  /\ r \in Active
  /\ runs' = [runs EXCEPT ![r].st = "failed"]
  /\ UNCHANGED <<tasks, events, staging, pubs, rels, current, files, w, op, used>>

\* The process dies: the boot ends the runs it was executing, those of a remote
\* runner go on, and the worker starts from the rows.
Crash ==
  /\ used.crashes < MaxCrashes
  /\ \E dead \in {{}, Active} :
       /\ runs' = [r \in 1 .. Len(runs) |-> IF r \in dead THEN [runs[r] EXCEPT !.st = "failed"] ELSE runs[r]]
       /\ used' = [used EXCEPT !.crashes = @ + 1, !.outlived = @ \/ dead # Active]
  /\ w' = Resting /\ op' = NoOp
  /\ UNCHANGED <<tasks, events, staging, pubs, rels, current, files>>

WorkerStep == Recover \/ Reseal \/ ReadHead \/ Unbound \/ Requeue \/ Claim \/ Prepare \/ Dispatch \/ Bind
              \/ Ingest \/ Publish \/ WriteFiles \/ Seal \/ Rebuild
HandlerStep == RetryWrite \/ CancelWrite \/ CancelEvent
RunEnds == \E r \in Active : RunSucceeds(r) \/ RunFails(r)

KNext ==
  \/ WorkerStep
  \/ HandlerStep
  \/ RunEnds
  \/ \E r \in Active : RunWrites(r)
  \/ \E kind \in Kinds : Submit(kind)
  \/ \E k \in Ids : RetryRead(k) \/ CancelRead(k)
  \/ Crash

KSpec == KInit /\ [][KNext]_kvars
KFairSpec == KSpec /\ WF_kvars(WorkerStep) /\ WF_kvars(HandlerStep) /\ WF_kvars(RunEnds)

-----------------------------------------------------------------------------
KTypeOK ==
  /\ \A k \in Ids :
       /\ tasks[k].st \in Statuses /\ tasks[k].kind \in Kinds
       /\ tasks[k].run \in 0 .. Len(runs) /\ tasks[k].staged \in BOOLEAN
       /\ tasks[k].att \in 0 .. MaxAttempts /\ tasks[k].rep \in 0 .. MaxRepairs
       /\ events[k] \in {"none", "queued", "processing", "completed", "failed", "blocked"}
       /\ pubs[k].st \in {"none", "prepared", "committed", "abandoned"} /\ pubs[k].rel \in 0 .. Len(rels)
       /\ staging[k].by \in 0 .. Len(runs)
  /\ \A r \in 1 .. Len(runs) : runs[r].st \in {"active", "succeeded", "failed"}
  /\ current \in 0 .. Len(rels) /\ files.rel \in 0 .. Len(rels)
  /\ w.pc \in {"idle", "reseal", "unbound", "requeue", "claim", "prepare", "dispatch", "bind", "ingest",
               "publish", "files", "seal", "rebuild"}
  /\ op.pc \in {"idle", "retry", "cancel", "cancelled"}

\* What every completed task wrote is in the release readers see, a later
\* release builds on the live one: unless a retry has overtaken the worker,
\* which can bring an old release back (reviveTask refuses no status).
AllLive == \A k \in Ids : tasks[k].kind = "write" /\ tasks[k].st = "completed"
                           => current # 0 /\ k \in rels[current].docs
NothingLost == ~used.raced => AllLive
\* Once the queue is empty and nothing is left to recover, the official files
\* are those of the current release, as far as they fit the page that is read:
\* unless a retry has overtaken the worker or a run has outlived a restart,
\* which writes a staging directory that has a writer of its own.
Rests == w.pc = "idle" /\ op.pc = "idle" /\ Held = {} /\ Orphaned = {} /\ current # 0
FilesMatch ==
  Rests /\ ~used.raced /\ ~used.outlived =>
    files = [rel |-> current, docs |-> FirstPage(rels[current].docs)]
FilesWhole == Rests => files.docs = rels[current].docs
\* A cancelled task has no turn in flight.
CancelledIdle == \A r \in Active : op.pc = "idle" /\ w.pc = "idle" => tasks[runs[r].task].st # "cancelled"

\* Only what a finished turn wrote last is published.
PublishedFinished == [][Len(rels') > Len(rels) =>
   LET c == rels'[Len(rels')].content IN c.final /\ SucceededRun(c.by)]_kvars
\* A staging directory is never emptied under the turn that writes it, with the
\* same two exceptions.
StagingKept == [][\A k \in Ids : staging'[k] = Empty /\ staging[k] # Empty
                    => used.raced \/ used.outlived \/ \A r \in Active : runs[r].task # k]_kvars
\* A task that was submitted ends, or the head of the queue waits for the
\* operator, unless the queue has handed its head over too early: by a
\* cancellation that raced the worker, or as above.
Undisturbed == used.cancels = 0 /\ ~used.raced /\ ~used.outlived
Waits(k) == k \in Ids /\ tasks[k].st = "queued"
Answered(k) == k \in Ids /\ (tasks[k].st \in Terminal \/ \E j \in 1 .. k : tasks[j].st = "blocked")
QueueSettles == \A k \in 1 .. MaxTasks : Waits(k) ~> (Answered(k) \/ ~Undisturbed)
=============================================================================
