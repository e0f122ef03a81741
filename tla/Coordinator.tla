------------------------------ MODULE Coordinator ------------------------------
(***************************************************************************)
(* The durable control line of one coordinated task: the Coordinator state *)
(* row, the runs it starts and observes, the dispatch batches that settle  *)
(* into one summary, the settlement wakes and the scheduler that consumes  *)
(* them.  Every transaction is one step; what a handler reads before its   *)
(* transaction is kept, because it may be stale when it is used.           *)
(*   application/coordinator_engine.go, coordinator_plan_repair.go,        *)
(*   settlement.go, wakeup.go, dispatch.go, plan.go, plan_extract.go,      *)
(*   evaluate.go, task_comments.go, service.go (block, unblock),           *)
(*   scheduling/loop.go, sqlstore/wakeups.go, dispatches.go,               *)
(*   task_coordinator.go                                                   *)
(***************************************************************************)
EXTENDS Integers, Sequences, FiniteSets

CONSTANTS
  Callers,      \* who may be inside StartCoordinator at once
  Outcomes,     \* how a run may end
  Prompt,       \* whether the hooks of a run are over before another run ends
  MaxRuns,      \* bound on the runs of the task
  MaxWorkers,   \* bound on the dispatch steps of one plan
  MaxAttempts,  \* coordinatorMaxWorkerAttempts
  MaxFailures,  \* coordinatorMaxOwnFailures
  MaxRepairs,   \* coordinatorMaxPlanRepairAttempts
  MaxComments,  \* bound on the actionable comments
  MaxBlocks,    \* bound on the blocks and cancellations by the user
  MaxUnblocks,  \* bound on how often the user unblocks the task
  MaxCrashes,   \* bound on restarts of the control plane
  MaxFaults     \* bound on settlement transactions that fail

ASSUME CoordinatorAssumption ==
  /\ Callers \subseteq {"loop", "call"}
  /\ Outcomes \subseteq {"succeeded", "failed", "fatal", "cancelled"}
  /\ Prompt \in BOOLEAN
  /\ MaxRuns \in Nat \ {0} /\ MaxWorkers \in Nat \ {0}
  /\ {MaxAttempts, MaxFailures, MaxRepairs, MaxComments, MaxBlocks, MaxUnblocks, MaxCrashes, MaxFaults} \subseteq Nat

VARIABLES
  co,        \* the task_coordinator_states row; held: its Goal and root item are blocked
  runs,      \* execution_runs of the task, in the order of creation
  batches,   \* dispatches of the task
  wakes,     \* agent_wakeup_requests with a settlement dispatch id
  plan,      \* the latest plan: the run that submitted it, and its status
  phase,     \* the phase of the root work item
  comments,  \* the last actionable revision of task_comments
  hooks,     \* terminal hook pipelines in flight: <<run, next hook>>
  starts,    \* StartCoordinator calls in flight: what each decided to do
  sched,     \* the wake the scheduler goroutine has claimed, 0 when none
  doomed,    \* runs whose cancellation has been requested
  used       \* how much of each bound is spent

cvars == <<co, runs, batches, wakes, plan, phase, comments, hooks, starts, sched, doomed, used>>

Governed == {"turn", "eval"}
OpenBatch == {"running", "collecting"}
StopStatus == {"blocked", "waiting_user"}

Idle == [do |-> "none", run |-> 0]
Ids == 1 .. Len(runs)
Live(r) == runs[r].st = "live"
Stopped == co.status \in StopStatus
Settling == co.act = "settle"
RetryPending == ~Settling /\ (co.status = "waiting_retry" \/ co.act = "retry_worker")
Unseen == co.seen < comments
Room == Len(runs) < MaxRuns

Members(b) == {r \in Ids : runs[r].batch = b}
Participants(b) == {r \in Members(b) : ~runs[r].sum}
WorkersOf(b) == Participants(b) \ {batches[b].lead}
Open == {b \in 1 .. Len(batches) : batches[b].st \in OpenBatch}
Collecting == {b \in Open : batches[b].st = "collecting"}
\* taskTreeHasActiveRuns: a live run or an open batch.
TreeActive == Open # {} \/ \E r \in Ids : Live(r)
\* coordinatorWorkerRunSuperseded: another run owns the control line.
Superseded(r) == runs[r].kind = "worker" /\ co.cur \notin {0, r}

\* The runs from which r was retried, r included.
Chain(r) == {q \in Ids : q <= r /\ runs[q].root = runs[r].root}

CoordinatorInit ==
  /\ co = [status |-> "queued", cur |-> 0, act |-> "", at |-> FALSE, retryOf |-> 0,
           rounds |-> 0, fails |-> 0, repair |-> 0, seen |-> 0, settle |-> 0, held |-> FALSE]
  /\ runs = <<>> /\ batches = <<>> /\ wakes = <<>>
  /\ plan = [src |-> 0, st |-> "none"]
  /\ phase = "execution"
  /\ comments = 0
  /\ hooks = {}
  /\ starts = [p \in Callers |-> Idle]
  /\ sched = 0
  /\ doomed = {}
  /\ used = [blocks |-> 0, unblocks |-> 0, crashes |-> 0, faults |-> 0]

NewRun(kind, batch, sum, repair) ==
  [kind |-> kind, st |-> "live", batch |-> batch, sum |-> sum, repair |-> repair,
   root |-> Len(runs) + 1, attempt |-> 1]

\* The first stage of a pipeline: only a successful turn or evaluation has text to read.
FirstHook(r, st) == <<r, IF st = "succeeded" /\ runs[r].kind \in Governed THEN "plan" ELSE "advance">>

-----------------------------------------------------------------------------
(* Batches                                                                  *)

\* closeDispatchFor: all cancellation runs cancelled, else any member degraded.
ClosedAs(b, deciding) ==
  IF deciding # {} /\ \A r \in deciding : runs[r].st = "cancelled" THEN "cancelled"
  ELSE IF \E r \in Members(b) : runs[r].st \in {"failed", "fatal", "cancelled"}
       THEN "degraded" ELSE "completed"

\* Mutant: a batch settles while one of its Workers is still at work.
SettleSkipsRetryOnly(r) == Stopped \/ RetryPending \/ batches[runs[r].batch].st \notin OpenBatch

\* settleDispatchTx leaves the batch of r alone.
SettleSkips(r) ==
  LET b == runs[r].batch
      ownBatch == batches[b].lead = r /\ ~runs[r].sum
  IN \/ ~ownBatch /\ (Stopped \/ RetryPending \/ (Settling /\ co.settle # r))
     \/ batches[b].st \notin OpenBatch
     \/ \E q \in Participants(b) : Live(q)

\* settleDispatchTx: the batches and wakes after it, as a pair.
SettleTx(r) ==
  LET b == runs[r].batch
      close(deciding) == <<[batches EXCEPT ![b].st = ClosedAs(b, deciding)], wakes>>
  IN IF SettleSkips(r) THEN <<batches, wakes>>
     ELSE IF runs[r].sum THEN close(WorkersOf(b))
     ELSE IF WorkersOf(b) = {} THEN close(Participants(b))
     ELSE IF batches[b].st = "collecting" THEN <<batches, wakes>>
     ELSE <<[batches EXCEPT ![b].st = "collecting"],
            Append(wakes, [batch |-> b, st |-> "queued"])>>

\* clearSettlementRetry: the checkpoint of r is done.
ClearSettle(r) ==
  IF Settling /\ co.settle = r /\ ~Stopped
  THEN [co EXCEPT !.status = "running", !.cur = 0, !.at = FALSE, !.act = "", !.settle = 0]
  ELSE co

\* closeOpenDispatchesForBlockLocked.
Degraded == [b \in 1 .. Len(batches) |->
               IF b \in Open THEN [batches[b] EXCEPT !.st = "degraded"] ELSE batches[b]]

\* Mutant: the repair looks for the summary run, not for its wake.
UnattendedByRun(b) == \A r \in Members(b) : ~runs[r].sum

\* A batch that ensureCollectingDispatchWakeups repairs: no summary run and no
\* wake that may still produce one.  ASSUMED: a consumed wake becomes its run or
\* is put back within settlementWakeClaimGrace (30 s); while sched holds it, no
\* repair comes between.
Unattended(b) ==
  /\ \A r \in Members(b) : ~runs[r].sum
  /\ \A w \in 1 .. Len(wakes) : wakes[w].batch = b => wakes[w].st = "consumed" /\ sched # w
Repaired ==
  LET lost == {b \in Collecting : Unattended(b) /\ \A r \in WorkersOf(b) : ~Live(r)}
      b == CHOOSE b \in lost : \A c \in lost : b <= c
  IN IF lost = {} THEN wakes ELSE Append(wakes, [batch |-> b, st |-> "queued"])

-----------------------------------------------------------------------------
(* The Coordinator row                                                      *)

\* The row is blocked, and its Goal and root item with it.
Blocked(row) == [row EXCEPT !.status = "blocked", !.cur = 0, !.at = FALSE, !.held = TRUE]

\* blockCoordinator on behalf of run r (0 when no run is to blame).
Block(r) ==
  IF r # 0 /\ (Superseded(r) \/ (runs[r].kind \in Governed /\ co.cur # r))
  THEN UNCHANGED <<co, batches>>
  ELSE co' = (IF co.status = "blocked" THEN co ELSE Blocked(co)) /\ batches' = Degraded

\* setCoordinatorWaitingUser; the comments that arrived meanwhile come first.
Handover(row) == [row EXCEPT !.status = IF Unseen THEN "queued" ELSE "waiting_user", !.cur = 0]

\* The turn that startCoordinatorTurn commits: run, batch and row together.
NewTurn(action) ==
  LET r == Len(runs) + 1 IN
  /\ Room
  /\ runs' = Append(runs, NewRun("turn", Len(batches) + 1, FALSE, action = "repair_plan"))
  /\ batches' = Append(batches, [lead |-> r, st |-> "running"])
  /\ co' = [co EXCEPT !.status = "running", !.cur = r, !.act = "", !.at = FALSE, !.seen = comments]

\* ListDueStates and coordinatorStateNeedsResume.
Due ==
  \/ co.status = "queued"
  \/ co.status = "waiting_retry" /\ (co.at \/ co.act # "")
  \/ co.status = "running" /\ (co.cur # 0 \/ co.at \/ co.act # "" \/ Unseen \/ Collecting # {})

\* A checkpoint that is only observed: Workers or a settlement are at work.
Observing == co.status = "running" /\ co.cur = 0 /\ ~co.at /\ co.act = ""

\* What StartCoordinator decides on the row it has read.
Decision ==
  IF Settling THEN [do |-> "settle", run |-> co.settle]
  ELSE IF /\ co.status = "waiting_retry" \/ (co.status = "running" /\ co.cur = 0)
          /\ co.act = "retry_worker"
       THEN [do |-> "retry", run |-> co.retryOf]
  ELSE IF Observing /\ ~(Unseen /\ ~TreeActive) THEN Idle
  ELSE IF co.cur # 0
       THEN IF Live(co.cur) THEN Idle ELSE [do |-> "replay", run |-> co.cur]
  ELSE [do |-> "turn", run |-> 0]

\* StartCoordinator up to its decision, with the repair of collecting batches.
StartRead(p) ==
  /\ starts[p] = Idle
  /\ p = "loop" => Due
  /\ Settling \/ ~(Stopped \/ co.held)
  /\ wakes' = IF Settling THEN wakes ELSE Repaired
  /\ starts' = [starts EXCEPT ![p] = Decision]
  /\ UNCHANGED <<co, runs, batches, plan, phase, comments, hooks, sched, doomed, used>>

\* startCoordinatorTurn reads the row again, but not the reason it was called for.
StartTurn(p) ==
  /\ starts[p].do = "turn"
  /\ starts' = [starts EXCEPT ![p] = Idle]
  /\ IF \/ Stopped
        \/ co.cur # 0 /\ Live(co.cur)
        \/ co.status = "running" /\ co.cur = 0 /\ co.act = "" /\ ~(Unseen /\ ~TreeActive)
     THEN UNCHANGED <<co, runs, batches>>
     ELSE NewTurn(IF co.status # "running" /\ co.act = "repair_plan" THEN "repair_plan" ELSE "recover")
  /\ UNCHANGED <<wakes, plan, phase, comments, hooks, sched, doomed, used>>

\* StartCoordinator fails (no Worker, runtime not ready): start_failed.
StartFails(p) ==
  /\ starts[p].do = "turn" /\ used.faults < MaxFaults
  /\ starts' = [starts EXCEPT ![p] = Idle]
  /\ used' = [used EXCEPT !.faults = @ + 1]
  /\ Block(0)
  /\ UNCHANGED <<runs, wakes, plan, phase, comments, hooks, sched, doomed>>

\* startScheduledWorkerRetry: the run to retry is the one the stale row named.
StartRetry(p) ==
  LET parent == starts[p].run
      r == Len(runs) + 1
  IN
  /\ starts[p].do = "retry"
  /\ IF \/ co.status \notin {"waiting_retry", "running"}
        \/ co.act # "retry_worker" \/ co.cur # 0
        \/ \E q \in Ids : runs[q].root = runs[parent].root /\ runs[q].attempt = runs[parent].attempt + 1
     THEN /\ UNCHANGED <<co, runs>>
          /\ starts' = [starts EXCEPT ![p] = Idle]
     ELSE /\ Room
          /\ runs' = Append(runs, [runs[parent] EXCEPT !.st = "live", !.attempt = @ + 1])
          /\ co' = [co EXCEPT !.status = "running", !.cur = r, !.at = FALSE]
          /\ starts' = [starts EXCEPT ![p] = [do |-> "launch", run |-> r]]
  /\ UNCHANGED <<batches, wakes, plan, phase, comments, hooks, sched, doomed, used>>

\* The retry is dispatched only if it still owns the control line.
Launch(p) ==
  LET r == starts[p].run IN
  /\ starts[p].do = "launch"
  /\ starts' = [starts EXCEPT ![p] = Idle]
  /\ doomed' = IF Live(r) /\ (Stopped \/ co.cur # r) THEN doomed \cup {r} ELSE doomed
  /\ UNCHANGED <<co, runs, batches, wakes, plan, phase, comments, hooks, sched, used>>

\* replayCoordinatorTerminalHooks, beside the pipeline that may still be running.
StartReplay(p) ==
  /\ starts[p].do = "replay"
  /\ starts' = [starts EXCEPT ![p] = Idle]
  /\ hooks' = hooks \cup {FirstHook(starts[p].run, runs[starts[p].run].st)}
  /\ UNCHANGED <<co, runs, batches, wakes, plan, phase, comments, sched, doomed, used>>

\* retryPendingSettlement on the fresh row.
StartSettle(p) ==
  /\ starts[p].do = "settle"
  /\ starts' = [starts EXCEPT ![p] = Idle]
  /\ IF Settling
     THEN /\ batches' = SettleTx(co.settle)[1]
          /\ wakes' = SettleTx(co.settle)[2]
          /\ co' = ClearSettle(co.settle)
     ELSE UNCHANGED <<batches, wakes, co>>
  /\ UNCHANGED <<runs, plan, phase, comments, hooks, sched, doomed, used>>

-----------------------------------------------------------------------------
(* Runs and their terminal hooks                                            *)

\* A run reaches a terminal status; its hook pipeline starts after the commit.
EndRun(r, st) ==
  /\ Live(r)
  /\ Prompt => hooks = {}
  /\ st = "cancelled" => r \in doomed
  /\ runs' = [runs EXCEPT ![r].st = st]
  /\ hooks' = hooks \cup {FirstHook(r, st)}
  /\ phase' = IF st = "succeeded" /\ runs[r].kind = "eval" /\ phase = "execution" THEN "review" ELSE phase
  /\ doomed' = doomed \ {r}
  /\ UNCHANGED <<co, batches, wakes, plan, comments, starts, sched, used>>

\* The branches of handleCoordinatorWorkerTerminal, each a transaction.
WorkerStages == {"finish", "hand", "retry", "replan", "giveup"}

\* Mutant: only a turn settles its batch.
NextHookTurnOnly(r, stage) ==
  hooks' = (hooks \ {<<r, stage>>}) \cup
           (CASE stage = "plan" -> {<<r, "advance">>}
              [] stage \in {"advance"} \cup WorkerStages -> IF runs[r].kind = "turn" THEN {<<r, "settle">>} ELSE {}
              [] stage = "settle" -> {})

NextHook(r, stage) ==
  hooks' = (hooks \ {<<r, stage>>}) \cup
           (CASE stage = "plan" -> {<<r, "advance">>}
              [] stage \in {"advance"} \cup WorkerStages -> IF runs[r].batch # 0 THEN {<<r, "settle">>} ELSE {}
              [] stage = "settle" -> {})

\* maybeProcessVerdict: what the evaluation says moves the phase of the root.
Verdict(r) ==
  /\ runs[r].kind = "eval"
  /\ phase' \in IF phase = "review" /\ ~co.held THEN {"acceptance", "execution", "review"} ELSE {phase}
  /\ UNCHANGED <<co, runs, batches, plan>>

Accepted(r) == IF runs[r].repair /\ co.repair > 0 THEN [co EXCEPT !.repair = 0, !.act = ""] ELSE co

\* The submission is fenced: the run owns the control line of an active task.
Owns(r) == co.cur = r /\ ~Stopped /\ ~co.held

\* A dispatch plan: its workers join the running batch of the source, or a new one.
Dispatch(r, n) ==
  LET own == runs[r].batch
      join == own # 0 /\ batches[own].st = "running"
      b == IF join THEN own ELSE Len(batches) + 1
  IN
  /\ Owns(r) /\ plan.src # r
  /\ Len(runs) + n <= MaxRuns
  /\ batches' = IF join THEN batches ELSE Append(batches, [lead |-> r, st |-> "running"])
  /\ runs' = runs \o [i \in 1 .. n |->
       [NewRun("worker", b, FALSE, FALSE) EXCEPT !.root = Len(runs) + i]]
  /\ plan' = [src |-> r, st |-> "waiting"]
  /\ co' = Accepted(r)
  /\ UNCHANGED phase

\* Mutant: the evaluation is started beside the turn that still holds the line.
FinishEvaluatedBeside(r) ==
  /\ Owns(r) /\ plan.src # r /\ Room
  /\ runs' = Append(runs, NewRun("eval", 0, FALSE, FALSE))
  /\ plan' = [src |-> r, st |-> "finished"]
  /\ co' = Accepted(r)
  /\ UNCHANGED <<batches, phase>>

\* finish{evaluation: true}: the evaluation takes the control line.
FinishEvaluated(r) ==
  /\ Owns(r) /\ plan.src # r
  /\ Room
  /\ runs' = Append(runs, NewRun("eval", 0, FALSE, FALSE))
  /\ plan' = [src |-> r, st |-> "finished"]
  /\ co' = [Accepted(r) EXCEPT !.cur = Len(runs) + 1]
  /\ UNCHANGED <<batches, phase>>

\* finish without an evaluation.
FinishPlain(r) ==
  /\ Owns(r) /\ plan.src # r
  /\ plan' = [src |-> r, st |-> "finished"]
  /\ co' = Accepted(r)
  /\ UNCHANGED <<runs, batches, phase>>

\* No plan that can be read: scheduleCoordinatorPlanRepair, or its budget is spent.
PlanRejected(r) ==
  /\ plan.src # r
  /\ IF co.cur # r THEN UNCHANGED <<co, runs, batches>>
     ELSE IF co.repair < MaxRepairs
     THEN /\ Room
          /\ runs' = Append(runs, NewRun("turn", Len(batches) + 1, FALSE, TRUE))
          /\ batches' = Append(batches, [lead |-> Len(runs) + 1, st |-> "running"])
          /\ co' = [co EXCEPT !.status = "running", !.cur = Len(runs) + 1, !.act = "", !.at = FALSE,
                              !.seen = comments, !.repair = @ + 1]
     ELSE /\ co' = [Blocked(co) EXCEPT !.act = ""]
          /\ UNCHANGED <<runs, batches>>
  /\ UNCHANGED <<plan, phase>>

\* A plan without the authority or the quota.
PlanDenied(r) ==
  /\ plan.src # r
  /\ Block(r)
  /\ UNCHANGED <<runs, plan, phase>>

\* The plan was submitted before (replay), or its late submission is refused.
PlanKnown(r) ==
  /\ plan.src = r \/ ~Owns(r)
  /\ UNCHANGED <<co, runs, batches, plan, phase>>

HookPlan(r) ==
  /\ <<r, "plan">> \in hooks
  /\ NextHook(r, "plan")
  /\ \/ Verdict(r)
     \/ /\ runs[r].kind = "turn"
        /\ \/ \E n \in 1 .. MaxWorkers : Dispatch(r, n)
           \/ FinishEvaluated(r) \/ FinishPlain(r)
           \/ Owns(r) /\ (PlanRejected(r) \/ PlanDenied(r))
           \/ PlanKnown(r)
  /\ UNCHANGED <<wakes, comments, starts, sched, doomed, used>>

-----------------------------------------------------------------------------
(* maybeAdvanceTaskCoordinator                                              *)

\* openDispatchIDs settles every open batch by its candidate: the summary run,
\* else the lead, else the first member that ended.
Candidate(b) ==
  LET ended == {r \in Members(b) : ~Live(r)}
      sums == {r \in ended : runs[r].sum}
      lead == ended \cap {batches[b].lead}
      from(S) == CHOOSE r \in S : \A q \in S : r <= q
  IN IF sums # {} THEN from(sums) ELSE IF lead # {} THEN from(lead) ELSE from(ended)
Settleable == {b \in Open : \E r \in Members(b) : ~Live(r)}
ReplayedBatches ==
  [b \in 1 .. Len(batches) |-> IF b \in Settleable THEN SettleTx(Candidate(b))[1][b] ELSE batches[b]]
ReplayedWakes ==
  LET woken == {b \in Settleable : SettleTx(Candidate(b))[2] # wakes}
  IN wakes \o [i \in 1 .. Cardinality(woken) |->
       [batch |-> CHOOSE b \in woken : Cardinality({c \in woken : c < b}) = i - 1, st |-> "queued"]]

\* handleCoordinatorSuccess on its own row.
Success(r) ==
  LET row == [co EXCEPT !.cur = 0, !.fails = 0]
      mine == plan.src = r
      planless == runs[r].kind = "turn" /\ ~mine
      proven == runs[r].kind = "eval" /\ phase = "acceptance"
      still == \E b \in 1 .. Len(batches) : ReplayedBatches[b].st \in OpenBatch
      settled == batches' = ReplayedBatches /\ wakes' = ReplayedWakes
      plain == UNCHANGED <<batches, wakes>>
  IN
  IF planless THEN co' = Blocked(row) /\ plain
  ELSE IF runs[r].kind = "eval" /\ phase = "execution"
       THEN co' = [row EXCEPT !.status = "queued"] /\ plain
  ELSE IF mine /\ plan.st = "waiting"
       THEN co' = [row EXCEPT !.status = "running"] /\ plain
  ELSE /\ IF runs[r].kind = "eval" THEN settled ELSE plain
       /\ co' = IF runs[r].kind = "eval" /\ still THEN [row EXCEPT !.status = "running"]
                ELSE IF Unseen THEN [row EXCEPT !.status = "queued"]
                ELSE IF proven THEN [row EXCEPT !.status = "waiting_user"]
                ELSE Blocked(row)

\* handleCoordinatorTerminal.
AdvanceGoverned(r) ==
  IF Stopped \/ co.held \/ co.cur # r \/ (runs[r].sum /\ RetryPending) THEN UNCHANGED <<co, batches, wakes>>
  ELSE CASE runs[r].st = "succeeded" ->
              \* the evaluation that a finish started already holds the line
              Success(r)
         [] runs[r].st = "cancelled" -> co' = Handover(co) /\ UNCHANGED <<batches, wakes>>
         [] runs[r].st = "failed" /\ co.fails + 1 < MaxFailures ->
              /\ IF RetryPending \/ Settling THEN UNCHANGED co
                 ELSE co' = [co EXCEPT !.status = "waiting_retry", !.cur = 0, !.at = TRUE, !.fails = @ + 1,
                               !.act = IF runs[r].repair /\ co.repair > 0 THEN "repair_plan" ELSE "recover"]
              /\ UNCHANGED <<batches, wakes>>
         [] OTHER -> (IF RetryPending \/ Settling THEN UNCHANGED <<co, batches>> ELSE Block(r)) /\ UNCHANGED wakes

\* handleCoordinatorWorkerTerminal up to the branch it takes: the stop status,
\* the owner of the line and the replans spent are those of the row as read.
WorkerStage(r) ==
  CASE runs[r].st = "succeeded" -> "finish"
    [] runs[r].st = "cancelled" -> "hand"
    [] runs[r].st = "failed" /\ runs[r].attempt < MaxAttempts -> "retry"
    [] runs[r].st = "failed" /\ runs[r].attempt >= MaxAttempts /\ co.rounds = 0 -> "replan"
    [] OTHER -> "giveup"

\* The transaction of that branch: its fresh row is asked again who owns the
\* line, not whether the task was stopped meanwhile; only a replan asks the Goal.
AdvanceWorker(r, stage) ==
  /\ UNCHANGED wakes
  /\ IF Superseded(r) THEN UNCHANGED <<co, batches>>
     ELSE CASE stage = "finish" ->
                 /\ co' = IF co.act = "retry_worker" /\ co.retryOf = 0 THEN co
                          ELSE IF co.retryOf = 0 \/ co.retryOf \in Chain(r)
                          THEN [co EXCEPT !.cur = 0, !.act = "", !.retryOf = 0, !.rounds = 0]
                          ELSE [co EXCEPT !.cur = 0]
                 /\ UNCHANGED batches
            [] stage = "hand" ->
                 co' = (IF co.cur = r THEN Handover(co) ELSE co) /\ UNCHANGED batches
            [] stage = "retry" ->
                 /\ co' = [co EXCEPT !.status = "waiting_retry", !.cur = 0, !.at = TRUE,
                                     !.act = "retry_worker", !.retryOf = r]
                 /\ UNCHANGED batches
            [] stage = "replan" ->
                 /\ co' = IF co.held THEN co
                          ELSE [co EXCEPT !.status = "queued", !.cur = 0, !.act = "", !.retryOf = 0, !.rounds = 1]
                 /\ UNCHANGED batches
            [] stage = "giveup" -> Block(r)

HookAdvance(r) ==
  /\ <<r, "advance">> \in hooks
  /\ IF runs[r].kind \in Governed
     THEN NextHook(r, "advance") /\ AdvanceGoverned(r)
     ELSE /\ UNCHANGED <<co, batches, wakes>>
          /\ IF Stopped \/ co.held \/ Superseded(r) THEN NextHook(r, "advance")
             ELSE hooks' = (hooks \ {<<r, "advance">>}) \cup {<<r, WorkerStage(r)>>}
  /\ UNCHANGED <<runs, plan, phase, comments, starts, sched, doomed, used>>

HookWorker(r) ==
  /\ runs[r].kind \notin Governed
  /\ \E stage \in WorkerStages :
       /\ <<r, stage>> \in hooks
       /\ NextHook(r, stage)
       /\ AdvanceWorker(r, stage)
  /\ UNCHANGED <<runs, plan, phase, comments, starts, sched, doomed, used>>

\* maybeSettleDispatch, or the retry it schedules when its transaction fails.
HookSettle(r) ==
  /\ <<r, "settle">> \in hooks
  /\ NextHook(r, "settle")
  /\ \/ /\ batches' = SettleTx(r)[1] /\ wakes' = SettleTx(r)[2]
        /\ co' = ClearSettle(r)
        /\ UNCHANGED used
     \/ /\ used.faults < MaxFaults
        /\ used' = [used EXCEPT !.faults = @ + 1]
        /\ co' = IF Stopped \/ RetryPending \/ (Settling /\ co.settle # r) THEN co
                 ELSE [co EXCEPT !.status = "waiting_retry", !.cur = 0, !.at = TRUE,
                                 !.act = "settle", !.settle = r]
        /\ UNCHANGED <<batches, wakes>>
  /\ UNCHANGED <<runs, plan, phase, comments, starts, sched, doomed>>

-----------------------------------------------------------------------------
(* The scheduler                                                            *)

\* ConsumeOne up to the claim: a live run of the Coordinator keeps the wake queued.
Claim(w) ==
  /\ sched = 0 /\ wakes[w].st = "queued"
  /\ \A r \in Ids : runs[r].kind = "turn" => ~Live(r)
  /\ sched' = w
  /\ wakes' = [wakes EXCEPT ![w].st = "consumed"]
  /\ UNCHANGED <<co, runs, batches, plan, phase, comments, hooks, starts, doomed, used>>

\* createCoordinatorWakeRun, or the wake is put back while recovery is pending.
Summarise ==
  /\ sched # 0
  /\ sched' = 0
  /\ IF Stopped \/ co.held THEN UNCHANGED <<co, runs, wakes>>
     ELSE IF RetryPending \/ Settling \/ co.cur # 0
     THEN wakes' = [wakes EXCEPT ![sched].st = "queued"] /\ UNCHANGED <<co, runs>>
     ELSE /\ Room
          /\ runs' = Append(runs, NewRun("turn", wakes[sched].batch, TRUE, FALSE))
          /\ co' = [co EXCEPT !.status = "running", !.cur = Len(runs) + 1, !.at = FALSE]
          /\ UNCHANGED wakes
  /\ UNCHANGED <<batches, plan, phase, comments, hooks, starts, doomed, used>>

-----------------------------------------------------------------------------
(* The user and crashes                                                     *)

\* Mutant: a comment is recorded and the row is left where it is.
CommentKeepsRow ==
  /\ comments < MaxComments
  /\ comments' = comments + 1
  /\ UNCHANGED <<co, phase, runs, batches, wakes, plan, hooks, starts, sched, doomed, used>>

\* AppendTaskComment of an actionable kind, and applyRequirementWakeLocked.
Comment ==
  /\ comments < MaxComments
  /\ comments' = comments + 1
  /\ LET idle == co.status = "running" /\ co.cur = 0 /\ ~co.at /\ co.act = "" /\ ~TreeActive
     IN co' = IF co.status = "waiting_user" THEN [co EXCEPT !.status = "queued", !.at = FALSE]
              ELSE IF idle THEN [co EXCEPT !.status = "queued"] ELSE co
  /\ phase' = IF co.status = "waiting_user" THEN "execution" ELSE phase
  /\ UNCHANGED <<runs, batches, wakes, plan, hooks, starts, sched, doomed, used>>

Spend == used.blocks < MaxBlocks /\ used' = [used EXCEPT !.blocks = @ + 1]

\* BlockWorkItem: the active run is cancelled after the commit.
BlockTask ==
  /\ Spend /\ ~co.held
  /\ co' = Blocked(co)
  /\ batches' = Degraded
  /\ doomed' = IF co.cur # 0 /\ Live(co.cur) THEN doomed \cup {co.cur} ELSE doomed
  /\ UNCHANGED <<runs, wakes, plan, phase, comments, hooks, starts, sched>>

\* UnblockWorkItem: the reason is a comment, a blocked row is queued afresh.
Unblock ==
  /\ co.held /\ comments < MaxComments /\ used.unblocks < MaxUnblocks
  /\ used' = [used EXCEPT !.unblocks = @ + 1]
  /\ comments' = comments + 1
  /\ co' = IF co.status = "blocked"
           THEN [co EXCEPT !.status = "queued", !.cur = 0, !.at = FALSE, !.repair = 0, !.held = FALSE]
           ELSE [co EXCEPT !.held = FALSE]
  /\ UNCHANGED <<runs, batches, wakes, plan, phase, hooks, starts, sched, doomed>>

\* ControlRun cancel by the user.
CancelRun(r) ==
  /\ Spend /\ Live(r) /\ r \notin doomed
  /\ doomed' = doomed \cup {r}
  /\ UNCHANGED <<co, runs, batches, wakes, plan, phase, comments, hooks, starts, sched>>

\* The control plane restarts: what was in memory is gone, the rows stay.
Crash ==
  /\ used.crashes < MaxCrashes
  /\ used' = [used EXCEPT !.crashes = @ + 1]
  /\ hooks' = {} /\ starts' = [p \in Callers |-> Idle] /\ sched' = 0
  /\ UNCHANGED <<co, runs, batches, wakes, plan, phase, comments, doomed>>

-----------------------------------------------------------------------------
Start(p) == StartRead(p) \/ StartTurn(p) \/ StartFails(p) \/ StartRetry(p)
            \/ Launch(p) \/ StartReplay(p) \/ StartSettle(p)
Hook(r) == HookPlan(r) \/ HookAdvance(r) \/ HookWorker(r) \/ HookSettle(r)
Consume == Summarise \/ \E w \in 1 .. Len(wakes) : Claim(w)

CNext ==
  \/ \E p \in Callers : Start(p)
  \/ \E r \in Ids : Hook(r) \/ CancelRun(r)
  \/ \E r \in Ids, st \in Outcomes : EndRun(r, st)
  \/ Consume
  \/ Comment \/ BlockTask \/ Unblock \/ Crash

CSpec == CoordinatorInit /\ [][CNext]_cvars

\* Runs end (leases and timeouts), pipelines run on, the due scan and the
\* scheduler tick; what the user does is not promised.
CFairSpec ==
  /\ CSpec
  /\ WF_cvars(Consume)
  /\ \A p \in Callers : WF_cvars(Start(p))
  /\ \A r \in 1 .. MaxRuns :
       /\ WF_cvars(r \in Ids /\ HookPlan(r))
       /\ WF_cvars(r \in Ids /\ HookAdvance(r))
       /\ WF_cvars(r \in Ids /\ HookWorker(r))
       /\ WF_cvars(r \in Ids /\ HookSettle(r))
       /\ WF_cvars(r \in Ids /\ \E st \in Outcomes : EndRun(r, st))

-----------------------------------------------------------------------------
(* Properties                                                               *)

\* The row, the runs, the batches and the wakes have their declared shapes.
CTypeOK ==
  /\ co \in [status : {"queued", "running", "waiting_retry", "waiting_user", "blocked"},
             cur : 0 .. MaxRuns, act : {"", "recover", "repair_plan", "retry_worker", "settle"},
             at : BOOLEAN, retryOf : 0 .. MaxRuns, rounds : 0 .. 1, fails : 0 .. MaxFailures,
             repair : 0 .. MaxRepairs, seen : 0 .. MaxComments, settle : 0 .. MaxRuns,
             held : BOOLEAN]
  /\ Len(runs) <= MaxRuns /\ Len(batches) <= MaxRuns
  /\ \A r \in Ids :
       runs[r] \in [kind : {"turn", "worker", "eval"}, batch : 0 .. Len(batches), sum : BOOLEAN,
                    st : {"live", "succeeded", "failed", "fatal", "cancelled"},
                    repair : BOOLEAN, root : Ids, attempt : 1 .. MaxAttempts]
  /\ \A b \in 1 .. Len(batches) :
       batches[b] \in [lead : Ids, st : OpenBatch \cup {"completed", "degraded", "cancelled"}]
  /\ \A w \in 1 .. Len(wakes) :
       wakes[w] \in [batch : 1 .. Len(batches), st : {"queued", "consumed"}]
  /\ plan \in [src : 0 .. Len(runs), st : {"none", "waiting", "finished"}]
  /\ phase \in {"execution", "review", "acceptance"} /\ comments \in 0 .. MaxComments
  /\ hooks \subseteq Ids \X ({"plan", "advance", "settle"} \cup WorkerStages)
  /\ starts \in [Callers -> [do : {"none", "settle", "retry", "turn", "replay", "launch"}, run : 0 .. Len(runs)]]
  /\ sched \in 0 .. Len(wakes) /\ doomed \subseteq Ids
  /\ used \in [blocks : 0 .. MaxBlocks, unblocks : 0 .. MaxUnblocks, crashes : 0 .. MaxCrashes, faults : 0 .. MaxFaults]

\* At most one Coordinator turn or evaluation is at work on a task, and it is
\* the one the row points to: the rest have been asked to stop.  A start that
\* fails and a settlement that is put off take the line from a live run.
OneTurn == used.faults = 0 => \A r \in Ids : runs[r].kind \in Governed /\ Live(r) /\ r \notin doomed => co.cur = r

\* A batch is summarised once, however often its wake is lost, put back or
\* replaced (settlementWakeBlocksReplacement).
SettledOnce ==
  \A b \in 1 .. Len(batches) :
    /\ Cardinality({r \in Members(b) : runs[r].sum}) <= 1
    /\ Cardinality({w \in 1 .. Len(wakes) : wakes[w].batch = b /\ wakes[w].st = "queued"}) <= 1

\* waiting_user never hides a comment that no turn has read (RFC 7.11).
NoHiddenComment == co.status = "waiting_user" => ~Unseen

\* The Task does not stop silently: a row that is running with nothing at work
\* has something left that will wake it, a run to replay, an action that is
\* due, a comment, a wake, or a batch whose wake the next start repairs
\* (notes/implemented/architecture/2026-08-30-system-task-coordinator.md:33,47).
Quiet == /\ hooks = {} /\ sched = 0 /\ \A p \in Callers : starts[p] = Idle
         /\ \A r \in Ids : ~Live(r)
Awaited ==
  \/ co.cur # 0 \/ co.at \/ co.act \in {"retry_worker", "settle"}
  \/ Unseen /\ Open = {}
  \/ \E w \in 1 .. Len(wakes) : wakes[w].st = "queued"
  \/ \E b \in Collecting : Unattended(b)
NoStop == Quiet /\ co.status = "running" /\ ~co.held => Awaited

\* The same as long as no retry is forgotten: CheckpointKept tells how the
\* checkpoint of a failed Worker, whose batch waits for it, goes to another.
Owed(r) ==
  /\ runs[r].kind = "worker" /\ runs[r].st = "failed" /\ runs[r].attempt < MaxAttempts
  /\ \A q \in Ids : runs[q].root = runs[r].root => runs[q].attempt # runs[r].attempt + 1
Forgotten == \E r \in Ids : Owed(r) /\ runs[r].batch \in Open
NoStopUnlessForgotten == ~Forgotten => NoStop

\* The late end of a Worker does not replace the checkpoint of another retry
\* (the same note, line 85).
CheckpointKept ==
  [][co.status = "waiting_retry" /\ co'.status = "waiting_retry" /\ co.act # "settle" =>
       co'.act = co.act /\ co'.retryOf = co.retryOf]_cvars

\* A batch collects only when none of its Workers waits for a retry (line 76).
CollectsSettled ==
  [][\A b \in Open : batches[b].st = "running" /\ batches'[b].st = "collecting" =>
       ~(co.act = "retry_worker" /\ runs[co.retryOf].batch = b)]_cvars

\* A Goal that is blocked has a blocked Coordinator, and the other way round
\* (CheckGovernanceConsistency, application/governance.go:1874-1879).
BlockedWithGoal == co.held <=> co.status = "blocked"

\* A batch leaves the open states only when its participants have ended, unless
\* the task is blocked with it.
ClosesComplete ==
  [][\A b \in Open : batches'[b].st \notin OpenBatch =>
       co'.status = "blocked" \/ \A r \in Participants(b) : runs'[r].st # "live"]_cvars

\* A comment is read by a turn, unless the task is blocked or the bound on the
\* runs is reached: it does not hang (RFC 7.7).
CommentRead == Unseen ~> (~Unseen \/ co.held \/ Len(runs) >= MaxRuns - 1)
=============================================================================
