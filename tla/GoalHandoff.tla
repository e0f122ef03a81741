------------------------------ MODULE GoalHandoff ------------------------------
(***************************************************************************)
(* The governance of one coordinated task: the Goal, its current Todo with *)
(* the versioned claim, the hand-offs between agents, and the control runs *)
(* that plan for the Coordinator or for the target of a hand-off.  A run's *)
(* plan passes a fence that is read first, an admission, a compilation, a  *)
(* submission and a settlement of the Todo, each a transaction of its own, *)
(* and the user acts between any two of them.                              *)
(*   domain/governance.go, sqlstore/governance.go,                         *)
(*   application/governance.go, governance_handoff.go,                     *)
(*   governance_plan_execution.go, todo_plan_compiler.go,                  *)
(*   coordinator_engine.go, coordinator_plan_repair.go, plan.go, wakeup.go *)
(***************************************************************************)
EXTENDS Integers, Sequences, FiniteSets

CONSTANTS
  Agents,       \* the ordinary agents: they claim and take over
  Sys,          \* the system Coordinator agent
  None,         \* the owner of an unclaimed Todo
  MaxRuns,      \* bound on the control runs
  MaxHands,     \* bound on the hand-offs
  MaxClaims,    \* bound on the claims and releases through the API
  MaxExpiries,  \* bound on the claims that expire
  MaxPauses,    \* bound on how often the user pauses
  MaxBlocks,    \* bound on how often the user blocks
  MaxCrashes,   \* bound on restarts of the control plane
  MaxPipes,     \* bound on the pipelines beside which another one is replayed
  MaxActs       \* bound on all of these together, from MaxClaims to MaxCrashes

ASSUME HandoffAssumption ==
  /\ Sys \notin Agents /\ None \notin Agents \cup {Sys}
  /\ {MaxRuns, MaxHands, MaxClaims, MaxExpiries, MaxPauses, MaxBlocks, MaxCrashes, MaxPipes, MaxActs} \subseteq Nat

VARIABLES
  goal,     \* the status of the Goal
  todo,     \* its current Todo, with the claim and the run of its last Turn
  hands,    \* goal_handoffs, in the order of creation
  row,      \* the task_coordinator_states row with the hand-off checkpoint
  runs,     \* the control runs of the root
  plans,    \* the runs whose plan was accepted
  hooks,    \* terminal hook pipelines in flight: <<run, stage>>
  workers,  \* the dispatch of the last plan: none, live, or settled with a wake
  used      \* how much of each bound is spent

gvars == <<goal, todo, hands, row, runs, plans, hooks, workers, used>>

Owners == Agents \cup {Sys}
Ids == 1 .. Len(runs)
Hands == 1 .. Len(hands)
Live(r) == runs[r].st = "live"
Delegated(r) == runs[r].hid # 0
\* The stages under the lock of governancePlanLocks.
Locked == {"admit", "compile", "submit", "settle", "fail"}
StopStatus == {"blocked", "waiting_user", "cancelled"}
GoalClosed == goal \in {"completed", "cancelled"}
TodoClosed == todo.st = "cancelled"
Owned == todo.owner # None

Spent == used.claims + used.expiries + used.pauses + used.blocks + used.crashes
Spend(b, max) == used[b] < max /\ Spent < MaxActs /\ used' = [used EXCEPT ![b] = @ + 1]

HandoffInit ==
  /\ goal = "active"
  /\ todo = [st |-> "pending", owner |-> None, gen |-> 0, fresh |-> FALSE, turn |-> 0]
  /\ hands = <<>>
  /\ row = [st |-> "queued", cur |-> 0, act |-> "", hid |-> 0, srun |-> 0]
  /\ runs = <<>> /\ plans = {} /\ hooks = {} /\ workers = "none"
  /\ used = [b \in {"claims", "expiries", "pauses", "blocks", "crashes"} |-> 0]

-----------------------------------------------------------------------------
(* The claim of the Todo                                                    *)

\* TodoRepo.Claim accepts the owner.
Claimable(a) ==
  /\ ~TodoClosed
  /\ Owned /\ todo.owner # a => ~todo.fresh
  /\ todo.st = "running" => todo.owner = a

\* TodoRepo.Claim: every claim opens a new generation, the owner's own as well.
ClaimedBy(a) ==
  [todo EXCEPT !.owner = a, !.gen = @ + 1, !.fresh = TRUE,
               !.st = IF todo.st = "running" THEN "running" ELSE "claimed"]

\* TodoRepo.Release, and the claim that leaves with a block or a cancellation.
Released(t) == IF t.owner = None THEN t
               ELSE [t EXCEPT !.owner = None, !.gen = @ + 1, !.fresh = FALSE,
                              !.st = IF t.st = "claimed" THEN "pending" ELSE t.st]

\* Holds(h): the claim is still the one that hand-off h transferred.
Holds(h) == /\ hands[h].st = "transferred"
            /\ todo.owner = hands[h].tgt /\ todo.gen = hands[h].tgen

\* activeTransferredHandoff: 0 when the current claim came from no hand-off.
Active == IF \E h \in Hands : Holds(h) THEN CHOOSE h \in Hands : Holds(h) ELSE 0

\* latestTransferredHandoffForTodo: the highest target generation, however old.
Transferred == {h \in Hands : hands[h].st = "transferred"}
Latest == IF Transferred = {} THEN 0
          ELSE CHOOSE h \in Transferred : \A i \in Transferred : hands[i].tgen <= hands[h].tgen

\* coordinatorRunRelinquishedToHandoff: r is the source that handed over.
Relinquished(r) == row.act = "handoff" /\ row.srun = r

\* renewDelegatedCoordinatorClaimForRun: does not apply, or must succeed.
RenewalSkipped(r) ==
  \/ ~Delegated(r)
  \/ Relinquished(r) /\ row.hid # runs[r].hid
  \/ goal # "active"
Renewable(r) == ~RenewalSkipped(r) => Holds(runs[r].hid)
Renewed(r) == IF RenewalSkipped(r) THEN todo ELSE [todo EXCEPT !.fresh = TRUE]

\* ClaimTodo.
ClaimTodo(a) ==
  /\ goal = "active" /\ Claimable(a)
  /\ Spend("claims", MaxClaims)
  /\ todo' = ClaimedBy(a)
  /\ UNCHANGED <<goal, hands, row, runs, plans, hooks, workers>>

\* ReleaseTodo by the owner, also of an expired claim.
ReleaseTodo ==
  /\ ~GoalClosed /\ Owned /\ todo.st # "running"
  /\ Spend("claims", MaxClaims)
  /\ todo' = Released(todo)
  /\ UNCHANGED <<goal, hands, row, runs, plans, hooks, workers>>

\* The lease of the claim runs out; nothing is written.
Expire ==
  /\ Owned /\ todo.fresh
  /\ Spend("expiries", MaxExpiries)
  /\ todo' = [todo EXCEPT !.fresh = FALSE]
  /\ UNCHANGED <<goal, hands, row, runs, plans, hooks, workers>>

-----------------------------------------------------------------------------
(* Hand-offs                                                                *)

\* CreateHandoff: several may be pending against one claim.
CreateHandoff(tgt) ==
  /\ ~GoalClosed /\ ~TodoClosed
  /\ Owned /\ todo.fresh /\ tgt # todo.owner
  /\ Len(hands) < MaxHands
  /\ hands' = Append(hands, [st |-> "pending", src |-> todo.owner, tgt |-> tgt,
                             sgen |-> todo.gen, tgen |-> 0, from |-> 0])
  /\ UNCHANGED <<goal, todo, row, runs, plans, hooks, workers, used>>

\* handoffSourceRunForContinuation: the run on the control line must be the source's.
SourceRun(h) ==
  row.cur # 0 =>
    /\ runs[row.cur].agent = hands[h].src
    /\ IF hands[h].src = Sys THEN ~Delegated(row.cur) ELSE runs[row.cur].hid = row.hid /\ row.hid # 0

\* queueHandoffContinuationLocked: the checkpoint of another hand-off must lead here.
Queueable(h) ==
  /\ row.st # "cancelled"
  /\ row.hid \notin {0, h} =>
       /\ hands[row.hid].st = "transferred"
       /\ hands[row.hid].tgt = hands[h].src /\ hands[row.hid].tgen = hands[h].sgen

\* Mutant: the checkpoint is written and the status of the line is left alone.
ContinuedKeepsStatus(h) ==
  [row EXCEPT !.hid = h, !.srun = row.cur, !.act = "handoff",
              !.cur = IF @ # 0 /\ ~Live(@) THEN 0 ELSE @]

\* The checkpoint of the continuation; a line at rest is queued at once.
Continued(h) ==
  LET over == row.cur = 0 \/ ~Live(row.cur)
  IN [row EXCEPT !.hid = h, !.srun = row.cur, !.act = "handoff",
                 !.st = IF over THEN "queued" ELSE @, !.cur = IF over THEN 0 ELSE @]

\* Mutant: the hand-off is matched with the owner and not with the generation.
TransferableByOwner(h) ==
  /\ hands[h].st = "pending" /\ ~TodoClosed
  /\ todo.owner = hands[h].src /\ todo.fresh

\* The claim is the very one the hand-off was created against.
Transferable(h) ==
  /\ hands[h].st = "pending" /\ ~TodoClosed
  /\ todo.owner = hands[h].src /\ todo.gen = hands[h].sgen /\ todo.fresh

\* AcceptHandoff: TransferClaim and the continuation in one transaction.
AcceptHandoff(h) ==
  /\ Transferable(h) /\ SourceRun(h) /\ Queueable(h)
  /\ todo' = [todo EXCEPT !.owner = hands[h].tgt, !.gen = @ + 1, !.fresh = TRUE]
  /\ hands' = [hands EXCEPT ![h].st = "transferred", ![h].tgen = todo.gen + 1, ![h].from = row.cur]
  /\ row' = Continued(h)
  /\ UNCHANGED <<goal, runs, plans, hooks, workers, used>>

\* RejectHandoff, CancelHandoff.
ResolveHandoff(h, st) ==
  /\ hands[h].st = "pending"
  /\ hands' = [hands EXCEPT ![h].st = st]
  /\ UNCHANGED <<goal, todo, row, runs, plans, hooks, workers, used>>

-----------------------------------------------------------------------------
(* The Goal                                                                 *)

Cleared == [row EXCEPT !.hid = 0, !.srun = 0, !.act = IF @ = "handoff" THEN "" ELSE @]

\* Mutant: the Todo is blocked and keeps its claim.
BlockGovernanceClaimed ==
  IF GoalClosed THEN UNCHANGED <<goal, todo>>
  ELSE goal' = "blocked" /\ todo' = [todo EXCEPT !.st = "blocked"]

\* blockCurrentGovernanceLocked.
BlockGovernance ==
  IF GoalClosed THEN UNCHANGED <<goal, todo>>
  ELSE goal' = "blocked" /\ todo' = [Released(todo) EXCEPT !.st = "blocked"]

BlockedRow == row' = [Cleared EXCEPT !.st = "blocked", !.cur = 0]

\* blockCoordinator: a governed run that lost the line blocks nothing.
Block(r) ==
  IF (r # 0 /\ row.cur # r) \/ row.st = "cancelled"
  THEN UNCHANGED <<goal, todo, row, workers>>
  ELSE BlockedRow /\ BlockGovernance /\ workers' = "none"

\* BlockWorkItem by the user; the run on the line is cancelled after the commit.
BlockTask ==
  /\ goal \in {"active", "waiting"}
  /\ Spend("blocks", MaxBlocks)
  /\ BlockedRow /\ BlockGovernance /\ workers' = "none"
  /\ UNCHANGED <<hands, runs, plans, hooks>>

\* UnblockWorkItem with resumeCurrentGovernanceLocked.
Unblock ==
  /\ goal = "blocked"
  /\ goal' = "active"
  /\ todo' = [Released(todo) EXCEPT !.st = "pending"]
  /\ row' = [row EXCEPT !.st = "queued", !.cur = 0]
  /\ UNCHANGED <<hands, runs, plans, hooks, workers, used>>

\* PauseGoal: the claim stays, the row and the runs are left alone.
Pause ==
  /\ goal = "active"
  /\ Spend("pauses", MaxPauses)
  /\ goal' = "waiting"
  /\ todo' = [todo EXCEPT !.st = IF TodoClosed THEN @ ELSE "waiting"]
  /\ UNCHANGED <<hands, row, runs, plans, hooks, workers>>

\* resumeTodo: a transferred hand-off must still hold, an expired owner of an
\* admitted Turn claims again, else the Todo is free.
ResumedTodo ==
  IF Latest # 0 THEN [todo EXCEPT !.st = "claimed", !.fresh = TRUE]
  ELSE IF Owned /\ todo.fresh THEN [todo EXCEPT !.st = "claimed"]
  ELSE IF Owned /\ todo.turn # 0 THEN [todo EXCEPT !.st = "claimed", !.gen = @ + 2, !.fresh = TRUE]
  ELSE [Released(todo) EXCEPT !.st = "pending"]

\* resumeCoordinatorForGoalLocked: only a line at rest is queued for recovery.
ResumedRow ==
  IF \/ row.st \in {"waiting_user", "waiting_retry"} \/ row.cur # 0
     \/ workers = "wake" \/ (row.st = "running" /\ workers = "live") \/ plans # {}
  THEN row ELSE [row EXCEPT !.st = "queued", !.act = "recover"]

\* ResumeGoal, refused when the claim of the last hand-off was replaced.
Resume ==
  /\ goal = "waiting" /\ todo.st = "waiting"
  /\ Latest # 0 => Holds(Latest)
  /\ row.st \notin {"blocked", "cancelled"}
  /\ goal' = "active" /\ todo' = ResumedTodo /\ row' = ResumedRow
  /\ UNCHANGED <<hands, runs, plans, hooks, workers, used>>

\* Mutant: the hand-offs get a status that the domain does not know.
WithdrawnExpired == [h \in Hands |-> IF hands[h].st = "pending" THEN [hands[h] EXCEPT !.st = "expired"] ELSE hands[h]]

\* Mutant: the cancellation of the Goal forgets the hand-offs that are pending.
WithdrawnKept == hands

\* The pending hand-offs are cancelled with the Goal.
Withdrawn == [h \in Hands |-> IF hands[h].st = "pending" THEN [hands[h] EXCEPT !.st = "cancelled"] ELSE hands[h]]

\* CancelGoal, in one transaction; the live runs are told afterwards.
CancelGoal ==
  /\ goal \in {"active", "waiting", "blocked"}
  /\ Spend("blocks", MaxBlocks)
  /\ goal' = "cancelled"
  /\ todo' = [Released(todo) EXCEPT !.st = "cancelled"]
  /\ hands' = Withdrawn
  /\ row' = [row EXCEPT !.st = "cancelled", !.cur = 0, !.act = ""]
  /\ workers' = "none"
  /\ UNCHANGED <<runs, plans, hooks>>

-----------------------------------------------------------------------------
(* Control runs                                                             *)

Queueing == row.st \in {"queued", "waiting_retry"} \/ (row.st = "running" /\ row.act # "")

Turn(h) == Append(runs, [agent |-> IF h = 0 THEN Sys ELSE hands[h].tgt, hid |-> h, st |-> "live", adm |-> FALSE])

\* The hand-off the next turn works for: the checkpoint's, else the claim's.
Chosen == IF row.hid # 0 THEN row.hid ELSE Active

\* StartCoordinator with no run on the line.
Start ==
  /\ goal = "active" /\ row.cur = 0 /\ Queueing
  /\ IF Chosen # 0 /\ ~Holds(Chosen)
     THEN Block(0) /\ UNCHANGED runs
     ELSE /\ Len(runs) < MaxRuns
          /\ runs' = Turn(Chosen)
          /\ row' = [row EXCEPT !.st = "running", !.cur = Len(runs) + 1, !.act = "", !.hid = Chosen]
          /\ todo' = IF Chosen # 0 THEN [todo EXCEPT !.fresh = TRUE] ELSE todo
          /\ UNCHANGED <<goal, workers>>
  /\ UNCHANGED <<hands, plans, hooks, used>>

\* StartCoordinator on a run that has ended: replayCoordinatorTerminalHooks.
FirstHook(r, st) == <<r, IF st = "succeeded" THEN "plan" ELSE "advance">>
Replay ==
  /\ goal = "active" /\ row.st \notin StopStatus
  /\ row.cur # 0 /\ ~Live(row.cur) /\ Cardinality(hooks) < MaxPipes
  /\ hooks' = hooks \cup {FirstHook(row.cur, runs[row.cur].st)}
  /\ UNCHANGED <<goal, todo, hands, row, runs, plans, workers, used>>

\* transitionRunLocked: the terminal status of a delegated run renews its claim,
\* and is refused with it.
EndRun(r, st) ==
  /\ Live(r) /\ Renewable(r)
  /\ runs' = [runs EXCEPT ![r].st = st]
  /\ todo' = Renewed(r)
  /\ hooks' = hooks \cup {FirstHook(r, st)}
  /\ UNCHANGED <<goal, hands, row, plans, workers, used>>

Go(r, from, to) == <<r, from>> \in hooks /\ hooks' = (hooks \ {<<r, from>>}) \cup {<<r, to>>}

\* processSystemCoordinatorPlanDecision up to the admission: what it reads is
\* not read again.
HookFence(r) ==
  /\ IF goal # "active" \/ Relinquished(r) \/ row.cur # r
     THEN Go(r, "plan", "advance")
     ELSE \/ /\ \A s \in Locked : <<r, s>> \notin hooks  \* PlanDecisionV2 found, the turn lock is free
             /\ Go(r, "plan", "admit")
          \/ Go(r, "plan", "deny")
  /\ UNCHANGED <<goal, todo, hands, row, runs, plans, workers, used>>

\* ensureGovernancePlanAdmission for the first time: the Todo after it, as a set.
FirstAdmission(r) ==
  LET a == runs[r].agent
      t == Renewed(r)
      turn(u) == {[u EXCEPT !.st = "running", !.turn = r]}
  IN IF goal # "active" \/ ~Renewable(r) THEN {}
     ELSE IF todo.st \in {"pending", "waiting", "blocked"}
     THEN IF Claimable(a) THEN turn(ClaimedBy(a)) ELSE {}
     ELSE IF todo.st = "claimed" /\ t.owner = a /\ t.fresh THEN turn(t) ELSE {}

\* The same for a run that has its Turn already.
Readmission(r) ==
  LET t == Renewed(r)
  IN IF goal = "active" /\ Renewable(r) /\ todo.turn = r /\ todo.owner = runs[r].agent
        /\ t.fresh /\ todo.st \in {"running", "claimed"}
     THEN {[t EXCEPT !.st = "running"]} ELSE {}

HookAdmit(r) ==
  LET after == IF runs[r].adm THEN Readmission(r) ELSE FirstAdmission(r) IN
  /\ <<r, "admit">> \in hooks
  /\ IF r \in plans
     THEN Go(r, "admit", "settle") /\ UNCHANGED <<todo, runs>>
     ELSE IF after = {}
     THEN Go(r, "admit", "deny") /\ UNCHANGED <<todo, runs>>
     ELSE Go(r, "admit", "compile") /\ todo' \in after /\ runs' = [runs EXCEPT ![r].adm = TRUE]
  /\ UNCHANGED <<goal, hands, row, plans, workers, used>>

\* validateTodoPlanSourceRun, validateDelegatedTodoPlanSource.
Compiles(r) ==
  /\ goal = "active" /\ todo.st = "running" /\ todo.owner = runs[r].agent /\ todo.fresh
  /\ row.st = "running" /\ row.cur = r
  /\ Delegated(r) => Holds(runs[r].hid)

\* CompileTodoPlan.
HookCompile(r) ==
  /\ Go(r, "compile", IF Compiles(r) THEN "submit" ELSE "fail")
  /\ UNCHANGED <<goal, todo, hands, row, runs, plans, workers, used>>

\* Mutant: the submission trusts the compilation.
SubmitsUnfenced(r) == ~GoalClosed

\* The transaction of SubmitPlan: neither the Goal nor, for the Coordinator
\* itself, the Todo is read again.
Submits(r) ==
  /\ row.st = "running" /\ row.cur = r /\ ~GoalClosed
  /\ Delegated(r) => /\ row.hid = runs[r].hid /\ Holds(row.hid) /\ todo.fresh

HookSubmit(r) ==
  /\ <<r, "submit">> \in hooks
  /\ IF Submits(r)
     THEN /\ Go(r, "submit", "settle")
          /\ plans' = plans \cup {r} /\ workers' = "live"
     ELSE Go(r, "submit", "fail") /\ UNCHANGED <<plans, workers>>
  /\ UNCHANGED <<goal, todo, hands, row, runs, used>>

\* transitionGovernanceTodoTurn: the Turn waits for its Workers.
HookSettle(r) ==
  /\ Go(r, "settle", "advance")
  /\ todo' = IF todo.st = "running" /\ todo.turn = r THEN [todo EXCEPT !.st = "waiting"] ELSE todo
  /\ UNCHANGED <<goal, hands, row, runs, plans, workers, used>>

\* settleGovernancePlanSubmissionFailure.
HookFail(r) ==
  /\ Go(r, "fail", "deny")
  /\ todo' = IF todo.st = "running" /\ todo.turn = r THEN [todo EXCEPT !.st = "blocked"] ELSE todo
  /\ UNCHANGED <<goal, hands, row, runs, plans, workers, used>>

\* handleCoordinatorPlanDecisionFailure: authority, quota or no plan at all.
HookDeny(r) ==
  /\ Go(r, "deny", "advance")
  /\ Block(r)
  /\ UNCHANGED <<hands, runs, plans, used>>

\* maybeAdvanceTaskCoordinator.
Advance(r) ==
  IF goal # "active" \/ row.st \in StopStatus \/ row.cur # r
  THEN UNCHANGED <<goal, todo, row, workers>>
  ELSE IF Relinquished(r)
  THEN row' = [row EXCEPT !.st = "queued", !.cur = 0] /\ UNCHANGED <<goal, todo, workers>>
  ELSE CASE runs[r].st = "succeeded" /\ r \in plans ->
              row' = [row EXCEPT !.st = "running", !.cur = 0] /\ UNCHANGED <<goal, todo, workers>>
         [] runs[r].st = "succeeded" /\ r \notin plans ->
              \* coordinator_plan_missing: open dispatches stay open
              BlockedRow /\ BlockGovernance /\ UNCHANGED workers
         [] runs[r].st = "cancelled" ->
              row' = [row EXCEPT !.st = "waiting_user", !.cur = 0] /\ UNCHANGED <<goal, todo, workers>>
         [] OTHER ->
              \/ /\ row' = [row EXCEPT !.st = "waiting_retry", !.cur = 0, !.act = "recover"]
                 /\ UNCHANGED <<goal, todo, workers>>
              \/ Block(r)

HookAdvance(r) ==
  /\ <<r, "advance">> \in hooks
  /\ hooks' = hooks \ {<<r, "advance">>}
  /\ Advance(r)
  /\ UNCHANGED <<hands, runs, plans, used>>

-----------------------------------------------------------------------------
(* Workers, wakes, comments and crashes                                     *)

\* The last Worker of the dispatch settles: its wake is queued.
WorkersDone ==
  /\ workers = "live" /\ workers' = "wake"
  /\ UNCHANGED <<goal, todo, hands, row, runs, plans, hooks, used>>

\* ConsumeOne: a paused Goal defers the wake, a stopped one spends it, and a
\* stale hand-off leaves it queued.
Wake ==
  /\ workers = "wake" /\ goal # "waiting"
  /\ IF goal # "active" \/ row.st \in StopStatus
     THEN UNCHANGED <<todo, row, runs>>
     ELSE /\ row.cur = 0 /\ row.st # "waiting_retry"
          /\ Chosen # 0 => Holds(Chosen)
          /\ Len(runs) < MaxRuns
          /\ runs' = Turn(Chosen)
          /\ row' = [row EXCEPT !.st = "running", !.cur = Len(runs) + 1, !.hid = Chosen]
          /\ todo' = IF Chosen # 0 THEN [todo EXCEPT !.fresh = TRUE] ELSE todo
  /\ workers' = "none"
  /\ UNCHANGED <<goal, hands, plans, hooks, used>>

\* applyRequirementWakeLocked: an actionable comment.
Comment ==
  /\ \/ row.st = "waiting_user"
     \/ row.st = "running" /\ row.cur = 0 /\ row.act = "" /\ workers = "none"
        /\ \A r \in Ids : ~Live(r)
  /\ row' = [row EXCEPT !.st = "queued"]
  /\ UNCHANGED <<goal, todo, hands, runs, plans, hooks, workers, used>>

\* The control plane restarts: the pipelines are lost, the rows stay.
Crash ==
  /\ hooks # {}
  /\ Spend("crashes", MaxCrashes)
  /\ hooks' = {}
  /\ UNCHANGED <<goal, todo, hands, row, runs, plans, workers>>

-----------------------------------------------------------------------------
Hook(r) == HookFence(r) \/ HookAdmit(r) \/ HookCompile(r) \/ HookSubmit(r)
           \/ HookSettle(r) \/ HookFail(r) \/ HookDeny(r) \/ HookAdvance(r)

GNext ==
  \/ \E a \in Owners : ClaimTodo(a)
  \/ \E a \in Agents : CreateHandoff(a)
  \/ ReleaseTodo \/ Expire
  \/ \E h \in Hands : AcceptHandoff(h) \/ \E st \in {"rejected", "cancelled"} : ResolveHandoff(h, st)
  \/ BlockTask \/ Unblock \/ Pause \/ Resume \/ CancelGoal
  \/ Start \/ Replay
  \/ \E r \in Ids : Hook(r) \/ \E st \in {"succeeded", "failed", "cancelled"} : EndRun(r, st)
  \/ WorkersDone \/ Wake \/ Comment \/ Crash

GSpec == HandoffInit /\ [][GNext]_gvars

\* The due scan starts and replays, runs end, and pipelines run on.
GFairSpec ==
  /\ GSpec
  /\ WF_gvars(Start) /\ WF_gvars(Replay)
  /\ \A r \in 1 .. MaxRuns :
       /\ WF_gvars(r \in Ids /\ Hook(r))
       /\ WF_gvars(r \in Ids /\ \E st \in {"succeeded", "failed", "cancelled"} : EndRun(r, st))

-----------------------------------------------------------------------------
(* Properties                                                               *)

\* Every part of the state has its declared shape.
GTypeOK ==
  /\ goal \in {"active", "waiting", "blocked", "cancelled"}
  /\ todo \in [st : {"pending", "claimed", "running", "waiting", "blocked", "cancelled"},
               owner : Owners \cup {None}, gen : Nat, fresh : BOOLEAN, turn : Nat]
  /\ hands \in Seq([st : {"pending", "transferred", "rejected", "cancelled"}, src : Owners, tgt : Agents,
                    sgen : Nat, tgen : Nat, from : Nat])
  /\ row \in [st : {"queued", "running", "waiting_retry"} \cup StopStatus, cur : Nat,
              act : {"", "handoff", "recover"}, hid : Nat, srun : Nat]
  /\ row.cur \in 0 .. Len(runs) /\ row.hid \in 0 .. Len(hands)
  /\ runs \in Seq([agent : Owners, hid : Nat, st : {"live", "succeeded", "failed", "cancelled"}, adm : BOOLEAN])
  /\ \A r \in Ids : runs[r].hid \in 0 .. Len(hands)
  /\ plans \subseteq Ids
  /\ hooks \subseteq Ids \X ({"plan", "deny", "advance"} \cup Locked)
  /\ workers \in {"none", "live", "wake"}
  /\ used \in [{"claims", "expiries", "pauses", "blocks", "crashes"} -> Nat]

\* The claim that a hand-off transfers is the one it was created against, with
\* no release, claim or transfer in between, and it is handed over only once,
\* however many hand-offs were created against it (AcceptHandoff, TransferClaim).
TransferredOnce ==
  \A h \in Transferred :
    /\ hands[h].tgen = hands[h].sgen + 1
    /\ \A i \in Transferred \ {h} : hands[i].sgen # hands[h].sgen

\* The outcome of a run that handed over is evidence only: it never becomes a
\* plan, whatever its pipeline had read before the hand-off was accepted.
RelinquishedIsEvidence ==
  [][\A h \in Hands : hands[h].st = "transferred" =>
       hands[h].from \in plans \/ hands[h].from \notin plans']_gvars

\* The Coordinator row and the Goal are blocked together, and nobody holds the
\* Todo of a blocked Goal.
BlockedTogether ==
  /\ goal = "blocked" <=> row.st = "blocked"
  /\ goal = "blocked" => todo.st = "blocked" /\ todo.owner = None

\* Nothing of a cancelled Goal can be taken up again.
CancelledSettled ==
  goal = "cancelled" =>
    /\ todo.st = "cancelled" /\ todo.owner = None
    /\ row.st = "cancelled" /\ row.cur = 0
    /\ \A h \in Hands : hands[h].st # "pending"

\* An accepted hand-off is taken up: its target gets a turn, from the checkpoint
\* or from a wake that finds the target on the line, unless another hand-off or
\* the stop of the Goal comes first, or the bound on the runs is reached
\* (queueHandoffContinuationLocked).
TakenUp(h) == \E r \in Ids : runs[r].hid = h /\ runs[r].agent = hands[h].tgt
HandoffContinues ==
  \A h \in 1 .. MaxHands :
    (row.act = "handoff" /\ row.hid = h) ~>
      (TakenUp(h) \/ row.hid # h \/ goal # "active" \/ Len(runs) = MaxRuns)

\* Every outcome of a run can be written down: the terminal status of a
\* delegated run does not hang on the claim (application/runs.go).
OutcomeLands == \A r \in Ids : Live(r) => Renewable(r)

\* The admission of a delegated run keeps the claim it was delegated with, so
\* that the target has more turns than one.
AdmissionKeepsClaim ==
  [][\A r \in Ids : Delegated(r) /\ <<r, "admit">> \in hooks /\ <<r, "compile">> \in hooks' =>
       (Holds(runs[r].hid) => Holds(runs[r].hid)')]_gvars

\* The late output of a turn blocks no Goal that the user has paused
\* (application/coordinator_plan_repair.go).
PausedUntouched ==
  [][goal = "waiting" /\ goal' = "blocked" => used'.blocks # used.blocks]_gvars

\* No Workers are sent for a Goal that is paused.
NoPlanWhilePaused == [][plans' # plans => goal = "active"]_gvars
=============================================================================
