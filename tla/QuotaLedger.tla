------------------------------ MODULE QuotaLedger ------------------------------
(***************************************************************************)
(* The usage ledger of one Goal with one quota policy: each admitted Turn   *)
(* freezes what is left of the limit, each terminal run of the Turn is      *)
(* charged once against that reservation, and the Turn is closed when its   *)
(* work is over.  Usage reports arrive at any time; the settlement sweep is *)
(* run by terminal hooks, by the submission of a plan and by every          *)
(* StartCoordinator, so that it meets the other handlers between any two of *)
(* their transactions.                                                      *)
(*   application/quota.go, quota_settlement.go, quota_gap_resolution.go,    *)
(*   governance_plan_execution.go, governance.go,                           *)
(*   governance_control_receipts.go, coordinator_engine.go, wakeup.go,      *)
(*   canonical_usage_hook.go, sessions.go, sqlstore/quota.go                *)
(***************************************************************************)
EXTENDS Integers, Sequences, Functions

CONSTANTS
  Limit,        \* limit of the policy
  Enforce,      \* enforcement of the policy: enforce, or audit
  Amounts,      \* what a usage report may prove
  Outcomes,     \* how a run may end
  MaxTurns,     \* bound on the admitted Turns
  MaxRuns,      \* bound on the runs
  MaxWorkers,   \* bound on the dispatch steps of one plan
  MaxAttempts,  \* coordinatorMaxWorkerAttempts
  MaxGaps,      \* bound on the gaps the user reconciles
  MaxExtra      \* bound on replayed pipelines, unblocks and restarts together

ASSUME QuotaAssumption ==
  /\ {Limit, MaxTurns, MaxRuns, MaxAttempts} \subseteq Nat \ {0}
  /\ {MaxWorkers, MaxGaps, MaxExtra} \subseteq Nat
  /\ Amounts \subseteq Nat /\ Enforce \in BOOLEAN
  /\ Outcomes \subseteq {"succeeded", "failed", "fatal"}

VARIABLES
  turns,   \* turn receipts by TurnSeq: last phase, reservation, batch, plan
  runs,    \* runs in the order of creation: report, canonical usage, spend entry
  todo,    \* the current Todo: status, LastTurnSeq
  co,      \* the Coordinator row
  hooks,   \* terminal pipelines in flight: <<run, next step>>
  used     \* how much of each bound is spent

qvars == <<turns, runs, todo, co, hooks, used>>

None == -1   \* no report, no canonical usage yet
Gap == -2    \* usage that cannot be proved, absent evidence included

Ids == 1 .. Len(runs)
Seqs == 1 .. Len(turns)
Live(r) == runs[r].st = "live"
Room == Len(runs) < MaxRuns
\* Runs of a Turn: its source first, then what carries its governance key.
TurnRuns(t) == {r \in Ids : r = turns[t].src \/ runs[r].turn = t}

NewRun(kind, t) ==
  [kind |-> kind, turn |-> t, st |-> "live", attempt |-> 1, root |-> Len(runs) + 1,
   report |-> None, canon |-> None, late |-> FALSE, spent |-> "none", amt |-> 0]

Extra == used.extra < MaxExtra /\ used' = [used EXCEPT !.extra = @ + 1]

QInit ==
  /\ turns = <<>> /\ hooks = {}
  /\ runs = <<[kind |-> "source", turn |-> 0, st |-> "live", attempt |-> 1, root |-> 1,
               report |-> None, canon |-> None, late |-> FALSE, spent |-> "none", amt |-> 0]>>
  /\ todo = [st |-> "pending", seq |-> 0]
  /\ co = [st |-> "running", cur |-> 1, act |-> "", retryOf |-> 0, rounds |-> 0]
  /\ used = [gaps |-> 0, extra |-> 0]

-----------------------------------------------------------------------------
(* The ledger *)

Reserved(t) == turns[t].st = "reserved"
SumCommitted == SumFunction([r \in Ids |-> runs[r].amt])
SumActiveReserved == SumFunction([t \in Seqs |-> IF Reserved(t) THEN turns[t].reserved ELSE 0])
Unresolved == {r \in Ids : runs[r].spent = "unresolved"}

\* Mutant: what is frozen by Turns still open is not counted.
RemainingCommittedOnly == IF SumCommitted >= Limit THEN 0 ELSE Limit - SumCommitted
Remaining ==
  LET total == SumCommitted + SumActiveReserved
  IN IF total >= Limit THEN 0 ELSE Limit - total

\* ShouldRunLocked for one unit: before startCoordinatorTurn.
ShouldRun == Enforce => Unresolved = {} /\ Remaining >= 1
\* The gate of a run inside a Turn: the frozen amount, whatever became of it.
Gate(t) == Enforce => turns[t].reserved > 0 /\ Unresolved = {}

\* What the rows charge to the runs S.
Spent(rows, S) == SumFunction([r \in S |-> IF rows[r].spent = "committed" THEN rows[r].amt ELSE 0])
Spend(t) == Spent(runs, TurnRuns(t))

\* appendTurnRunSpendLocked for the runs S of Turn t, in the order of creation:
\* an amount above what is left of the reservation is recorded as unresolved.
Charged(t, S, canon) ==
  LET fits(r, before) == canon[r] >= 0 /\ before + canon[r] <= turns[t].reserved
      total[r \in 0 .. Len(runs)] ==
        IF r = 0 THEN Spend(t)
        ELSE total[r - 1] + (IF r \in S /\ fits(r, total[r - 1]) THEN canon[r] ELSE 0)
  IN [r \in Ids |->
       IF r \notin S THEN [runs[r] EXCEPT !.canon = canon[r]]
       ELSE IF fits(r, total[r - 1])
       THEN [runs[r] EXCEPT !.canon = canon[r], !.spent = "committed", !.amt = canon[r]]
       ELSE [runs[r] EXCEPT !.canon = canon[r], !.spent = "unresolved"]]

\* The Todo is closed on Turn t.
TodoClosed(t) == todo.seq = t /\ todo.st = "blocked"

\* A retry checkpoint names a run of the Turn: its budget is kept.
RetryHolds(t, row) == row.act = "retry_worker" /\ row.retryOf # 0 /\ runs[row.retryOf].turn = t

\* Mutant: runs still at work are left to a later sweep.
MayCloseEarly(t, phase, absent, missing, row) ==
  /\ missing = {} \/ absent
  /\ phase = 5 \/ TodoClosed(t)
  /\ ~turns[t].pend /\ ~RetryHolds(t, row)
\* The conditions for closing a Turn.
MayClose(t, phase, absent, missing, row) ==
  /\ \A r \in TurnRuns(t) : ~Live(r)
  /\ missing = {} \/ absent
  /\ phase = 5 \/ TodoClosed(t)
  /\ ~turns[t].pend /\ ~RetryHolds(t, row)

\* Mutant: evidence is synthesised by any sweep.
EvidenceAtOnce(closes) == Gap
\* What stands for the usage of a run that never reported.
Evidence(closes) == IF closes THEN Gap ELSE None

\* settleGovernanceTurnQuotaLocked on the phase and the Coordinator row as the
\* transaction sees them: runs and receipt of Turn t after it.  AppendSpend refuses a
\* reservation that is no longer reserved, and everything is rolled back.
Swept(t, phase, absent, row) ==
  LET ended == {r \in TurnRuns(t) : ~Live(r)}
      canon == [r \in Ids |-> IF r \in ended /\ runs[r].canon = None
                              THEN runs[r].report ELSE runs[r].canon]
      uncharged == {r \in ended : runs[r].spent = "none"}
      missing == {r \in ended : canon[r] = None}
      closes == MayClose(t, phase, absent, missing, row)
      due == IF closes THEN uncharged ELSE uncharged \ missing
      charged == Charged(t, due, [r \in Ids |-> IF r \in missing THEN Evidence(closes) ELSE canon[r]])
      total == Spent(charged, TurnRuns(t))
      settled == IF Reserved(t)
        THEN [turns[t] EXCEPT !.st = IF total > 0 THEN "committed" ELSE "released", !.committed = total]
        ELSE turns[t]
  IN IF \/ phase \in {0, 6} \/ turns[t].st = "none"
        \/ ~Reserved(t) /\ due # {}
     THEN [runs |-> runs, turn |-> [turns[t] EXCEPT !.phase = phase]]
     ELSE [runs |-> charged,
           turn |-> IF ~closes THEN [turns[t] EXCEPT !.phase = phase]
                    ELSE [settled EXCEPT !.phase = IF phase = 5 THEN 6 ELSE phase]]

SweepAs(t, phase, absent) ==
  LET swept == Swept(t, phase, absent, co)
  IN runs' = swept.runs /\ turns' = [turns EXCEPT ![t] = swept.turn]
Sweep(t, absent) == SweepAs(t, turns[t].phase, absent)

-----------------------------------------------------------------------------
(* The Coordinator's control line *)

Stopped == co.st = "blocked"
RetryPending == co.st = "waiting_retry" \/ co.act = "retry_worker"

\* blockCoordinator: the row keeps its checkpoint, the Todo is blocked with it.
Block == /\ co' = [co EXCEPT !.st = "blocked", !.cur = 0]
         /\ todo' = [todo EXCEPT !.st = "blocked"]

\* Source runs take the control line when they are created.
NewSource(row) ==
  /\ Room
  /\ runs' = Append(runs, NewRun("source", 0))
  /\ co' = [row EXCEPT !.st = "running", !.cur = Len(runs) + 1]

\* StartCoordinator, called by the recovery loop, by a wake-up and by every
\* comment, first sweeps the latest Turn.
StartSweep ==
  /\ todo.seq # 0
  /\ Sweep(todo.seq, TRUE)
  /\ UNCHANGED <<todo, co, hooks, used>>

FirstStep(r, st) == <<r, IF runs[r].kind = "source" /\ st = "succeeded" THEN "admit" ELSE "advance">>

\* startScheduledWorkerRetry, through the gate; a denial is an error and leaves
\* the row as it is.
StartRetry ==
  LET old == runs[co.retryOf] IN
  IF \/ co.act # "retry_worker" \/ ~Gate(old.turn)
     \/ \E r \in Ids : runs[r].root = old.root /\ runs[r].attempt = old.attempt + 1
  THEN UNCHANGED <<runs, co>>
  ELSE /\ Room
       /\ runs' = Append(runs, [NewRun("worker", old.turn) EXCEPT !.attempt = old.attempt + 1, !.root = old.root])
       /\ co' = [co EXCEPT !.st = "running", !.cur = Len(runs) + 1]

\* Then, on the row as it finds it now, it starts the retry, replays the hooks of
\* the current run, or makes a new turn if ShouldRun allows one.
StartDecide ==
  /\ ~Stopped
  /\ \/ /\ RetryPending /\ co.st # "queued" /\ co.cur = 0
        /\ StartRetry
        /\ UNCHANGED <<todo, hooks, used>>
     \/ /\ co.cur # 0 /\ ~Live(co.cur)
        /\ Extra
        /\ hooks' = hooks \cup {FirstStep(co.cur, runs[co.cur].st)}
        /\ UNCHANGED <<runs, todo, co>>
     \/ /\ co.st = "queued"
        /\ IF ShouldRun THEN NewSource([co EXCEPT !.act = ""]) /\ UNCHANGED todo
           ELSE Block /\ UNCHANGED runs
        /\ UNCHANGED <<hooks, used>>
  /\ UNCHANGED turns

\* createCoordinatorWakeRun: the summary of a settled batch, with neither
\* sweep nor ShouldRun.
Wake(t) ==
  /\ turns[t].batch = "collecting"
  /\ ~Stopped /\ ~RetryPending /\ co.cur = 0
  /\ NewSource(co)
  /\ turns' = [turns EXCEPT ![t].batch = "done"]
  /\ UNCHANGED <<todo, hooks, used>>

\* UnblockWorkItem and resumeCurrentGovernanceLocked.
Unblock ==
  /\ Stopped /\ Extra
  /\ co' = [co EXCEPT !.st = "queued"]
  /\ todo' = [todo EXCEPT !.st = IF @ = "blocked" THEN "pending" ELSE @]
  /\ UNCHANGED <<turns, runs, hooks>>

-----------------------------------------------------------------------------
(* Runs, reports and the user *)

\* A run ends with the report it last made, if any: nobody reads it earlier.
EndRun(r, st, a) ==
  /\ Live(r)
  /\ runs' = [runs EXCEPT ![r].st = st, ![r].report = a]
  /\ hooks' = hooks \cup {FirstStep(r, st)}
  /\ UNCHANGED <<turns, todo, co, used>>

\* The report comes late: bindProviderUsageReport refuses it once the canonical
\* usage is frozen, else the canonical usage is written with it.
Report(r, a) ==
  /\ ~Live(r) /\ runs[r].report = None /\ ~runs[r].late
  /\ runs' = IF runs[r].canon # None THEN [runs EXCEPT ![r].late = TRUE]
             ELSE [runs EXCEPT ![r].report = a, ![r].canon = a]
  /\ UNCHANGED <<turns, todo, co, hooks, used>>

\* ReconcileQuotaGap: an additive adjustment, once per gap.
Reconcile(r, a) ==
  /\ runs[r].spent = "unresolved" /\ used.gaps < MaxGaps
  /\ runs' = [runs EXCEPT ![r].spent = "reconciled", ![r].amt = a]
  /\ used' = [used EXCEPT !.gaps = @ + 1]
  /\ UNCHANGED <<turns, todo, co, hooks>>

Crash ==
  /\ Extra
  /\ hooks' = {}
  /\ UNCHANGED <<turns, runs, todo, co>>

-----------------------------------------------------------------------------
(* The submission of a plan: hooks of a source run *)

Turned(r) == {t \in Seqs : turns[t].src = r}
Step(r, step, next) == <<r, step>> \in hooks /\ hooks' = (hooks \ {<<r, step>>}) \cup {<<r, next>>}

\* An active Goal; a replay finds the Turn of its source run, which was decided
\* or still owns the Todo.
Admissible(r) ==
  /\ ~Stopped
  /\ IF Turned(r) = {} THEN todo.st # "running"
     ELSE \A t \in Turned(r) : turns[t].phase > 0 \/ todo = [st |-> "running", seq |-> t]

\* ensureGovernancePlanAdmission: the Turn and its reservation.
Admit(r) ==
  /\ Step(r, "admit", IF Admissible(r) THEN "plan" ELSE "advance")
  /\ IF ~Admissible(r) \/ Turned(r) # {} THEN UNCHANGED <<turns, todo>>
     ELSE /\ Len(turns) < MaxTurns
          /\ turns' = Append(turns, [src |-> r, phase |-> 0, st |-> "reserved", reserved |-> Remaining,
                                     committed |-> 0, batch |-> "open", pend |-> FALSE, rejected |-> FALSE])
          /\ todo' = [st |-> "running", seq |-> Len(turns) + 1]
  /\ UNCHANGED <<runs, co, used>>

\* The steps of earlier plans lose their right to run.
Superseded == [s \in Seqs |-> [turns[s] EXCEPT !.pend = FALSE]]

\* The plan is fenced: its source owns the control line of an active task.
Owns(r) == co.cur = r /\ ~Stopped

\* phases 1 to 3 and SubmitPlan: n workers through the gate, and perhaps a
\* dispatch that waits for an approval.
SubmitPlan(r, t, n, pend) ==
  /\ Owns(r)
  /\ n > 0 => Gate(t)
  /\ Len(runs) + n <= MaxRuns
  /\ runs' = runs \o [i \in 1 .. n |-> [NewRun("worker", t) EXCEPT !.root = Len(runs) + i]]
  /\ turns' = [Superseded EXCEPT ![t].phase = 3, ![t].pend = pend]
  /\ UNCHANGED todo

\* settleGovernancePlanSubmissionFailure, or an authority that was lost: the Todo
\* is blocked and the reservation settled with the source run alone.
Abort(r, t) ==
  LET canon == [q \in Ids |-> IF q = r /\ runs[r].canon = None
                              THEN (IF runs[r].report = None THEN Gap ELSE runs[r].report)
                              ELSE runs[q].canon]
      charged == IF runs[r].spent = "none" THEN Charged(t, {r}, canon) ELSE runs
      total == IF charged[r].spent = "committed" THEN charged[r].amt ELSE 0
  IN
  /\ ~Gate(t) \/ ~Owns(r)
  /\ todo.seq = t /\ todo.st \in {"running", "blocked"}
  /\ runs' = charged
  /\ turns' = [turns EXCEPT ![t].st = IF total > 0 THEN "committed" ELSE "released", ![t].committed = total,
                          ![t].phase = 1]
  /\ todo' = [todo EXCEPT !.st = "blocked"]

SubmitOrAbort(r) ==
  \E t \in Turned(r) :
    /\ IF turns[t].phase > 0
       THEN /\ Step(r, "plan", IF turns[t].phase = 1 THEN "advance" ELSE "phases")
            /\ UNCHANGED <<turns, runs, todo>>
       ELSE \/ /\ Step(r, "plan", "phases")
               /\ \E n \in 0 .. MaxWorkers, pend \in BOOLEAN : SubmitPlan(r, t, n, pend)
            \/ /\ Step(r, "plan", "advance")
               /\ Abort(r, t)
    /\ UNCHANGED <<co, used>>

\* appendGovernancePlanCommittedPhases, transitionGovernanceTodoTurn: each write
\* and the closing sweep behind it are one step, because a sweep that came in
\* between would do what that one does.
Phases(r) ==
  \E t \in Turned(r) :
    /\ Step(r, "phases", "wait")
    /\ SweepAs(t, IF turns[t].phase = 3 THEN 5 ELSE turns[t].phase, TRUE)
    /\ UNCHANGED <<todo, co, used>>
Wait(r) ==
  \E t \in Turned(r) :
    /\ Step(r, "wait", "advance")
    /\ todo' = IF todo.seq = t /\ todo.st = "running" THEN [todo EXCEPT !.st = "waiting"] ELSE todo
    /\ IF todo.seq = t /\ todo.st \in {"pending", "blocked"}
       THEN UNCHANGED <<runs, turns>>   \* an error: this Todo cannot wait
       ELSE Sweep(t, TRUE)
    /\ UNCHANGED <<co, used>>

\* resolvePlanDispatchApproval.
Approve(t) ==
  /\ turns[t].pend /\ turns[t].phase >= 3
  /\ todo.seq = t /\ todo.st = "waiting"
  /\ Gate(t) /\ Room
  /\ runs' = Append(runs, NewRun("worker", t))
  /\ turns' = [turns EXCEPT ![t].pend = FALSE, ![t].batch = IF @ = "done" THEN "open" ELSE @]
  /\ UNCHANGED <<todo, co, hooks, used>>
Reject(t) ==
  /\ turns[t].pend /\ turns[t].phase >= 3
  /\ turns' = [turns EXCEPT ![t].pend = FALSE, ![t].rejected = TRUE]
  /\ UNCHANGED <<runs, todo, co, hooks, used>>
\* settleRejectedPlanDispatchTurn: sweep and blocker in one transaction.
SettleRejected(t) ==
  /\ turns[t].rejected /\ turns[t].phase >= 3
  /\ LET swept == Swept(t, turns[t].phase, TRUE, co) IN
       /\ runs' = swept.runs
       /\ turns' = [turns EXCEPT ![t] = [swept.turn EXCEPT !.rejected = FALSE]]
  /\ IF todo.seq = t /\ todo.st # "running" /\ ~Stopped THEN Block ELSE UNCHANGED <<co, todo>>
  /\ UNCHANGED <<hooks, used>>

-----------------------------------------------------------------------------
(* Terminal hooks of every run: advance, then settle.  The canonicalization   *)
(* before them writes what the sweep would write.                            *)

\* handleCoordinatorTerminal: a plan hands the line to its workers; a failure
\* is retried by a new turn or blocks.
AdvanceSource(r) ==
  /\ IF Stopped \/ co.cur # r THEN UNCHANGED <<co, todo>>
     ELSE IF runs[r].st = "succeeded" /\ \E t \in Turned(r) : turns[t].phase >= 3
     THEN co' = [co EXCEPT !.st = "running", !.cur = 0] /\ UNCHANGED todo
     ELSE \/ Block
          \/ /\ runs[r].st = "failed" /\ ~RetryPending
             /\ co' = [co EXCEPT !.st = "queued", !.cur = 0] /\ UNCHANGED todo
  /\ UNCHANGED <<turns, runs>>

\* The control turn that records a replan: the worker's Turn is swept first.
Replan(r) ==
  LET t == runs[r].turn
      row == [co EXCEPT !.st = "queued", !.cur = 0, !.act = "", !.retryOf = 0, !.rounds = 1]
      swept == Swept(t, turns[t].phase, TRUE, row)
  IN IF todo.st \in {"running", "blocked"} THEN UNCHANGED <<turns, runs, todo, co>>
     ELSE /\ Len(turns) < MaxTurns
          /\ co' = row
          /\ runs' = swept.runs
          /\ turns' = Append([turns EXCEPT ![t] = swept.turn],
               [src |-> 0, phase |-> 6, st |-> "none", reserved |-> 0, committed |-> 0,
                batch |-> "done", pend |-> FALSE, rejected |-> FALSE])
          /\ todo' = [st |-> "pending", seq |-> Len(turns) + 1]

Chain(r) == {q \in Ids : q <= r /\ runs[q].root = runs[r].root}

\* handleCoordinatorWorkerTerminal.
AdvanceWorker(r) ==
  IF Stopped \/ co.cur \notin {0, r} THEN UNCHANGED <<turns, runs, todo, co>>
  ELSE CASE runs[r].st = "succeeded" ->
              /\ co' = IF co.retryOf = 0 \/ co.retryOf \in Chain(r)
                       THEN [co EXCEPT !.cur = 0, !.act = "", !.retryOf = 0, !.rounds = 0]
                       ELSE [co EXCEPT !.cur = 0]
              /\ UNCHANGED <<turns, runs, todo>>
         [] runs[r].st = "failed" /\ runs[r].attempt < MaxAttempts ->
              /\ co' = [co EXCEPT !.st = "waiting_retry", !.cur = 0, !.act = "retry_worker", !.retryOf = r]
              /\ UNCHANGED <<turns, runs, todo>>
         [] runs[r].st = "failed" /\ runs[r].attempt >= MaxAttempts /\ co.rounds = 0 -> Replan(r)
         [] OTHER -> Block /\ UNCHANGED <<turns, runs>>

Advance(r) ==
  /\ Step(r, "advance", "settle")
  /\ IF runs[r].kind = "source" THEN AdvanceSource(r) ELSE AdvanceWorker(r)
  /\ UNCHANGED used

\* maybeSettleGovernanceTurnQuota on the run's own governance key, which a
\* source run does not carry, and never to close; then maybeSettleDispatch: the
\* batch of the Turn asks for its summary.  One step: neither reads what the
\* other writes, and the sweep writes what any later one would.
Settle(r) ==
  /\ <<r, "settle">> \in hooks
  /\ hooks' = hooks \ {<<r, "settle">>}
  /\ LET t == runs[r].turn
         swept == Swept(t, turns[t].phase, FALSE, co)
         rows == IF t = 0 THEN turns ELSE [turns EXCEPT ![t] = swept.turn]
     IN /\ runs' = IF t = 0 THEN runs ELSE swept.runs
        /\ turns' = [s \in Seqs |->
             IF /\ r \in TurnRuns(s) /\ turns[s].batch = "open"
                /\ \A q \in TurnRuns(s) : ~Live(q)
                /\ TurnRuns(s) # {turns[s].src} /\ ~Stopped /\ ~RetryPending
             THEN [rows[s] EXCEPT !.batch = "collecting"] ELSE rows[s]]
  /\ UNCHANGED <<todo, co, used>>

-----------------------------------------------------------------------------
QNext ==
  \/ StartSweep \/ StartDecide \/ Unblock \/ Crash
  \/ \E t \in Seqs : Wake(t) \/ Approve(t) \/ Reject(t) \/ SettleRejected(t)
  \/ \E r \in Ids :
       \/ \E st \in Outcomes, a \in Amounts \cup {None} : EndRun(r, st, a)
       \/ \E a \in Amounts : Report(r, a)
       \/ \E a \in Amounts : Reconcile(r, a)
       \/ Admit(r) \/ SubmitOrAbort(r) \/ Phases(r) \/ Wait(r)
       \/ Advance(r) \/ Settle(r)

QSpec == QInit /\ [][QNext]_qvars

-----------------------------------------------------------------------------
(* Properties *)

\* Every row has the shape of its table, and a Turn commits no more than it
\* reserved.
QTypeOK ==
  /\ \A t \in Seqs :
       /\ turns[t].phase \in {0, 1, 3, 5, 6}
       /\ turns[t].st \in {"none", "reserved", "committed", "released"}
       /\ turns[t].reserved \in 0 .. Limit /\ turns[t].committed \in 0 .. turns[t].reserved
  /\ \A r \in Ids :
       /\ runs[r].spent \in {"none", "committed", "unresolved", "reconciled"}
       /\ {runs[r].report, runs[r].canon} \subseteq Amounts \cup {None, Gap}
  /\ todo.st \in {"pending", "running", "waiting", "blocked"} /\ todo.seq \in 0 .. Len(turns)
  /\ co.st \in {"queued", "running", "waiting_retry", "blocked"} /\ co.cur \in 0 .. Len(runs)
  /\ hooks \subseteq Ids \X {"admit", "plan", "phases", "wait", "advance", "settle"}

\* What open Turns have frozen and closed Turns have committed stays within the
\* limit, although several Turns are open at once and each takes all that is
\* left (quota.go, "concurrent Turns cannot oversubscribe" in
\* sqlstore/quota.go).  Adjustments of the user come on top.
NoOversubscription ==
  SumFunction([t \in Seqs |-> IF Reserved(t) THEN turns[t].reserved ELSE turns[t].committed]) <= Limit

\* A report that was refused although the run had none came after its Turn was
\* closed: evidence of absence is never frozen while the Turn is open
\* (bindProviderUsageReport against the sweep).
NoReportLost ==
  \A r \in Ids : runs[r].late /\ runs[r].report = None =>
    \E t \in Seqs : r \in TurnRuns(t) /\ ~Reserved(t)

\* A Turn whose reservation is settled has every run of it over and charged, and
\* the amount committed is what the ledger holds for it.
ClosesCharged ==
  [][\A t \in Seqs : Reserved(t) /\ turns'[t].st # "reserved" =>
       /\ \A r \in TurnRuns(t) : runs'[r].st # "live" /\ runs'[r].spent # "none"
       /\ turns'[t].committed = (Spend(t))']_qvars

\* Stated by runs.go:1706: the checkpoint of a retry is written before the sweep
\* looks for it, so that the budget of the retry is not released early.
RetryBudgetKept ==
  \A r \in Ids : Live(r) /\ runs[r].attempt > 1 => Reserved(runs[r].turn)
=============================================================================
