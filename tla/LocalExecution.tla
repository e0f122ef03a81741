--------------------------- MODULE LocalExecution ---------------------------
(***************************************************************************)
(* Runs executed in the control plane's own process: who dispatches a run, *)
(* the ModuleRunner goroutine that executes it, the commands forwarded to  *)
(* it, and the boot that revives or ends what a dead process left behind.  *)
(* Composes RunLifecycle, whose transactions these processes call: every   *)
(* status write below is a RunLifecycle transition, and the whole is       *)
(* checked to implement RunLifecycle's Spec.                               *)
(*   application/runs.go, sessions.go, run_reconcile.go, reconcile.go,     *)
(*   runtime/module.go, runtime/adapters/mock/mock.go                      *)
(***************************************************************************)
EXTENDS RunLifecycle, Sequences

CONSTANTS
  NewRuns,      \* the runs that CreateRun may start; any run may be a retry
  Fallible,     \* the runs whose status writes may be refused by more than the
                \* transition table: those of a delegated Coordinator, by the fence
                \* on its Todo claim, and any run's by a database that fails
  MaxCrashes    \* bound on restarts of the control plane

ASSUME LocalAssumption ==
  NewRuns \subseteq Runs /\ Fallible \subseteq Runs /\ MaxCrashes \in Nat

VARIABLES
  disp,        \* the goroutine that created the run, on its way to Dispatch
  dispatched,  \* Service.dispatchedRuns, in memory
  exec,        \* ModuleRunner.execute: where the run's goroutine is
  reported,    \* runs whose markRunning has fired (sync.Once)
  stop,        \* the terminal intent given by Control, which cancels the context
  outcome,     \* what Execute returned
  target,      \* the terminal status recordTerminal aims at
  forwards,    \* committed ControlRun calls that have not forwarded yet
  decisions,   \* committed decisions on approvals that are not forwarded yet
  inbox,       \* decisions in the Controls channel of the executing adapter
  todo,        \* boot: the runs the current reconciliation has listed
  walk,        \* boot: the run being walked to lost, and what is left of its path
  crashes,     \* how many crashes so far
  healed,      \* runs inserted as the automatic retry of a lost session (auto_heal_of)
  stranded     \* history: runs whose last report in this process was refused while they lived

local == <<disp, dispatched, exec, reported, stop, outcome, target, forwards,
           decisions, inbox, todo, walk, crashes, healed, stranded>>
lvars == <<vars, local>>

NoWalk == [run |-> NoRun, path |-> <<>>]

\* The goroutine is in Execute, or in any of its steps before it returns.
Executing(r) == exec[r] \in {"run", "wait"}
\* ModuleRunner.active holds the run.
Registered(r) == exec[r] \notin {"none", "done"}

LocalInit ==
  /\ Init
  /\ disp = [r \in Runs |-> "none"]
  /\ dispatched = {}
  /\ exec = [r \in Runs |-> "none"]
  /\ reported = {}
  /\ stop = [r \in Runs |-> "none"]
  /\ outcome = [r \in Runs |-> "none"]
  /\ target = [r \in Runs |-> "none"]
  /\ forwards = {}
  /\ decisions = {}
  /\ inbox = {}
  /\ todo = {}
  /\ walk = NoWalk
  /\ crashes = 0
  /\ healed = {}
  /\ stranded = {}

\* What a step leaves alone.
SameBoot == UNCHANGED <<todo, walk, crashes, healed, stranded>>
SameCommands == UNCHANGED <<forwards, decisions, inbox>>
SameExec == UNCHANGED <<exec, reported, stop, outcome, target>>
SameRows == UNCHANGED <<leased, approval, resuming, boot>>

\* Mutant: the status is written without the transition table.
TryForced(r, to) ==
  /\ status' = [status EXCEPT ![r] = to]
  /\ UNCHANGED <<lock, granted, question>>

\* RecordRunStatus may answer with an error: the table does not allow the move,
\* the Todo claim of a delegated Coordinator run is lost while its Goal is active
\* (renewDelegatedCoordinatorClaimForRun), or the database fails.  Whether the
\* claim is lost by now is left open at every write.
Refusable(r, to) == ~Legal(r, to) \/ r \in Fallible

Refused(r, to) == Refusable(r, to) /\ UNCHANGED <<status, lock, granted, question>>

\* RecordRunStatus by a caller that ignores the error.
Try(r, to) == Transition(r, to) \/ Refused(r, to)

\* RecordRunStatus by a caller that has nothing left to try when it is refused.
LastReport(r, to) ==
  \/ Transition(r, to) /\ UNCHANGED stranded
  \/ Refused(r, to) /\ stranded' = IF Live(r) THEN stranded \cup {r} ELSE stranded

-----------------------------------------------------------------------------
(* Creation and dispatch                                                    *)

\* CreateRun commits the row, then its caller goes on to dispatchCommittedRun.
Create(r) ==
  /\ Serving
  /\ r \in NewRuns
  /\ CreateRun(r) /\ status'[r] = "queued"
  /\ disp' = [disp EXCEPT ![r] = "committed"]
  /\ UNCHANGED dispatched /\ SameExec /\ SameCommands /\ SameBoot

\* RetryRun hands the new run to the dispatcher without reading it again.
Retry(r) ==
  /\ Serving
  /\ \E parent \in Runs : status[parent] \in Terminal /\ ItemOf[parent] = ItemOf[r]
  /\ CreateRun(r) /\ status'[r] = "queued"
  /\ disp' = [disp EXCEPT ![r] = "checked"]
  /\ UNCHANGED dispatched /\ SameExec /\ SameCommands /\ SameBoot

\* maybeSelfHeal: when this process has recorded the failure of a run that was
\* resuming a session, the fresh retry is inserted and claimed at once.
Heal(r) ==
  /\ \E source \in Runs \ healed :
       /\ exec[source] = "done" /\ outcome[source] = "failed"
       /\ status[source] = "failed" /\ ItemOf[source] = ItemOf[r]
  /\ CreateRun(r) /\ status'[r] = "starting"
  /\ disp' = [disp EXCEPT ![r] = "committed"]
  /\ healed' = healed \cup {r}
  /\ UNCHANGED <<dispatched, todo, walk, crashes, stranded>> /\ SameExec /\ SameCommands

\* A status from which dispatchCommittedRun goes on.
Dispatchable(r) == status[r] = "queued" \/ (r \in healed /\ status[r] = "starting")

\* dispatchCommittedRun: the fresh read and the entry in dispatchedRuns.
CheckFresh(r) ==
  /\ disp[r] = "committed"
  /\ IF Dispatchable(r) /\ r \notin dispatched
     THEN /\ disp' = [disp EXCEPT ![r] = "checked"]
          /\ dispatched' = dispatched \cup {r}
     ELSE /\ disp' = [disp EXCEPT ![r] = "none"]
          /\ UNCHANGED dispatched
  /\ UNCHANGED vars /\ SameExec /\ SameCommands /\ SameBoot

\* ModuleRunner.Dispatch registers the run and starts its goroutine.
StartModule(r) ==
  /\ disp[r] = "checked"
  /\ disp' = [disp EXCEPT ![r] = "none"]
  /\ exec' = [exec EXCEPT ![r] = IF Registered(r) THEN @ ELSE "begin"]
  /\ UNCHANGED <<vars, dispatched, reported, stop, outcome, target>>
  /\ SameCommands /\ SameBoot

\* Dispatch refuses: sources, adapter or execution context are not available.
RefuseModule(r) ==
  /\ disp[r] = "checked"
  /\ disp' = [disp EXCEPT ![r] = "refused"]
  /\ dispatched' = dispatched \ {r}
  /\ UNCHANGED vars /\ SameExec /\ SameCommands /\ SameBoot

\* The refusal becomes failed(dispatch_failed).
FailDispatch(r) ==
  /\ disp[r] = "refused"
  /\ LastReport(r, "failed")
  /\ disp' = [disp EXCEPT ![r] = "none"]
  /\ SameRows
  /\ UNCHANGED <<dispatched, todo, walk, crashes, healed>> /\ SameExec /\ SameCommands

-----------------------------------------------------------------------------
(* The executing goroutine                                                  *)

\* Every step of the goroutine leaves the dispatchers and the boot alone.
Own == UNCHANGED <<disp, dispatched, forwards, decisions>> /\ SameBoot

\* The goroutine records starting and calls Execute whatever the answer.  For
\* a claimed retry starting is already the status and the write is a no-op.
Begin(r) ==
  /\ exec[r] = "begin"
  /\ Try(r, "starting")
  /\ exec' = [exec EXCEPT ![r] = "run"]
  /\ UNCHANGED <<reported, stop, outcome, target, inbox>>
  /\ SameRows /\ Own

\* The first callback of the adapter: markRunning, whose error is dropped.
MarkRunning(r) ==
  /\ exec[r] = "run"
  /\ r \notin reported
  /\ Try(r, "running")
  /\ reported' = reported \cup {r}
  /\ UNCHANGED <<exec, stop, outcome, target, inbox>>
  /\ SameRows /\ Own

\* Execute returns: recordTerminal comes next.
Return(r, o) ==
  /\ exec' = [exec EXCEPT ![r] = "returned"]
  /\ outcome' = [outcome EXCEPT ![r] = o]

\* The adapter asks for an approval and waits for its decision.
Ask(r, a) ==
  /\ exec[r] = "run"
  /\ r \in reported
  /\ RequestApproval(r, a)
  /\ exec' = [exec EXCEPT ![r] = "wait"]
  /\ UNCHANGED <<reported, stop, outcome, target, inbox>>
  /\ Own

\* The request was refused: the adapter gives up (approval_unavailable).
AskRefused(r) ==
  /\ exec[r] = "run"
  /\ r \in reported
  /\ Refusable(r, "waiting_approval")
  /\ Return(r, "failed")
  /\ UNCHANGED <<vars, reported, stop, target, inbox>>
  /\ Own

\* A decision arrives.  Rejected, the adapter returns cancelled.
TakeDecision(r) ==
  /\ exec[r] = "wait"
  /\ \E d \in inbox :
       /\ approval[d.approval].run = r
       /\ inbox' = inbox \ {d}
       /\ IF d.approved
          THEN exec' = [exec EXCEPT ![r] = "run"] /\ UNCHANGED outcome
          ELSE Return(r, "cancelled")
  /\ UNCHANGED <<vars, reported, stop, target>>
  /\ Own

\* The context is cancelled: the intent picks the outcome.
Abort(r) ==
  /\ Executing(r)
  /\ stop[r] # "none"
  /\ Return(r, IF stop[r] = "cancel" THEN "cancelled" ELSE "interrupted")
  /\ UNCHANGED <<vars, reported, stop, target, inbox>>
  /\ Own

\* The adapter finishes on its own, timed out or not.
Finish(r) ==
  /\ exec[r] = "run"
  /\ \E o \in {"succeeded", "failed"} : Return(r, o)
  /\ UNCHANGED <<vars, reported, stop, target, inbox>>
  /\ Own

-----------------------------------------------------------------------------
(* recordTerminal                                                           *)

\* The terminal status for the outcome, given the status that was read: a stop
\* of the other kind already under way decides.
Aim(r) ==
  CASE outcome[r] = "cancelled" ->
         IF status[r] = "interrupting" THEN "interrupted" ELSE "cancelled"
    [] outcome[r] = "interrupted" ->
         IF status[r] = "cancelling" THEN "cancelled" ELSE "interrupted"
    [] OTHER -> outcome[r]

\* The intermediate status an outcome passes through.
Via(o) == CASE o = "succeeded" -> "succeeding"
            [] o = "cancelled" -> "cancelling"
            [] o = "interrupted" -> "interrupting"
            [] OTHER -> "none"

\* engine.Run: the status is read in a transaction of its own.  succeeding is
\* written unread, the other intermediate statuses where they look legal.
ReadStatus(r) ==
  /\ exec[r] = "returned"
  /\ target' = [target EXCEPT ![r] = Aim(r)]
  /\ exec' = [exec EXCEPT ![r] =
        IF \/ outcome[r] = "succeeded"
           \/ Aim(r) = outcome[r] /\ CanTransition(status[r], Via(outcome[r]))
        THEN "via" ELSE "end"]
  /\ UNCHANGED <<vars, reported, stop, outcome, inbox>>
  /\ Own

\* The intermediate status, best effort.
PassVia(r) ==
  /\ exec[r] = "via"
  /\ Try(r, Via(outcome[r]))
  /\ exec' = [exec EXCEPT ![r] = "end"]
  /\ UNCHANGED <<reported, stop, outcome, target, inbox>>
  /\ SameRows /\ Own

\* The terminal status; refused, the goroutine falls back to failed.
End(r) ==
  /\ exec[r] = "end"
  /\ \/ Transition(r, target[r]) /\ exec' = [exec EXCEPT ![r] = "done"]
     \/ Refused(r, target[r]) /\ exec' = [exec EXCEPT ![r] = "fallback"]
  /\ UNCHANGED <<reported, stop, outcome, target, inbox>>
  /\ SameRows /\ Own

\* Mutant: a refused terminal status is only logged.
FallbackLogged(r) ==
  /\ exec[r] = "fallback"
  /\ exec' = [exec EXCEPT ![r] = "done"]
  /\ UNCHANGED <<vars, reported, stop, outcome, target, inbox>>
  /\ Own

\* The goroutine returns whatever becomes of its last write: nobody tries again.
Fallback(r) ==
  /\ exec[r] = "fallback"
  /\ LastReport(r, "failed")
  /\ exec' = [exec EXCEPT ![r] = "done"]
  /\ UNCHANGED <<reported, stop, outcome, target, inbox, disp, dispatched, forwards, decisions>>
  /\ SameRows /\ UNCHANGED <<todo, walk, crashes, healed>>

-----------------------------------------------------------------------------
(* Commands from the HTTP handlers                                          *)

\* ControlRun commits; its caller goes on to forward the command.
Control(r, action) ==
  /\ ControlRun(r, action)
  /\ forwards' = forwards \cup {[run |-> r, action |-> action,
                                 target |-> ControlTarget(r, action)]}
  /\ UNCHANGED <<disp, dispatched, decisions, inbox>> /\ SameExec /\ SameBoot


\* The status is read again; only when it is still the one that was written is
\* the command forwarded: ModuleRunner.Control cancels a registered run's context.
Forward(f) ==
  /\ f \in forwards
  /\ forwards' = forwards \ {f}
  /\ stop' = IF status[f.run] = f.target /\ Registered(f.run)
             THEN [stop EXCEPT ![f.run] = f.action] ELSE stop
  /\ UNCHANGED <<vars, disp, dispatched, exec, reported, outcome, target, decisions, inbox>>
  /\ SameBoot

\* ResolveApproval commits; its caller goes on to forward the decision.
Decide(a, approved) ==
  /\ IF approved THEN Approve(a) ELSE Reject(a)
  /\ decisions' = decisions \cup {[approval |-> a, approved |-> approved]}
  /\ UNCHANGED <<disp, dispatched, forwards, inbox>> /\ SameExec /\ SameBoot

\* Mutant: the run is read again, and the decision dropped once it has moved.
ForwardWhileWaiting(d) ==
  LET r == approval[d.approval].run
  IN /\ d \in decisions
     /\ decisions' = decisions \ {d}
     /\ inbox' = IF Registered(r) /\ status[r] = "waiting_approval" THEN inbox \cup {d} ELSE inbox
     /\ UNCHANGED <<vars, disp, dispatched, forwards>> /\ SameExec /\ SameBoot

\* ModuleRunner.ResolveApproval: into the channel of a registered run.
ForwardDecision(d) ==
  /\ d \in decisions
  /\ decisions' = decisions \ {d}
  /\ inbox' = IF Registered(approval[d.approval].run) THEN inbox \cup {d} ELSE inbox
  /\ UNCHANGED <<vars, disp, dispatched, forwards>> /\ SameExec /\ SameBoot

-----------------------------------------------------------------------------
(* Crash and boot                                                           *)

\* Every goroutine and every map of the process is gone.
LocalCrash ==
  /\ crashes < MaxCrashes
  /\ Crash
  /\ crashes' = crashes + 1
  /\ disp' = [r \in Runs |-> "none"] /\ dispatched' = {}
  /\ exec' = [r \in Runs |-> "none"] /\ reported' = {}
  /\ stop' = [r \in Runs |-> "none"]
  /\ outcome' = [r \in Runs |-> "none"] /\ target' = [r \in Runs |-> "none"]
  /\ forwards' = {} /\ decisions' = {} /\ inbox' = {}
  /\ todo' = {} /\ walk' = NoWalk /\ stranded' = {} /\ UNCHANGED healed

\* The boot's steps leave the executing goroutines alone.
Boot == SameExec /\ SameCommands /\ UNCHANGED <<dispatched, crashes, healed>>

\* RecoverPendingSelfHealRuns: a retry whose process died before it was seen
\* running is claimed again and handed to dispatchCommittedRun.  One whose claim
\* the database refuses is passed over.
RecoverHeal(r) ==
  /\ boot = "heal"
  /\ r \in healed \cap Leaseless
  /\ status[r] \in {"queued", "starting"}
  /\ disp[r] = "none" /\ r \notin dispatched
  /\ IF status[r] = "queued" THEN Transition(r, "starting")
                              ELSE UNCHANGED <<status, lock, granted, question>>
  /\ disp' = [disp EXCEPT ![r] = "committed"]
  /\ SameRows /\ UNCHANGED <<todo, walk, stranded>> /\ Boot

\* The loop dispatches synchronously; a retry whose Goal stopped is passed
\* over.  The sweep then lists the runs that have left queued.
HealDone ==
  /\ HealEnd
  /\ \A r \in Runs : disp[r] = "none"
  /\ todo' = {r \in Leaseless : status[r] # "queued"}
  /\ UNCHANGED <<disp, walk, stranded>> /\ Boot

\* sweepOrphanedLocalRun: the run is read once and lostPath computed from it.
SweepPick(r) ==
  /\ boot = "sweep" /\ walk = NoWalk
  /\ r \in todo
  /\ todo' = todo \ {r}
  /\ walk' = IF Live(r) THEN [run |-> r, path |-> LostPath[status[r]]] ELSE NoWalk
  /\ UNCHANGED <<vars, disp, stranded>> /\ Boot

\* walkOrphanToTerminal: one transaction a step; a refused step ends the walk.
SweepWalk ==
  /\ walk # NoWalk
  /\ LET r == walk.run
         next == Head(walk.path)
     IN \/ /\ Transition(r, next)
           /\ walk' = IF Len(walk.path) > 1 THEN [walk EXCEPT !.path = Tail(@)] ELSE NoWalk
        \/ Refused(r, next) /\ walk' = NoWalk
  /\ UNCHANGED <<disp, todo, stranded>>
  /\ SameRows /\ Boot

\* ReconcileOrphanRuns lists what is left, without the retries it dispatched.
SweepDone ==
  /\ SweepEnd
  /\ todo = {} /\ walk = NoWalk
  /\ todo' = Leaseless \ {r \in healed \cap dispatched : status[r] \in {"queued", "starting"}}
  /\ UNCHANGED <<disp, walk, stranded>> /\ Boot

\* Mutant: queued runs are left for a dispatcher that died with the process.
OrphanUnlessQueued(r) ==
  /\ boot = "orphans"
  /\ r \in todo
  /\ todo' = todo \ {r}
  /\ IF Live(r) /\ status[r] # "queued" THEN ReconcileOrphan(r) ELSE UNCHANGED vars
  /\ UNCHANGED <<disp, walk, stranded>> /\ Boot

\* markOrphanTerminal reads the run again: one that has ended is skipped.  It
\* writes the row itself, so that no claim fences it: only the database may.
Orphan(r) ==
  /\ boot = "orphans"
  /\ r \in todo
  /\ todo' = todo \ {r}
  /\ \/ Live(r) /\ ReconcileOrphan(r) /\ UNCHANGED stranded
     \/ Live(r) /\ r \in Fallible /\ UNCHANGED vars /\ stranded' = stranded \cup {r}
     \/ ~Live(r) /\ UNCHANGED <<vars, stranded>>
  /\ UNCHANGED <<disp, walk>> /\ Boot

OrphansDone ==
  /\ ReconcileOrphansEnd
  /\ todo = {}
  /\ UNCHANGED <<disp, todo, walk, stranded>> /\ Boot

BootDone == ReconcileQuestions /\ UNCHANGED <<disp, todo, walk, stranded>> /\ Boot

-----------------------------------------------------------------------------
Dispatching(r) == CheckFresh(r) \/ StartModule(r) \/ RefuseModule(r) \/ FailDispatch(r)

\* What the goroutine does without waiting for the work of the adapter.
Settling(r) ==
  \/ Begin(r) \/ TakeDecision(r) \/ Abort(r)
  \/ ReadStatus(r) \/ PassVia(r) \/ End(r) \/ Fallback(r)

Working(r) ==
  \/ MarkRunning(r)
  \/ \E a \in Approvals : Ask(r, a)
  \/ AskRefused(r)
  \/ Finish(r)

Forwarding == (\E f \in forwards : Forward(f)) \/ (\E d \in decisions : ForwardDecision(d))

Booting ==
  \/ \E r \in Runs : RecoverHeal(r) \/ SweepPick(r) \/ Orphan(r)
  \/ HealDone \/ SweepWalk \/ SweepDone \/ OrphansDone \/ BootDone

LNext ==
  \/ \E r \in Runs :
       \/ Create(r) \/ Retry(r) \/ Heal(r)
       \/ Dispatching(r) \/ Settling(r) \/ Working(r)
       \/ \E action \in {"cancel", "interrupt"} : Control(r, action)
  \/ \E a \in Approvals, approved \in BOOLEAN : Decide(a, approved)
  \/ Forwarding
  \/ Booting
  \/ LocalCrash

LSpec == LocalInit /\ [][LNext]_lvars

\* Goroutines that only compute or write to the database run on.  The adapter's
\* own work (Working) and the users are not promised to do anything.
Fairness ==
  /\ \A r \in Runs : WF_lvars(Dispatching(r)) /\ WF_lvars(Settling(r))
  /\ WF_lvars(Forwarding)
  /\ WF_lvars(Booting)

LFairSpec == LSpec /\ Fairness

-----------------------------------------------------------------------------
(* Properties                                                               *)

LTypeOK ==
  /\ disp \in [Runs -> {"none", "committed", "checked", "refused"}]
  /\ dispatched \subseteq Runs
  /\ exec \in [Runs -> {"none", "begin", "run", "wait", "returned", "via", "end",
                        "fallback", "done"}]
  /\ reported \subseteq Runs
  /\ stop \in [Runs -> {"none", "cancel", "interrupt"}]
  /\ outcome \in [Runs -> {"none", "succeeded", "failed", "cancelled", "interrupted"}]
  /\ target \in [Runs -> {"none"} \cup Terminal]
  /\ forwards \subseteq [run : Runs, action : {"cancel", "interrupt"}, target : Statuses]
  /\ decisions \cup inbox \subseteq [approval : Approvals, approved : BOOLEAN]
  /\ todo \subseteq Runs
  /\ walk = NoWalk \/ (walk.run \in Runs /\ walk.path # <<>> /\ boot = "sweep")
  /\ crashes \in 0 .. MaxCrashes /\ healed \subseteq Runs
  /\ stranded \subseteq Fallible

\* While the control plane serves, every live run has somebody in this process
\* that will move it: no order of crash, boot, illegal move and stale dispatch
\* leaves a row that every later wakeup would be merged into for ever
\* (reconcile.go:1-4).  The one way to such a row is a last report which the
\* fence or the database refused (dispatchCommittedRun, recordTerminal,
\* markOrphanTerminal), and a run whose writes they do not refuse never gets there.
NoOrphan ==
  /\ Serving => \A r \in Runs \ stranded : Live(r) => Registered(r) \/ disp[r] # "none"
  /\ stranded \subseteq Fallible

\* A run that is shown waiting for an approval has one somebody can still
\* decide, across refusals, stops and restarts (requestApprovalTx, ResolveApproval).
WaitingAnswerable ==
  Serving => \A r \in Runs : status[r] = "waiting_approval" =>
    \E a \in Approvals : approval[a] = [run |-> r, status |-> "pending"]

\* When the goroutine of a run is gone the run has ended, whatever commands and
\* decisions raced with recordTerminal (module.go:191-192), unless its last
\* write, failed, was itself refused to a run that lived.
SettledTerminal ==
  \A r \in Runs : exec[r] = "done" => status[r] \in Terminal \/ r \in stranded

\* Every step of the processes is a transaction of the lifecycle or none.
ImplementsLifecycle == Spec



\* A decision gets through: an adapter that waits while its run is shown as
\* running again does not wait for ever.
DecisionArrives ==
  \A r \in Runs : (exec[r] = "wait" /\ status[r] = "running") ~> exec[r] # "wait"

\* runs.go:149 says that a run which was cancelled or recovered after its commit
\* is never dispatched.
NoStaleDispatch ==
  [][\A r \in Runs : exec[r] = "none" /\ exec'[r] = "begin" => Live(r)]_lvars

\* run_reconcile.go:2-4 says that the runs the boot sweeps died with the process
\* and belong to nobody.
SweptAreDead ==
  [][\A r \in Runs : walk.run = r /\ status'[r] = "lost" /\ status[r] # "lost"
       => ~Registered(r)]_lvars

\* runs.go:1504-1505 says that the lock keeps a task from being executed twice:
\* two runs of a task are not both executing past the step that arbitrates.
NoDoubleExecution ==
  \A r, s \in reported : Executing(r) /\ Executing(s) /\ IsTask(r) /\ ItemOf[r] = ItemOf[s]
    => r = s
=============================================================================
