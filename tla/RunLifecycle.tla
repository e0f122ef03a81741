---------------------------- MODULE RunLifecycle ----------------------------
(***************************************************************************)
(* The control plane's own view of execution runs: one action for each     *)
(* SQLite transaction of application/runs.go, tasklock.go, reconcile.go,   *)
(* run_reconcile.go and question_reconcile.go that changes a run, its task *)
(* lock, its approvals or its native question.  What executes a run        *)
(* (in-process module or remote runner) is left free: Report may ask for   *)
(* any status at any time, as a runner frame can.                          *)
(***************************************************************************)
EXTENDS RunStatus, FiniteSets

CONSTANTS
  Runs,        \* run ids that may ever be created
  Items,       \* work items
  TaskItems,   \* the work items of record kind task; the others are chats
  ItemOf,      \* the work item of each run
  Approvals,   \* approval ids: the bound on approval requests
  NoRun        \* the empty locked_by_run_id

ASSUME LifecycleAssumption ==
  /\ TaskItems \subseteq Items
  /\ ItemOf \in [Runs -> Items]
  /\ NoRun \notin Runs

VARIABLES
  status,      \* execution_runs.status, Absent before the insert
  leased,      \* runs with a run_leases row: dispatched to a remote runner
  lock,        \* work_items.locked_by_run_id
  granted,     \* history: the runs that ever acquired the task lock
  approval,    \* approvals rows: the run they are for and their status
  question,    \* status of a run's native question, "none" before the insert
  resuming,    \* runs whose ResumeRun has read reconnecting and not written yet
  boot         \* "serving", or the startup reconciliation that runs next

vars == <<status, leased, lock, granted, approval, question, resuming, boot>>

ApprovalStatuses == {"pending", "approved", "rejected"}
QuestionStatuses == {"none", "pending", "answered", "dismissed", "expired"}
BootPhases == {"serving", "heal", "sweep", "orphans", "questions"}

NoApproval == [run |-> NoRun, status |-> "pending"]

Init ==
  /\ status = [r \in Runs |-> Absent]
  /\ leased = {}
  /\ lock = [i \in Items |-> NoRun]
  /\ granted = {}
  /\ approval = [a \in Approvals |-> NoApproval]
  /\ question = [r \in Runs |-> "none"]
  /\ resuming = {}
  /\ boot = "serving"

-----------------------------------------------------------------------------
(* The status transaction: transitionRunLocked, acquireTaskLock and         *)
(* releaseTaskLock                                                          *)

IsTask(r) == ItemOf[r] \in TaskItems
Live(r) == status[r] \in Active

\* The step that arbitrates the task lock: the first move into running.
Arbitrates(r, to) ==
  IsTask(r) /\ to = "running" /\ status[r] \in {"queued", "starting"}

\* Mutant: only an owner that is running counts as live.
LockedOutByRunning(r) ==
  LET owner == lock[ItemOf[r]]
  IN owner \notin {NoRun, r} /\ status[owner] = "running"

\* acquireTaskLock answers ErrWorkItemLocked: another live run holds the lock.
LockedOut(r) ==
  LET owner == lock[ItemOf[r]] IN owner \notin {NoRun, r} /\ Live(owner)

\* A run that is locked out is failed in the same transaction.
Landing(r, to) == IF Arbitrates(r, to) /\ LockedOut(r) THEN "failed" ELSE to

\* The transaction goes through: otherwise it is rolled back with an error.
Legal(r, to) == CanTransition(status[r], Landing(r, to))

\* Mutant: the end of any run of the task clears the lock.
ReleasedByAny(r) == [lock EXCEPT ![ItemOf[r]] = NoRun]

\* releaseTaskLock: the row is cleared only when this run owns it.
Released(r) ==
  IF IsTask(r) /\ lock[ItemOf[r]] = r THEN [lock EXCEPT ![ItemOf[r]] = NoRun]
                                      ELSE lock

\* Mutants: the end of a run leaves its question; closes it with a run status.
Unexpired(r) == question
ExpiredAsLost(r) ==
  IF question[r] = "pending" THEN [question EXCEPT ![r] = "lost"] ELSE question

\* expireRunPendingQuestions
Expired(r) ==
  IF question[r] = "pending" THEN [question EXCEPT ![r] = "expired"]
                             ELSE question

\* The whole transaction, when it commits.
Transition(r, to) ==
  LET landing == Landing(r, to)
  IN /\ Legal(r, to)
     /\ status' = [status EXCEPT ![r] = landing]
     /\ lock' = IF landing \in Terminal THEN Released(r)
                ELSE IF Arbitrates(r, to) THEN [lock EXCEPT ![ItemOf[r]] = r]
                ELSE lock
     /\ granted' = IF Arbitrates(r, to) /\ landing = "running"
                   THEN granted \cup {r} ELSE granted
     /\ question' = IF landing \in Terminal THEN Expired(r) ELSE question

-----------------------------------------------------------------------------
(* Operations while the control plane serves                                *)

Serving == boot = "serving"

\* createRunLocked: the insert of a queued run, which for the automatic retry
\* of a lost session is claimed for dispatch in the same transaction.
CreateRun(r) ==
  /\ status[r] = Absent
  /\ \E s \in {"queued", "starting"} : status' = [status EXCEPT ![r] = s]
  /\ UNCHANGED <<leased, lock, granted, approval, question, resuming, boot>>

\* CreateLease, from the gateway's Dispatch of a run it has just read.  The
\* read is older than the lease, so only the run's existence is certain.
GrantLease(r) ==
  /\ Serving
  /\ status[r] # Absent
  /\ r \notin leased
  /\ leased' = leased \cup {r}
  /\ UNCHANGED <<status, lock, granted, approval, question, resuming, boot>>

\* RecordRunStatus, and the status frames that ApplyRunnerEvent applies.  Boot
\* does not exclude it: a retry revived at boot executes during the boot.
Report(r, to) ==
  /\ Transition(r, to)
  /\ UNCHANGED <<leased, approval, resuming, boot>>

\* ControlRun: where nobody can confirm the stop the run ends at once.
ControlTarget(r, action) ==
  IF status[r] \in {"queued", "starting", "reconnecting", "succeeding"}
  THEN IF action = "cancel" THEN "cancelled" ELSE "interrupted"
  ELSE IF action = "cancel" THEN "cancelling" ELSE "interrupting"

ControlRun(r, action) ==
  /\ Serving
  /\ Transition(r, ControlTarget(r, action))
  /\ UNCHANGED <<leased, approval, resuming, boot>>

\* requestApprovalTx: the row and the move to waiting_approval commit together.
RequestApproval(r, a) ==
  /\ approval[a] = NoApproval
  /\ Transition(r, "waiting_approval")
  /\ approval' = [approval EXCEPT ![a] = [run |-> r, status |-> "pending"]]
  /\ UNCHANGED <<leased, resuming, boot>>

\* ResolveApproval(approved): the decision is rolled back when the run cannot
\* move to running.
Approve(a) ==
  LET r == approval[a].run
  IN /\ Serving
     /\ r # NoRun
     /\ approval[a].status = "pending"
     /\ Transition(r, "running")
     /\ approval' = [approval EXCEPT ![a].status = "approved"]
     /\ UNCHANGED <<leased, resuming, boot>>

\* ResolveApproval(rejected): recorded whatever the run does, and the run is
\* told to stop only when it still waits.
Reject(a) ==
  LET r == approval[a].run
  IN /\ Serving
     /\ r # NoRun
     /\ approval[a].status = "pending"
     /\ IF status[r] = "waiting_approval"
        THEN Transition(r, "cancelling")
        ELSE UNCHANGED <<status, lock, granted, question>>
     /\ approval' = [approval EXCEPT ![a].status = "rejected"]
     /\ UNCHANGED <<leased, resuming, boot>>

\* RequestQuestion
RequestQuestion(r) ==
  /\ Live(r)
  /\ question[r] = "none"
  /\ question' = [question EXCEPT ![r] = "pending"]
  /\ UNCHANGED <<status, leased, lock, granted, approval, resuming, boot>>

\* The completing transaction of ResolveQuestion: it runs after the delivery
\* and looks at the question only, never at the run.
AnswerQuestion(r) ==
  /\ Serving
  /\ question[r] = "pending"
  /\ question' = [question EXCEPT ![r] = "answered"]
  /\ UNCHANGED <<status, leased, lock, granted, approval, resuming, boot>>

\* DismissQuestion
DismissQuestion(r) ==
  /\ Serving
  /\ Live(r)
  /\ question[r] = "pending"
  /\ question' = [question EXCEPT ![r] = "dismissed"]
  /\ UNCHANGED <<status, leased, lock, granted, approval, resuming, boot>>

\* ResumeRun, first half: the status is read outside any transaction.
ResumeRead(r) ==
  /\ Serving
  /\ status[r] = "reconnecting"
  /\ resuming' = resuming \cup {r}
  /\ UNCHANGED <<status, leased, lock, granted, approval, question, boot>>

\* ResumeRun, second half: the write does not look at what was read.
ResumeWrite(r) ==
  /\ Serving
  /\ r \in resuming
  /\ resuming' = resuming \ {r}
  /\ IF Legal(r, "running") THEN Transition(r, "running")
                            ELSE UNCHANGED <<status, lock, granted, question>>
  /\ UNCHANGED <<leased, approval, boot>>

-----------------------------------------------------------------------------
(* Crash and restart: cmd/control-plane/main.go 426-469                     *)

\* The process dies between two transactions; the database is all that is left.
Crash ==
  /\ resuming' = {}
  /\ boot' = "heal"
  /\ UNCHANGED <<status, leased, lock, granted, approval, question>>

\* LeaselessActive
Leaseless == {r \in Runs : Live(r) /\ r \notin leased}

\* RecoverPendingSelfHealRuns claims the automatic retries again (their claims
\* are Reports of starting) and dispatches them; then the sweeps start.
HealEnd ==
  /\ boot = "heal"
  /\ boot' = "sweep"
  /\ UNCHANGED <<status, leased, lock, granted, approval, question, resuming>>

\* ReconcileOrphanedLocalRuns: every leaseless run that had left queued walks
\* lostPath, one committed status at a time.
SweepStep(r) ==
  /\ boot = "sweep"
  /\ r \in Leaseless
  /\ status[r] # "queued"
  /\ Transition(r, IF LostPath[status[r]] = <<>> THEN "failed"
                   ELSE Head(LostPath[status[r]]))
  /\ UNCHANGED <<leased, approval, resuming, boot>>

\* The next reconciliation starts.  A run whose walk failed (a transaction the
\* database refused) is left where it was: an error does not stop the boot.
SweepEnd ==
  /\ boot = "sweep"
  /\ boot' = "orphans"
  /\ UNCHANGED <<status, leased, lock, granted, approval, question, resuming>>

\* Mutant: the run is not read again before it is ended.
ReconcileUnread(r) ==
  /\ boot = "orphans"
  /\ status[r] # Absent /\ r \notin leased
  /\ status' = [status EXCEPT ![r] = "lost"]
  /\ UNCHANGED <<leased, lock, granted, approval, question, resuming, boot>>

\* markOrphanTerminal: one transaction that writes only the run, so that the
\* lock and the question of a run ended here are left as they were.
ReconcileOrphan(r) ==
  /\ boot = "orphans"
  /\ r \in Leaseless
  /\ status' = [status EXCEPT ![r] = OrphanEnd(status[r])]
  /\ UNCHANGED <<leased, lock, granted, approval, question, resuming, boot>>

\* Retries this process dispatched at boot, and runs whose transaction the
\* database refused, are still active here.
ReconcileOrphansEnd ==
  /\ boot = "orphans"
  /\ boot' = "questions"
  /\ UNCHANGED <<status, leased, lock, granted, approval, question, resuming>>

\* ReconcileStaleQuestions, then the servers start.
ReconcileQuestions ==
  /\ boot = "questions"
  /\ question' = [r \in Runs |->
                    IF status[r] \in Terminal /\ question[r] = "pending"
                    THEN "expired" ELSE question[r]]
  /\ boot' = "serving"
  /\ UNCHANGED <<status, leased, lock, granted, approval, resuming>>

-----------------------------------------------------------------------------
Next ==
  \/ \E r \in Runs :
       \/ CreateRun(r)
       \/ GrantLease(r)
       \/ \E to \in Statuses : Report(r, to)
       \/ \E action \in {"cancel", "interrupt"} : ControlRun(r, action)
       \/ \E a \in Approvals : RequestApproval(r, a)
       \/ RequestQuestion(r)
       \/ AnswerQuestion(r)
       \/ DismissQuestion(r)
       \/ ResumeRead(r)
       \/ ResumeWrite(r)
       \/ SweepStep(r)
       \/ ReconcileOrphan(r)
  \/ \E a \in Approvals : Approve(a) \/ Reject(a)
  \/ Crash
  \/ HealEnd
  \/ SweepEnd
  \/ ReconcileOrphansEnd
  \/ ReconcileQuestions

Spec == Init /\ [][Next]_vars

-----------------------------------------------------------------------------
(* Properties                                                               *)

\* Types of the variables, and the ties between a row and its references.
TypeOK ==
  /\ status \in [Runs -> Statuses \cup {Absent}]
  /\ leased \subseteq Runs
  /\ lock \in [Items -> Runs \cup {NoRun}]
  /\ granted \subseteq Runs
  /\ approval \in [Approvals -> [run : Runs \cup {NoRun}, status : ApprovalStatuses]]
  /\ question \in [Runs -> QuestionStatuses]
  /\ resuming \subseteq Runs
  /\ boot \in BootPhases

\* A run that won the task lock keeps it for as long as it is live, whatever
\* the other runs of the task, the reconcilers and the restarts do: a lock is
\* only ever taken from a dead owner (acquireTaskLock, releaseTaskLock).
LockKept == \A r \in granted : Live(r) => lock[ItemOf[r]] = r

\* The owner of a task's lock is a run of that task which was granted it: no
\* run, dying, ever clears or rewrites the lock of another one.
LockOwned ==
  \A i \in Items : lock[i] # NoRun =>
    i \in TaskItems /\ lock[i] \in granted /\ ItemOf[lock[i]] = i

\* While the control plane serves, a pending question belongs to a live run:
\* no end of a run, in service or at boot, leaves a card nobody can close
\* (transitionRunLocked, markOrphanTerminal, ReconcileStaleQuestions).
NoStaleQuestion == Serving => \A r \in Runs : question[r] = "pending" => Live(r)

\* Whatever happened to a run before, nothing moves it once it has ended, not
\* even a crash, a late report or a decision on an approval it left pending.
EndedForGood ==
  [][\A r \in Runs : status[r] \in Terminal => status'[r] = status[r]]_vars

\* The task lock as the code's readers use it: one owner per task at a time.
\* A dead owner's row counts as free, which is what acquireTaskLock makes of it.
Owner == [i \in Items |-> IF lock[i] # NoRun /\ Live(lock[i]) THEN lock[i] ELSE NoRun]
Ended == {r \in Runs : status[r] \in Terminal}

Exclusive == INSTANCE TaskLock WITH owner <- Owner, ended <- Ended

\* The lifecycle implements the abstract lock.
ExclusiveGrant == Exclusive!Spec

\* tasklock.go:2 says a work item is executed by at most one active run.
OneRunningPerTask ==
  \A r, s \in Runs :
    IsTask(r) /\ ItemOf[r] = ItemOf[s] /\ status[r] = "running" /\ status[s] = "running"
      => r = s
=============================================================================
