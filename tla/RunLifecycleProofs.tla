------------------------- MODULE RunLifecycleProofs -------------------------
(***************************************************************************)
(* Proofs about RunLifecycle, for any sets of runs, items and approvals.   *)
(***************************************************************************)
EXTENDS RunLifecycle, TLAPS

\* What the rows say about runs that do not exist yet.
RowsOfRuns ==
  /\ \A r \in granted : status[r] # Absent
  /\ \A r \in Runs : question[r] # "none" => status[r] # Absent

\* The inductive invariant.
IInv == TypeOK /\ RowsOfRuns /\ LockKept /\ LockOwned /\ NoStaleQuestion

-----------------------------------------------------------------------------
\* A legal move leaves an active status for a status that is neither Absent
\* nor queued: runTransitions has no edge into queued and none out of an end.
LEMMA LegalMove ==
  ASSUME NEW s, NEW t, CanTransition(s, t)
  PROVE  s \in Active /\ t \in Statuses /\ t # "queued" /\ s # Absent
BY DEF CanTransition, Successors, Statuses, Active, Terminal, Absent

\* The status transaction keeps the types of the four variables it writes.
LEMMA TransitionType ==
  ASSUME TypeOK, NEW r \in Runs, NEW to, Transition(r, to)
  PROVE  /\ status' \in [Runs -> Statuses \cup {Absent}]
         /\ lock' \in [Items -> Runs \cup {NoRun}]
         /\ granted' \subseteq Runs
         /\ question' \in [Runs -> QuestionStatuses]
<1>1. Landing(r, to) \in Statuses
  BY LegalMove DEF Transition, Legal
<1>2. ItemOf[r] \in Items
  BY LifecycleAssumption
<1> QED
  BY <1>1, <1>2 DEF Transition, TypeOK, Released, Expired, QuestionStatuses

\* It moves one run, from an active status to one of Statuses.
LEMMA TransitionStatus ==
  ASSUME TypeOK, NEW r \in Runs, NEW to, Transition(r, to)
  PROVE  /\ Live(r)
         /\ status[r] # Absent
         /\ status'[r] = Landing(r, to)
         /\ status'[r] \in Statuses
         /\ status'[r] # Absent
         /\ \A s \in Runs : s # r => status'[s] = status[s]
<1>1. status'[r] = Landing(r, to) /\ \A s \in Runs : s # r => status'[s] = status[s]
  BY DEF Transition, TypeOK
<1>2. CanTransition(status[r], Landing(r, to))
  BY DEF Transition, Legal
<1>3. Live(r) /\ status[r] # Absent /\ Landing(r, to) \in Statuses
  BY <1>2, LegalMove DEF Live
<1>4. Absent \notin Statuses
  BY DEF Absent, Statuses, Active, Terminal
<1> QED
  BY <1>1, <1>3, <1>4

\* It never takes a lock from a live owner nor clears one it does not own.
LEMMA TransitionLock ==
  ASSUME TypeOK, LockKept, LockOwned, NEW r \in Runs, NEW to, Transition(r, to)
  PROVE  LockKept' /\ LockOwned'
<1> DEFINE landing == Landing(r, to)
<1> USE LifecycleAssumption
<1>1. /\ Live(r)
      /\ status'[r] = landing
      /\ \A s \in Runs : s # r => status'[s] = status[s]
  BY TransitionStatus
<1>2. ItemOf[r] \in Items
  OBVIOUS
<1>3. /\ granted' = IF Arbitrates(r, to) /\ landing = "running"
                    THEN granted \cup {r} ELSE granted
      /\ lock' = IF landing \in Terminal THEN Released(r)
                 ELSE IF Arbitrates(r, to) THEN [lock EXCEPT ![ItemOf[r]] = r]
                 ELSE lock
  BY DEF Transition
<1>4. CASE landing \in Terminal
  <2>1. lock' = Released(r) /\ granted' = granted
    BY <1>3, <1>4 DEF Terminal
  <2>2. ~Live(r)'
    BY <1>1, <1>4 DEF Live, Active, Terminal
  <2>3. LockKept'
    <3> SUFFICES ASSUME NEW s \in granted', Live(s)' PROVE lock'[ItemOf[s]] = s
      BY DEF LockKept
    <3>1. s # r /\ s \in granted /\ s \in Runs
      BY <2>1, <2>2 DEF TypeOK
    <3>2. lock[ItemOf[s]] = s
      BY <3>1, <1>1 DEF LockKept, Live
    <3> QED
      BY <2>1, <3>1, <3>2, <1>2 DEF Released, TypeOK
  <2>4. LockOwned'
    BY <2>1, <1>2 DEF LockOwned, Released, TypeOK
  <2> QED
    BY <2>3, <2>4
<1>5. CASE landing \notin Terminal /\ Arbitrates(r, to)
  <2>1. landing = "running" /\ ~LockedOut(r)
    BY <1>5 DEF Landing, Arbitrates, Terminal
  <2>2. lock' = [lock EXCEPT ![ItemOf[r]] = r] /\ granted' = granted \cup {r}
    BY <1>3, <1>5, <2>1
  <2>3. LockKept'
    <3> SUFFICES ASSUME NEW s \in granted', Live(s)' PROVE lock'[ItemOf[s]] = s
      BY DEF LockKept
    <3>1. CASE s = r
      BY <3>1, <2>2, <1>2 DEF TypeOK
    <3>2. CASE s # r
      <4>1. s \in granted /\ s \in Runs
        BY <3>2, <2>2 DEF TypeOK
      <4>2. Live(s) /\ lock[ItemOf[s]] = s
        BY <4>1, <3>2, <1>1 DEF LockKept, Live
      <4>3. ItemOf[s] # ItemOf[r]
        BY <4>1, <4>2, <3>2, <2>1 DEF LockedOut
      <4> QED
        BY <4>1, <4>2, <4>3, <2>2, <1>2 DEF TypeOK
    <3> QED
      BY <3>1, <3>2
  <2>4. LockOwned'
    BY <1>5, <2>2, <1>2 DEF LockOwned, Arbitrates, IsTask, TypeOK
  <2> QED
    BY <2>3, <2>4
<1>6. CASE landing \notin Terminal /\ ~Arbitrates(r, to)
  <2>1. lock' = lock /\ granted' = granted
    BY <1>3, <1>6
  <2>2. \A s \in granted : Live(s)' => Live(s)
    BY <1>1 DEF Live, TypeOK
  <2> QED
    BY <2>1, <2>2 DEF LockKept, LockOwned
<1> QED
  BY <1>4, <1>5, <1>6

\* A run that ends takes its pending question with it.
LEMMA TransitionQuestion ==
  ASSUME TypeOK, RowsOfRuns, NoStaleQuestion, NEW r \in Runs, NEW to,
         Transition(r, to), boot' = boot
  PROVE  NoStaleQuestion' /\ RowsOfRuns'
<1>1. /\ Live(r)
      /\ status[r] # Absent /\ status'[r] # Absent
      /\ status'[r] = Landing(r, to)
      /\ status'[r] \in Statuses
      /\ \A s \in Runs : s # r => status'[s] = status[s]
  BY TransitionStatus
<1>2. question' = IF Landing(r, to) \in Terminal THEN Expired(r) ELSE question
  BY DEF Transition
<1>3. NoStaleQuestion'
  <2> SUFFICES ASSUME Serving', NEW s \in Runs, question'[s] = "pending"
               PROVE  Live(s)'
    BY DEF NoStaleQuestion
  <2>1. Serving
    BY DEF Serving
  <2>2. CASE s # r
    BY <1>1, <1>2, <2>1, <2>2 DEF NoStaleQuestion, Expired, Live, TypeOK
  <2>3. CASE s = r
    <3>1. Landing(r, to) \notin Terminal
      BY <1>2, <2>3 DEF Expired, TypeOK
    <3> QED
      BY <1>1, <2>3, <3>1 DEF Live, Statuses
  <2> QED
    BY <2>2, <2>3
<1>4. RowsOfRuns'
  <2>1. granted' \subseteq granted \cup {r}
    BY DEF Transition
  <2>2. \A s \in Runs : question'[s] # "none" => s = r \/ question[s] # "none"
    BY <1>2 DEF Expired, TypeOK
  <2> QED
    BY <1>1, <2>1, <2>2 DEF RowsOfRuns, TypeOK
<1> QED
  BY <1>3, <1>4

\* Every action built on the status transaction keeps the invariant, provided
\* it leaves boot alone and types what else it writes.
LEMMA TransitionKeeps ==
  ASSUME IInv, NEW r \in Runs, NEW to, Transition(r, to), boot' = boot,
         leased' \subseteq Runs, resuming' \subseteq Runs,
         approval' \in [Approvals -> [run : Runs \cup {NoRun}, status : ApprovalStatuses]]
  PROVE  IInv'
<1>1. TypeOK'
  BY TransitionType DEF IInv, TypeOK
<1> QED
  BY <1>1, TransitionLock, TransitionQuestion DEF IInv

\* A step that leaves runs, locks and questions alone, and does not start to
\* serve, keeps the invariant.
LEMMA QuietKeeps ==
  ASSUME IInv, UNCHANGED <<status, lock, granted, question>>, boot' \in BootPhases,
         boot' = "serving" => boot = "serving",
         leased' \subseteq Runs, resuming' \subseteq Runs,
         approval' \in [Approvals -> [run : Runs \cup {NoRun}, status : ApprovalStatuses]]
  PROVE  IInv'
BY DEF IInv, TypeOK, RowsOfRuns, LockKept, LockOwned, NoStaleQuestion, Serving, Live

LEMMA InitIInv == Init => IInv
<1> SUFFICES ASSUME Init PROVE IInv
  OBVIOUS
<1>1. TypeOK
  BY DEF Init, TypeOK, Statuses, ApprovalStatuses, QuestionStatuses, BootPhases, NoApproval
<1> QED
  BY <1>1 DEF Init, IInv, RowsOfRuns, LockKept, LockOwned, NoStaleQuestion

LEMMA NextIInv == IInv /\ [Next]_vars => IInv'
<1> SUFFICES ASSUME IInv, [Next]_vars PROVE IInv'
  OBVIOUS
<1> USE DEF IInv
<1>1. ASSUME NEW r \in Runs, CreateRun(r) PROVE IInv'
  <2>0. status'[r] \in {"queued", "starting"}
    BY <1>1 DEF CreateRun, TypeOK
  <2>1. TypeOK'
    BY <1>1 DEF CreateRun, TypeOK, Statuses, Active
  <2>2. r \notin granted /\ question[r] = "none"
    BY <1>1 DEF CreateRun, RowsOfRuns, TypeOK
  <2>3. \A s \in Runs : s # r => status'[s] = status[s]
    BY <1>1 DEF CreateRun, TypeOK
  <2>4. LockKept' /\ LockOwned'
    BY <1>1, <2>2, <2>3 DEF CreateRun, LockKept, LockOwned, Live, TypeOK
  <2>5. NoStaleQuestion' /\ RowsOfRuns'
    BY <1>1, <2>0, <2>1, <2>2, <2>3
       DEF CreateRun, NoStaleQuestion, RowsOfRuns, Serving, Live, TypeOK, Absent
  <2> QED
    BY <2>1, <2>4, <2>5
<1>2. ASSUME NEW r \in Runs, GrantLease(r) PROVE IInv'
  BY <1>2, QuietKeeps DEF GrantLease, TypeOK, Serving
<1>3. ASSUME NEW r \in Runs, NEW to \in Statuses, Report(r, to) PROVE IInv'
  BY <1>3, TransitionKeeps DEF Report, TypeOK
<1>4. ASSUME NEW r \in Runs, NEW action, ControlRun(r, action) PROVE IInv'
  BY <1>4, TransitionKeeps DEF ControlRun, TypeOK
<1>5. ASSUME NEW r \in Runs, NEW a \in Approvals, RequestApproval(r, a) PROVE IInv'
  <2>1. approval' \in [Approvals -> [run : Runs \cup {NoRun}, status : ApprovalStatuses]]
    BY <1>5 DEF RequestApproval, TypeOK, ApprovalStatuses
  <2> QED
    BY <1>5, <2>1, TransitionKeeps DEF RequestApproval, TypeOK
<1>6. ASSUME NEW a \in Approvals, Approve(a) PROVE IInv'
  <2>1. approval[a].run \in Runs
    BY <1>6 DEF Approve, TypeOK
  <2>2. approval' \in [Approvals -> [run : Runs \cup {NoRun}, status : ApprovalStatuses]]
    BY <1>6 DEF Approve, TypeOK, ApprovalStatuses
  <2> QED
    BY <1>6, <2>1, <2>2, TransitionKeeps DEF Approve, TypeOK
<1>7. ASSUME NEW a \in Approvals, Reject(a) PROVE IInv'
  <2>1. approval[a].run \in Runs
    BY <1>7 DEF Reject, TypeOK
  <2>2. approval' \in [Approvals -> [run : Runs \cup {NoRun}, status : ApprovalStatuses]]
    BY <1>7 DEF Reject, TypeOK, ApprovalStatuses
  <2>3. CASE status[approval[a].run] = "waiting_approval"
    BY <1>7, <2>1, <2>2, <2>3, TransitionKeeps DEF Reject, TypeOK
  <2>4. CASE status[approval[a].run] # "waiting_approval"
    BY <1>7, <2>2, <2>4, QuietKeeps DEF Reject, TypeOK, BootPhases
  <2> QED
    BY <2>3, <2>4
<1>8. ASSUME NEW r \in Runs, RequestQuestion(r) PROVE IInv'
  BY <1>8 DEF RequestQuestion, TypeOK, RowsOfRuns, LockKept, LockOwned,
              NoStaleQuestion, Serving, Live, QuestionStatuses, Active, Absent
<1>9. ASSUME NEW r \in Runs, AnswerQuestion(r) \/ DismissQuestion(r) PROVE IInv'
  BY <1>9 DEF AnswerQuestion, DismissQuestion, TypeOK, RowsOfRuns, LockKept,
              LockOwned, NoStaleQuestion, Serving, Live, QuestionStatuses
<1>10. ASSUME NEW r \in Runs, ResumeRead(r) PROVE IInv'
  BY <1>10, QuietKeeps DEF ResumeRead, TypeOK
<1>11. ASSUME NEW r \in Runs, ResumeWrite(r) PROVE IInv'
  <2>1. CASE Legal(r, "running")
    BY <1>11, <2>1, TransitionKeeps DEF ResumeWrite, TypeOK
  <2>2. CASE ~Legal(r, "running")
    BY <1>11, <2>2, QuietKeeps DEF ResumeWrite, TypeOK
  <2> QED
    BY <2>1, <2>2
<1>12. ASSUME NEW r \in Runs, SweepStep(r) PROVE IInv'
  <2> DEFINE to == IF LostPath[status[r]] = <<>> THEN "failed"
                   ELSE Head(LostPath[status[r]])
  <2>1. Transition(r, to) /\ boot' = boot /\ UNCHANGED <<leased, approval, resuming>>
    BY <1>12 DEF SweepStep
  <2> HIDE DEF to
  <2> QED
    BY <2>1, TransitionKeeps DEF TypeOK
<1>13. ASSUME NEW r \in Runs, ReconcileOrphan(r) PROVE IInv'
  <2>1. OrphanEnd(status[r]) \in Terminal
    BY DEF OrphanEnd, Terminal
  <2>2. \A s \in Runs : s # r => status'[s] = status[s]
    BY <1>13 DEF ReconcileOrphan, TypeOK
  <2>3. status'[r] \in Terminal
    BY <1>13, <2>1 DEF ReconcileOrphan, TypeOK
  <2>4. status'[r] # Absent /\ status'[r] \notin Active
    BY <2>3 DEF Terminal, Absent, Active
  <2>5. TypeOK'
    BY <1>13, <2>1 DEF ReconcileOrphan, TypeOK, Statuses
  <2>6. LockKept' /\ LockOwned' /\ RowsOfRuns' /\ NoStaleQuestion'
    BY <1>13, <2>2, <2>4
       DEF ReconcileOrphan, LockKept, LockOwned, RowsOfRuns, NoStaleQuestion,
           Serving, Live, TypeOK
  <2> QED
    BY <2>5, <2>6
<1>14. CASE Crash
  BY <1>14, QuietKeeps DEF Crash, TypeOK, BootPhases
<1>15. CASE HealEnd \/ SweepEnd \/ ReconcileOrphansEnd
  BY <1>15, QuietKeeps DEF HealEnd, SweepEnd, ReconcileOrphansEnd, TypeOK, BootPhases
<1>16. CASE ReconcileQuestions
  <2>1. TypeOK'
    BY <1>16 DEF ReconcileQuestions, TypeOK, QuestionStatuses, BootPhases
  <2>2. \A r \in Runs : question'[r] = "pending" =>
          question[r] = "pending" /\ status[r] \notin Terminal
    BY <1>16 DEF ReconcileQuestions
  <2>3. NoStaleQuestion'
    BY <1>16, <2>2 DEF ReconcileQuestions, NoStaleQuestion, RowsOfRuns, Live,
                       Statuses, TypeOK
  <2>4. LockKept' /\ LockOwned' /\ RowsOfRuns'
    BY <1>16 DEF ReconcileQuestions, LockKept, LockOwned, RowsOfRuns, Live
  <2> QED
    BY <2>1, <2>3, <2>4
<1>17. CASE UNCHANGED vars
  BY <1>17, QuietKeeps DEF vars, TypeOK
<1> QED
  BY <1>1, <1>2, <1>3, <1>4, <1>5, <1>6, <1>7, <1>8, <1>9, <1>10, <1>11, <1>12,
     <1>13, <1>14, <1>15, <1>16, <1>17 DEF Next

\* The invariant holds in every reachable state.
THEOREM Invariance == Spec => []IInv
<1>1. Init => IInv
  BY InitIInv
<1>2. IInv /\ [Next]_vars => IInv'
  BY NextIInv
<1> QED
  BY <1>1, <1>2, PTL DEF Spec

\* The variables keep their types.
THEOREM TypeCorrect == Spec => []TypeOK
<1>1. IInv => TypeOK
  BY DEF IInv
<1> QED
  BY <1>1, Invariance, PTL

\* A run that won a task's lock keeps it while it is live, and the owner of a
\* lock is a run of that task that was granted it.
THEOREM LockSafety == Spec => [](LockKept /\ LockOwned)
<1>1. IInv => LockKept /\ LockOwned
  BY DEF IInv
<1> QED
  BY <1>1, Invariance, PTL

\* No question is left pending on a run that has ended while the control
\* plane serves.
THEOREM QuestionsClosed == Spec => []NoStaleQuestion
<1>1. IInv => NoStaleQuestion
  BY DEF IInv
<1> QED
  BY <1>1, Invariance, PTL

-----------------------------------------------------------------------------
\* How a step changes one run's status: not at all, or by a status
\* transaction, or by the boot reconciliation, or by the insert.
LEMMA StatusStep ==
  ASSUME TypeOK, [Next]_vars
  PROVE  \/ UNCHANGED <<status, lock>>
         \/ \E r \in Runs : CreateRun(r)
         \/ \E r \in Runs, to \in Statuses \cup {Absent} : Transition(r, to)
         \/ \E r \in Runs : ReconcileOrphan(r)
<1> DEFINE Move == \E r \in Runs, to \in Statuses \cup {Absent} : Transition(r, to)
<1>1. ASSUME NEW r \in Runs, NEW to, Transition(r, to) PROVE Move
  <2>1. CASE to \in Statuses
    BY <1>1, <2>1
  <2>2. CASE to \notin Statuses
    <3>1. Landing(r, to) = to
      BY <2>2 DEF Landing, Arbitrates, Statuses, Active
    <3>2. FALSE
      BY <1>1, <2>2, <3>1, LegalMove DEF Transition, Legal
    <3> QED
      BY <3>2
  <2> QED
    BY <2>1, <2>2
<1>2. ASSUME NEW r \in Runs, NEW to \in Statuses, Report(r, to) PROVE Move
  BY <1>2, <1>1 DEF Report
<1>3. ASSUME NEW r \in Runs, NEW action, ControlRun(r, action) PROVE Move
  BY <1>3, <1>1 DEF ControlRun
<1>4. ASSUME NEW r \in Runs, NEW a \in Approvals, RequestApproval(r, a) PROVE Move
  BY <1>4, <1>1 DEF RequestApproval
<1>5. ASSUME NEW a \in Approvals, Approve(a) PROVE Move
  <2>1. approval[a].run \in Runs /\ Transition(approval[a].run, "running")
    BY <1>5 DEF Approve, TypeOK
  <2> QED
    BY <2>1, <1>1
<1>6. ASSUME NEW a \in Approvals, Reject(a) PROVE Move \/ UNCHANGED <<status, lock>>
  <2>1. approval[a].run \in Runs
    BY <1>6 DEF Reject, TypeOK
  <2> QED
    BY <1>6, <2>1, <1>1 DEF Reject
<1>7. ASSUME NEW r \in Runs, ResumeWrite(r) PROVE Move \/ UNCHANGED <<status, lock>>
  BY <1>7, <1>1 DEF ResumeWrite
<1>8. ASSUME NEW r \in Runs, SweepStep(r) PROVE Move
  <2> DEFINE to == IF LostPath[status[r]] = <<>> THEN "failed"
                   ELSE Head(LostPath[status[r]])
  <2>1. Transition(r, to)
    BY <1>8 DEF SweepStep
  <2> HIDE DEF to
  <2> QED
    BY <2>1, <1>1
<1> HIDE DEF Move
<1>9. ASSUME Next PROVE \/ UNCHANGED <<status, lock>>
                        \/ \E r \in Runs : CreateRun(r)
                        \/ Move
                        \/ \E r \in Runs : ReconcileOrphan(r)
  BY <1>9, <1>2, <1>3, <1>4, <1>5, <1>6, <1>7, <1>8
     DEF Next, GrantLease, RequestQuestion, AnswerQuestion, DismissQuestion,
         ResumeRead, Crash, HealEnd, SweepEnd, ReconcileOrphansEnd, ReconcileQuestions
<1> QED
  BY <1>9 DEF vars, Move

\* Nothing moves a run that has ended.
THEOREM EndsAreFinal == Spec => EndedForGood
<1> DEFINE Final == \A r \in Runs : status[r] \in Terminal => status'[r] = status[r]
<1>1. ASSUME IInv, [Next]_vars PROVE Final
  <2> SUFFICES ASSUME NEW r \in Runs, status[r] \in Terminal
               PROVE  status'[r] = status[r]
    OBVIOUS
  <2>1. TypeOK
    BY <1>1 DEF IInv
  <2>2. ~Live(r) /\ status[r] # Absent
    BY DEF Live, Terminal, Active, Absent
  <2>3. ASSUME NEW s \in Runs, CreateRun(s) PROVE status'[r] = status[r]
    BY <2>1, <2>2, <2>3 DEF CreateRun, TypeOK
  <2>4. ASSUME NEW s \in Runs, NEW to, Transition(s, to) PROVE status'[r] = status[r]
    BY <2>1, <2>2, <2>4, TransitionStatus
  <2>5. ASSUME NEW s \in Runs, ReconcileOrphan(s) PROVE status'[r] = status[r]
    BY <2>1, <2>2, <2>5 DEF ReconcileOrphan, Leaseless, TypeOK
  <2> QED
    BY <1>1, <2>1, <2>3, <2>4, <2>5, StatusStep
<1>2. ASSUME IInv, [Next]_vars PROVE [Final]_vars
  BY <1>1, <1>2
<1> QED
  BY <1>2, Invariance, PTL DEF Spec, EndedForGood

-----------------------------------------------------------------------------
\* Where a run ends, or leaves a lock alone, the owners of the tasks change as
\* the abstract lock says.
LEMMA OwnersAfter ==
  ASSUME IInv, NEW r \in Runs, Live(r), status'[r] \in Terminal,
         \A s \in Runs : s # r => status'[s] = status[s],
         \A i \in Items : lock'[i] = lock[i] \/ (lock[i] = r /\ lock'[i] = NoRun)
  PROVE  Exclusive!End(r)
<1> USE DEF IInv
<1>1. r \notin Ended /\ ~Live(r)'
  BY DEF Ended, Live, Terminal, Active
<1>2. Ended' = Ended \cup {r}
  BY DEF Ended
<1>3. ASSUME NEW i \in Items
      PROVE  Owner'[i] = IF Owner[i] = r THEN NoRun ELSE Owner[i]
  <2>1. lock[i] \in Runs \cup {NoRun} /\ r # NoRun
    BY LifecycleAssumption DEF TypeOK
  <2>2. lock[i] # NoRun /\ lock[i] # r =>
          (status'[lock[i]] \in Active <=> status[lock[i]] \in Active)
    BY <2>1
  <2> QED
    BY <1>1, <2>1, <2>2 DEF Owner, Live
<1> QED
  BY <1>1, <1>2, <1>3 DEF Exclusive!End, Owner

\* Every step of the lifecycle is a step of the abstract lock or none.
LEMMA LockStep ==
  ASSUME IInv, [Next]_vars
  PROVE  [Exclusive!Next]_<<Owner, Ended>>
<1> USE DEF IInv
<1>1. CASE UNCHANGED <<status, lock>>
  BY <1>1 DEF Owner, Ended, Live
<1>2. ASSUME NEW r \in Runs, CreateRun(r) PROVE UNCHANGED <<Owner, Ended>>
  <2>1. /\ status'[r] \in {"queued", "starting"} /\ status[r] = Absent /\ lock' = lock
        /\ \A s \in Runs : s # r => status'[s] = status[s]
    BY <1>2 DEF CreateRun, TypeOK
  <2>2. \A i \in Items : lock[i] # r
    BY <2>1, LifecycleAssumption DEF LockOwned, RowsOfRuns, TypeOK
  <2>3. Ended' = Ended
    BY <2>1 DEF Ended, Terminal, Absent
  <2>4. \A i \in Items : lock[i] # NoRun =>
          (status'[lock[i]] \in Active <=> status[lock[i]] \in Active)
    <3>1. \A i \in Items : lock[i] # NoRun => lock[i] \in Runs /\ lock[i] # r
      BY <2>2 DEF TypeOK
    <3> QED
      BY <2>1, <3>1
  <2> QED
    BY <2>1, <2>3, <2>4 DEF Owner, Live
<1>3. ASSUME NEW r \in Runs, ReconcileOrphan(r) PROVE Exclusive!End(r)
  <2>1. /\ Live(r) /\ status'[r] \in Terminal /\ lock' = lock
        /\ \A s \in Runs : s # r => status'[s] = status[s]
    BY <1>3 DEF ReconcileOrphan, Leaseless, OrphanEnd, Terminal, TypeOK
  <2> QED
    BY <2>1, OwnersAfter
<1>4. ASSUME NEW r \in Runs, NEW to, Transition(r, to)
      PROVE  [Exclusive!Next]_<<Owner, Ended>>
  <2> DEFINE landing == Landing(r, to)
  <2>1. /\ Live(r)
        /\ status'[r] = landing /\ landing \in Statuses
        /\ \A s \in Runs : s # r => status'[s] = status[s]
    BY <1>4, TransitionStatus
  <2>2. lock' = IF landing \in Terminal THEN Released(r)
                ELSE IF Arbitrates(r, to) THEN [lock EXCEPT ![ItemOf[r]] = r]
                ELSE lock
    BY <1>4 DEF Transition
  <2>3. ItemOf[r] \in Items /\ r # NoRun
    BY LifecycleAssumption
  <2> HIDE DEF landing
  <2>4. CASE landing \in Terminal
    <3>1. \A i \in Items : lock'[i] = lock[i] \/ (lock[i] = r /\ lock'[i] = NoRun)
      BY <2>2, <2>3, <2>4 DEF Released, TypeOK
    <3>2. Exclusive!End(r)
      BY <2>1, <2>4, <3>1, OwnersAfter
    <3> QED
      BY <3>2 DEF Exclusive!Next
  <2>5. CASE landing \notin Terminal
    <3>1. Live(r)' /\ r \notin Ended
      BY <2>1, <2>5 DEF Live, Ended, Statuses, Active, Terminal
    <3>2. Ended' = Ended
      BY <2>1, <2>5, <3>1 DEF Ended
    <3>3. \A s \in Runs : Live(s)' = Live(s)
      BY <2>1, <3>1 DEF Live
    <3>4. CASE ~Arbitrates(r, to)
      <4>1. lock' = lock
        BY <2>2, <2>5, <3>4
      <4>2. Owner' = Owner
        BY <3>3, <4>1 DEF Owner, Live, TypeOK
      <4> QED
        BY <3>2, <4>2
    <3>5. CASE Arbitrates(r, to)
      <4>1. ~LockedOut(r) /\ ItemOf[r] \in TaskItems
        BY <2>5, <3>5 DEF landing, Landing, Terminal, Arbitrates, IsTask
      <4>2. lock' = [lock EXCEPT ![ItemOf[r]] = r]
        BY <2>2, <2>5, <3>5
      <4>3. \A i \in Items : lock[i] # NoRun =>
              (status'[lock[i]] \in Active <=> status[lock[i]] \in Active)
        BY <3>3 DEF Live, TypeOK
      <4>4. Owner' = [Owner EXCEPT ![ItemOf[r]] = r]
        BY <2>3, <3>1, <4>2, <4>3 DEF Owner, Live, TypeOK
      <4>5. Owner[ItemOf[r]] \in {NoRun, r}
        BY <2>3, <4>1 DEF LockedOut, Owner, Live
      <4>6. CASE Owner[ItemOf[r]] = r
        BY <2>3, <3>2, <4>4, <4>6 DEF Owner
      <4>7. CASE Owner[ItemOf[r]] = NoRun
        BY <3>1, <3>2, <4>1, <4>4, <4>7 DEF Exclusive!Next, Exclusive!Take
      <4> QED
        BY <4>5, <4>6, <4>7
    <3> QED
      BY <3>4, <3>5
  <2> QED
    BY <2>4, <2>5
<1> QED
  BY <1>1, <1>2, <1>3, <1>4, StatusStep DEF Exclusive!Next

\* The task lock of the code implements the abstract lock: a task never passes
\* from a live owner to another run.
THEOREM LockRefinement == Spec => ExclusiveGrant
<1>1. Init => Exclusive!Init
  <2> SUFFICES ASSUME Init PROVE Exclusive!Init
    OBVIOUS
  <2>1. Ended = {}
    BY DEF Init, Ended, Terminal, Absent
  <2>2. Owner = [i \in Items |-> NoRun]
    BY DEF Init, Owner
  <2> QED
    BY <2>1, <2>2 DEF Exclusive!Init
<1>2. IInv /\ [Next]_vars => [Exclusive!Next]_<<Owner, Ended>>
  BY LockStep
<1> QED
  BY <1>1, <1>2, Invariance, PTL DEF Spec, ExclusiveGrant, Exclusive!Spec
=============================================================================
