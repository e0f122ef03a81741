------------------------ MODULE LocalExecutionProofs ------------------------
(***************************************************************************)
(* Proofs about LocalExecution: its processes implement RunLifecycle, so   *)
(* that they inherit what is proved of it, and a goroutine that is gone    *)
(* has left an ended run.  For any sets of runs, items and approvals, any  *)
(* retries among the runs and any number of crashes.                       *)
(***************************************************************************)
EXTENDS LocalExecution, RunLifecycleProofs

\* Whoever is being walked to lost is a run.
Walker == walk = NoWalk \/ ("run" \in DOMAIN walk /\ walk.run \in Runs)

-----------------------------------------------------------------------------
\* A status write whose refusal is ignored is a Report or nothing.
LEMMA TryIsReport ==
  ASSUME NEW r \in Runs, NEW to, Try(r, to), SameRows
  PROVE  [Next]_vars
<1>1. CASE Transition(r, to)
  <2>1. Legal(r, to)
    BY <1>1 DEF Transition
  <2>2. to \in Statuses
    <3>1. CASE Landing(r, to) = to
      BY <2>1, <3>1, LegalMove DEF Legal
    <3>2. CASE Landing(r, to) # to
      BY <3>2 DEF Landing, Arbitrates, Statuses, Active
    <3> QED
      BY <3>1, <3>2
  <2>3. Report(r, to)
    BY <1>1 DEF Report, SameRows
  <2> QED
    BY <2>2, <2>3 DEF Next
<1>2. CASE Refused(r, to)
  BY <1>2 DEF Refused, SameRows, vars
<1> QED
  BY <1>1, <1>2 DEF Try

\* The writes that look at the answer are such writes too.
LEMMA ReportsTry ==
  ASSUME NEW r
  PROVE  /\ \A to : LastReport(r, to) => Try(r, to)
         /\ End(r) => Try(r, target[r])
BY DEF LastReport, End, Try

\* What changes the stranded: a last report, the boot's last look, a crash.
LEMMA StrandedChanges ==
  ASSUME [LNext]_lvars
  PROVE  \/ UNCHANGED stranded
         \/ LocalCrash
         \/ \E r \in Runs : LastReport(r, "failed") \/ Orphan(r)
<1>1. ASSUME NEW r \in Runs,
             Create(r) \/ Retry(r) \/ Heal(r) \/ CheckFresh(r) \/ StartModule(r) \/ RefuseModule(r)
             \/ \E action \in {"cancel", "interrupt"} : Control(r, action)
      PROVE  UNCHANGED stranded
  BY <1>1 DEF Create, Retry, Heal, CheckFresh, StartModule, RefuseModule, Control, SameBoot
<1>2. ASSUME NEW r \in Runs,
             Begin(r) \/ TakeDecision(r) \/ Abort(r) \/ ReadStatus(r) \/ PassVia(r) \/ End(r) \/ Working(r)
      PROVE  UNCHANGED stranded
  BY <1>2 DEF Working, Begin, TakeDecision, Abort, ReadStatus, PassVia, End, MarkRunning, Ask,
     AskRefused, Finish, Own, SameBoot
<1>3. ASSUME NEW a \in Approvals, NEW approved \in BOOLEAN, Decide(a, approved) PROVE UNCHANGED stranded
  BY <1>3 DEF Decide, SameBoot
<1>4. Forwarding => UNCHANGED stranded
  BY DEF Forwarding, Forward, ForwardDecision, SameBoot
<1>5. ASSUME NEW r \in Runs, RecoverHeal(r) \/ SweepPick(r) PROVE UNCHANGED stranded
  BY <1>5 DEF RecoverHeal, SweepPick
<1>6. HealDone \/ SweepWalk \/ SweepDone \/ OrphansDone \/ BootDone => UNCHANGED stranded
  BY DEF HealDone, SweepWalk, SweepDone, OrphansDone, BootDone
<1>7. ASSUME NEW r \in Runs, FailDispatch(r) \/ Fallback(r) PROVE LastReport(r, "failed")
  BY <1>7 DEF FailDispatch, Fallback
<1>8. UNCHANGED lvars => UNCHANGED stranded
  BY DEF lvars, local
<1> QED
  BY <1>1, <1>2, <1>3, <1>4, <1>5, <1>6, <1>7, <1>8 DEF LNext, Dispatching, Settling, Booting

\* Whatever a step does, the stranded are of the fallible, and only a crash
\* takes them back.
LEMMA StrandedFallible ==
  ASSUME [LNext]_lvars
  PROVE  /\ stranded \subseteq Fallible => stranded' \subseteq Fallible
         /\ stranded \subseteq stranded' \/ LocalCrash
<1>1. ASSUME NEW r \in Runs, LastReport(r, "failed")
      PROVE  stranded \subseteq stranded' /\ stranded' \subseteq stranded \cup Fallible
  <2>1. CASE Refused(r, "failed") /\ Live(r)
    <3>1. Landing(r, "failed") = "failed"
      BY DEF Landing, Arbitrates
    <3>2. Legal(r, "failed")
      BY <2>1, <3>1 DEF Legal, Live, CanTransition, Successors, Active, Statuses
    <3> QED
      BY <1>1, <2>1, <3>2 DEF LastReport, Refused, Refusable
  <2> QED
    BY <1>1, <2>1 DEF LastReport
<1>2. ASSUME NEW r \in Runs, Orphan(r)
      PROVE  stranded \subseteq stranded' /\ stranded' \subseteq stranded \cup Fallible
  BY <1>2 DEF Orphan
<1>3. LocalCrash => stranded' = {}
  BY DEF LocalCrash
<1> QED
  BY <1>1, <1>2, <1>3, StrandedChanges

LEMMA InitWalker == LocalInit => Walker
BY DEF LocalInit, Walker

LEMMA NextWalker == Walker /\ [LNext]_lvars => Walker'
<1> SUFFICES ASSUME Walker, [LNext]_lvars PROVE Walker'
  OBVIOUS
<1>1. CASE SweepWalk
  <2>1. CASE walk' = NoWalk
    BY <2>1 DEF Walker
  <2>2. CASE walk' = [walk EXCEPT !.path = Tail(@)]
    BY <1>1, <2>2 DEF SweepWalk, Walker
  <2> QED
    BY <1>1, <2>1, <2>2 DEF SweepWalk
<1>2. ASSUME NEW r \in Runs, SweepPick(r) PROVE Walker'
  BY <1>2 DEF SweepPick, Walker
<1>3. CASE LocalCrash
  BY <1>3 DEF LocalCrash, Walker
<1>4. ASSUME UNCHANGED walk PROVE Walker'
  BY <1>4 DEF Walker
<1>5. ASSUME NEW r \in Runs,
             Create(r) \/ Retry(r) \/ Heal(r) \/ Dispatching(r)
             \/ \E action \in {"cancel", "interrupt"} : Control(r, action)
      PROVE  UNCHANGED walk
  BY <1>5 DEF Create, Retry, Heal, Dispatching, CheckFresh, StartModule, RefuseModule,
     FailDispatch, Control, SameBoot
<1>6. ASSUME NEW r \in Runs, Settling(r) \/ Working(r) PROVE UNCHANGED walk
  BY <1>6 DEF Settling, Working, Begin, TakeDecision, Abort, ReadStatus, PassVia, End,
     Fallback, MarkRunning, Ask, AskRefused, Finish, Own, SameBoot
<1>7. ASSUME NEW a \in Approvals, NEW approved \in BOOLEAN, Decide(a, approved) PROVE UNCHANGED walk
  BY <1>7 DEF Decide, SameBoot
<1>8. CASE Forwarding
  <2>1. UNCHANGED walk
    BY <1>8 DEF Forwarding, Forward, ForwardDecision, SameBoot
  <2> QED
    BY <2>1, <1>4
<1>9. ASSUME NEW r \in Runs, RecoverHeal(r) \/ Orphan(r) PROVE UNCHANGED walk
  BY <1>9 DEF RecoverHeal, Orphan
<1>10. CASE HealDone \/ SweepDone \/ OrphansDone \/ BootDone
  <2>1. UNCHANGED walk
    BY <1>10 DEF HealDone, SweepDone, OrphansDone, BootDone
  <2> QED
    BY <2>1, <1>4
<1>11. CASE UNCHANGED lvars
  BY <1>11, <1>4 DEF lvars, local
<1> QED
  BY <1>1, <1>2, <1>3, <1>4, <1>5, <1>6, <1>7, <1>8, <1>9, <1>10, <1>11 DEF LNext, Booting

-----------------------------------------------------------------------------
\* Every step of the dispatchers, the goroutines, the handlers and the boot is a
\* transaction of the lifecycle or leaves its rows alone.
LEMMA LifecycleStep == Walker /\ [LNext]_lvars => [Next]_vars
<1> SUFFICES ASSUME Walker, [LNext]_lvars PROVE [Next]_vars
  OBVIOUS
<1>1. ASSUME NEW r \in Runs, Create(r) \/ Retry(r) \/ Heal(r) PROVE [Next]_vars
  <2>1. CreateRun(r)
    BY <1>1 DEF Create, Retry, Heal
  <2> QED
    BY <2>1 DEF Next
<1>2. ASSUME NEW r \in Runs, Dispatching(r) PROVE [Next]_vars
  <2>1. CASE FailDispatch(r)
    BY <2>1, TryIsReport, ReportsTry DEF FailDispatch
  <2>2. CASE CheckFresh(r) \/ StartModule(r) \/ RefuseModule(r)
    BY <2>2 DEF CheckFresh, StartModule, RefuseModule
  <2> QED
    BY <1>2, <2>1, <2>2 DEF Dispatching
<1>3. ASSUME NEW r \in Runs, Settling(r) PROVE [Next]_vars
  <2>1. CASE Begin(r)
    BY <2>1, TryIsReport DEF Begin
  <2>2. CASE PassVia(r)
    BY <2>2, TryIsReport DEF PassVia
  <2>3. CASE End(r)
    <3>1. Try(r, target[r]) /\ SameRows
      BY <2>3, ReportsTry DEF End
    <3> QED
      BY <3>1, TryIsReport
  <2>4. CASE Fallback(r)
    BY <2>4, TryIsReport, ReportsTry DEF Fallback
  <2>5. CASE TakeDecision(r) \/ Abort(r) \/ ReadStatus(r)
    BY <2>5 DEF TakeDecision, Abort, ReadStatus
  <2> QED
    BY <1>3, <2>1, <2>2, <2>3, <2>4, <2>5 DEF Settling
<1>4. ASSUME NEW r \in Runs, Working(r) PROVE [Next]_vars
  <2>1. CASE MarkRunning(r)
    BY <2>1, TryIsReport DEF MarkRunning
  <2>2. ASSUME NEW a \in Approvals, Ask(r, a) PROVE [Next]_vars
    BY <2>2 DEF Ask, Next
  <2>3. CASE AskRefused(r) \/ Finish(r)
    BY <2>3 DEF AskRefused, Finish
  <2> QED
    BY <1>4, <2>1, <2>2, <2>3 DEF Working
<1>5. ASSUME NEW r \in Runs, NEW action \in {"cancel", "interrupt"}, Control(r, action)
      PROVE  [Next]_vars
  BY <1>5 DEF Control, Next
<1>6. ASSUME NEW a \in Approvals, NEW approved \in BOOLEAN, Decide(a, approved)
      PROVE  [Next]_vars
  BY <1>6 DEF Decide, Next
<1>7. CASE Forwarding
  BY <1>7 DEF Forwarding, Forward, ForwardDecision
<1>8. CASE Booting
  <2>1. ASSUME NEW r \in Runs, RecoverHeal(r) PROVE [Next]_vars
    <3>1. CASE Transition(r, "starting")
      BY <2>1, <3>1, TryIsReport DEF RecoverHeal, Try
    <3>2. CASE UNCHANGED <<status, lock, granted, question>>
      BY <2>1, <3>2 DEF RecoverHeal, SameRows, vars
    <3> QED
      BY <2>1, <3>1, <3>2 DEF RecoverHeal
  <2>2. ASSUME NEW r \in Runs, SweepPick(r) PROVE [Next]_vars
    BY <2>2 DEF SweepPick
  <2>3. ASSUME NEW r \in Runs, Orphan(r) PROVE [Next]_vars
    BY <2>3 DEF Orphan, Next
  <2>4. CASE SweepWalk
    <3>1. walk.run \in Runs
      BY <2>4 DEF SweepWalk, Walker
    <3>2. Try(walk.run, Head(walk.path)) /\ SameRows
      BY <2>4 DEF SweepWalk, Try
    <3> QED
      BY <3>1, <3>2, TryIsReport
  <2>5. CASE HealDone \/ SweepDone \/ OrphansDone \/ BootDone
    BY <2>5 DEF HealDone, SweepDone, OrphansDone, BootDone, Next
  <2> QED
    BY <1>8, <2>1, <2>2, <2>3, <2>4, <2>5 DEF Booting
<1>9. CASE LocalCrash
  BY <1>9 DEF LocalCrash, Next
<1>10. CASE UNCHANGED lvars
  BY <1>10 DEF lvars
<1> QED
  BY <1>1, <1>2, <1>3, <1>4, <1>5, <1>6, <1>7, <1>8, <1>9, <1>10 DEF LNext

\* The processes of local execution implement the lifecycle.
THEOREM LocalRefinement == LSpec => ImplementsLifecycle
<1>1. LocalInit => Init /\ Walker
  BY InitWalker DEF LocalInit
<1>2. Walker /\ [LNext]_lvars => Walker'
  BY NextWalker
<1>3. Walker /\ [LNext]_lvars => [Next]_vars
  BY LifecycleStep
<1> QED
  BY <1>1, <1>2, <1>3, PTL DEF LSpec, ImplementsLifecycle, Spec

\* What is proved of the lifecycle holds of the processes: whatever they do and
\* wherever they crash, locks stay with live owners, questions are closed with
\* their run, and nothing moves a run that has ended.
THEOREM LocalInvariance == LSpec => []IInv
BY LocalRefinement, Invariance, PTL DEF ImplementsLifecycle

-----------------------------------------------------------------------------
\* Where the goroutines can be.
Places ==
  /\ disp \in [Runs -> {"none", "committed", "checked", "refused"}]
  /\ exec \in [Runs -> {"none", "begin", "run", "wait", "returned", "via", "end",
                        "fallback", "done"}]
  /\ outcome \in [Runs -> {"none", "succeeded", "failed", "cancelled", "interrupted"}]
  /\ target \in [Runs -> {"none"} \cup Terminal]

\* What has been dispatched has a row.
RowsFirst == \A r \in Runs : disp[r] # "none" \/ exec[r] # "none" => status[r] # Absent

\* recordTerminal knows the outcome before it aims, and aims at an end before
\* it writes one.
Aimed ==
  \A r \in Runs :
    /\ exec[r] \in {"returned", "via"} => outcome[r] # "none"
    /\ exec[r] \in {"via", "end"} => target[r] \in Terminal

\* The inductive invariant of the goroutines.
GInv == Places /\ RowsFirst /\ Aimed /\ SettledTerminal

\* No step of the lifecycle removes a row or moves an ended run.
LEMMA RowsStay ==
  ASSUME IInv, [Next]_vars, NEW r \in Runs
  PROVE  /\ status[r] # Absent => status'[r] # Absent
         /\ status[r] \in Terminal => status'[r] = status[r]
<1>1. TypeOK
  BY DEF IInv
<1>2. status[r] \in Terminal => ~Live(r) /\ status[r] # Absent
  BY DEF Live, Terminal, Active, Absent
<1>3. ASSUME NEW s \in Runs, CreateRun(s)
      PROVE  /\ status[r] # Absent => status'[r] = status[r]
  BY <1>1, <1>3 DEF CreateRun, TypeOK
<1>4. ASSUME NEW s \in Runs, NEW to, Transition(s, to)
      PROVE  /\ status[r] # Absent => status'[r] # Absent
             /\ ~Live(r) => status'[r] = status[r]
  BY <1>1, <1>4, TransitionStatus
<1>5. ASSUME NEW s \in Runs, ReconcileOrphan(s)
      PROVE  /\ status[r] # Absent => status'[r] # Absent
             /\ ~Live(r) => status'[r] = status[r]
  BY <1>1, <1>5 DEF ReconcileOrphan, Leaseless, TypeOK, OrphanEnd, Absent
<1> QED
  BY <1>1, <1>2, <1>3, <1>4, <1>5, StatusStep

\* A write of a terminal status that goes through ends the run.
LEMMA TransitionEnds ==
  ASSUME TypeOK, NEW r \in Runs, NEW to \in Terminal, Transition(r, to)
  PROVE  status'[r] \in Terminal
<1>1. Landing(r, to) = to
  BY DEF Landing, Arbitrates, Terminal
<1> QED
  BY <1>1 DEF Transition, TypeOK

\* The last report leaves a run that has ended, or one that is stranded.
LEMMA LastReportEnds ==
  ASSUME TypeOK, NEW r \in Runs, status[r] # Absent, LastReport(r, "failed")
  PROVE  status'[r] \in Terminal \/ r \in stranded'
<1>1. CASE Transition(r, "failed")
  BY <1>1, TransitionEnds DEF Terminal
<1>2. CASE Refused(r, "failed") /\ stranded' = IF Live(r) THEN stranded \cup {r} ELSE stranded
  BY <1>2 DEF Refused, Live, TypeOK, Statuses
<1> QED
  BY <1>1, <1>2 DEF LastReport

\* A step that leaves the goroutines where they are keeps their invariant.
LEMMA PlacesStay ==
  ASSUME GInv, IInv, [Next]_vars, UNCHANGED <<disp, exec, outcome, target>>, stranded \subseteq stranded'
  PROVE  GInv'
BY RowsStay DEF GInv, Places, RowsFirst, Aimed, SettledTerminal

\* One goroutine moves on, to a place from which it has not yet returned.
LEMMA OneMoves ==
  ASSUME GInv, IInv, [Next]_vars, NEW r \in Runs, status'[r] # Absent,
         Places', UNCHANGED disp, stranded \subseteq stranded',
         \A s \in Runs : s # r => exec'[s] = exec[s] /\ outcome'[s] = outcome[s] /\ target'[s] = target[s],
         exec'[r] \in {"returned", "via"} => outcome'[r] # "none",
         exec'[r] \in {"via", "end"} => target'[r] \in Terminal,
         exec'[r] = "done" => status'[r] \in Terminal \/ r \in stranded'
  PROVE  GInv'
BY RowsStay DEF GInv, RowsFirst, Aimed, SettledTerminal

LEMMA InitGInv == LocalInit => GInv
BY DEF LocalInit, Init, GInv, Places, RowsFirst, Aimed, SettledTerminal

LEMMA NextGInv == GInv /\ IInv /\ Walker /\ [LNext]_lvars => GInv'
<1> SUFFICES ASSUME GInv, IInv, Walker, [LNext]_lvars PROVE GInv'
  OBVIOUS
<1>17. CASE LocalCrash
  BY <1>17 DEF LocalCrash, GInv, Places, RowsFirst, Aimed, SettledTerminal
<1> SUFFICES ASSUME ~LocalCrash PROVE GInv'
  BY <1>17
<1>0. [Next]_vars /\ TypeOK /\ stranded \subseteq stranded'
  BY LifecycleStep, StrandedFallible DEF IInv
<1>00. /\ Places
       /\ \A r \in Runs : exec[r] # "none" => status'[r] # Absent
       /\ \A r \in Runs : disp[r] # "none" => status'[r] # Absent
  BY <1>0, RowsStay DEF GInv, RowsFirst
<1>1. ASSUME NEW r \in Runs, Create(r) \/ Retry(r) \/ Heal(r) PROVE GInv'
  <2>1. /\ status'[r] \in {"queued", "starting"}
        /\ \E d \in {"committed", "checked"} : disp' = [disp EXCEPT ![r] = d]
        /\ UNCHANGED <<exec, outcome, target>>
    BY <1>1 DEF Create, Retry, Heal, SameExec
  <2> QED
    BY <2>1, <1>0, RowsStay DEF GInv, Places, RowsFirst, Aimed, SettledTerminal, Absent
<1>2. ASSUME NEW r \in Runs, CheckFresh(r) \/ RefuseModule(r) \/ FailDispatch(r) PROVE GInv'
  <2>1. /\ disp[r] # "none"
        /\ \E d \in {"none", "checked", "refused"} : disp' = [disp EXCEPT ![r] = d]
        /\ UNCHANGED <<exec, outcome, target>>
    BY <1>2 DEF CheckFresh, RefuseModule, FailDispatch, SameExec
  <2> QED
    BY <2>1, <1>0, <1>00, RowsStay DEF GInv, Places, RowsFirst, Aimed, SettledTerminal
<1>3. ASSUME NEW r \in Runs, StartModule(r) PROVE GInv'
  <2>1. /\ disp[r] # "none" /\ disp' = [disp EXCEPT ![r] = "none"]
        /\ exec' = [exec EXCEPT ![r] = IF Registered(r) THEN exec[r] ELSE "begin"]
        /\ UNCHANGED <<outcome, target>>
    BY <1>3 DEF StartModule
  <2> QED
    BY <2>1, <1>0, <1>00, RowsStay DEF GInv, Places, RowsFirst, Aimed, SettledTerminal
<1>4. ASSUME NEW r \in Runs, Begin(r) PROVE GInv'
  <2>1. exec[r] = "begin" /\ exec' = [exec EXCEPT ![r] = "run"] /\ UNCHANGED <<disp, outcome, target>>
    BY <1>4 DEF Begin, Own
  <2> QED
    BY <2>1, <1>0, <1>00, OneMoves DEF Places
<1>5. ASSUME NEW r \in Runs, TakeDecision(r) \/ Abort(r) \/ Finish(r) \/ AskRefused(r) PROVE GInv'
  <2>1. /\ exec[r] # "none" /\ UNCHANGED <<disp, target>>
        /\ \/ exec' = [exec EXCEPT ![r] = "run"] /\ UNCHANGED outcome
           \/ \E o \in {"succeeded", "failed", "cancelled", "interrupted"} : Return(r, o)
    BY <1>5 DEF TakeDecision, Abort, Finish, AskRefused, Executing, Own
  <2>2. CASE exec' = [exec EXCEPT ![r] = "run"] /\ UNCHANGED outcome
    BY <2>1, <2>2, <1>0, <1>00, OneMoves DEF Places
  <2>3. ASSUME NEW o \in {"succeeded", "failed", "cancelled", "interrupted"}, Return(r, o) PROVE GInv'
    BY <2>1, <2>3, <1>0, <1>00, OneMoves DEF Places, Return
  <2> QED
    BY <2>1, <2>2, <2>3
<1>6. ASSUME NEW r \in Runs, NEW a \in Approvals, Ask(r, a) PROVE GInv'
  <2>1. exec[r] = "run" /\ exec' = [exec EXCEPT ![r] = "wait"] /\ UNCHANGED <<disp, outcome, target>>
    BY <1>6 DEF Ask, Own
  <2> QED
    BY <2>1, <1>0, <1>00, OneMoves DEF Places
<1>7. ASSUME NEW r \in Runs, MarkRunning(r) PROVE GInv'
  BY <1>7, <1>0, PlacesStay DEF MarkRunning, Own
<1>8. ASSUME NEW r \in Runs, ReadStatus(r) PROVE GInv'
  <2>1. /\ exec[r] = "returned" /\ UNCHANGED <<disp, outcome>>
        /\ target' = [target EXCEPT ![r] = Aim(r)]
        /\ exec' = [exec EXCEPT ![r] = "via"] \/ exec' = [exec EXCEPT ![r] = "end"]
    BY <1>8 DEF ReadStatus, Own
  <2>2. outcome[r] # "none" /\ Aim(r) \in Terminal
    BY <2>1, <1>00 DEF GInv, Aimed, Aim, Terminal, Places
  <2> QED
    BY <2>1, <2>2, <1>0, <1>00, OneMoves DEF Places
<1>9. ASSUME NEW r \in Runs, PassVia(r) PROVE GInv'
  <2>1. exec[r] = "via" /\ exec' = [exec EXCEPT ![r] = "end"] /\ UNCHANGED <<disp, outcome, target>>
    BY <1>9 DEF PassVia, Own
  <2>2. target[r] \in Terminal
    BY <2>1 DEF GInv, Aimed
  <2> QED
    BY <2>1, <2>2, <1>0, <1>00, OneMoves DEF Places
<1>10. ASSUME NEW r \in Runs, End(r) PROVE GInv'
  <2>1. /\ exec[r] = "end" /\ UNCHANGED <<disp, outcome, target>>
        /\ \/ Transition(r, target[r]) /\ exec' = [exec EXCEPT ![r] = "done"]
           \/ exec' = [exec EXCEPT ![r] = "fallback"]
    BY <1>10 DEF End, Own
  <2>2. target[r] \in Terminal
    BY <2>1 DEF GInv, Aimed
  <2>3. CASE Transition(r, target[r]) /\ exec' = [exec EXCEPT ![r] = "done"]
    <3>1. status'[r] \in Terminal
      BY <2>2, <2>3, <1>0, TransitionEnds
    <3> QED
      BY <2>1, <2>3, <3>1, <1>0, <1>00, OneMoves DEF Places
  <2>4. CASE exec' = [exec EXCEPT ![r] = "fallback"]
    BY <2>1, <2>4, <1>0, <1>00, OneMoves DEF Places
  <2> QED
    BY <2>1, <2>3, <2>4
<1>11. ASSUME NEW r \in Runs, Fallback(r) PROVE GInv'
  <2>1. /\ exec[r] = "fallback" /\ LastReport(r, "failed") /\ UNCHANGED <<disp, outcome, target>>
        /\ exec' = [exec EXCEPT ![r] = "done"]
    BY <1>11 DEF Fallback
  <2>2. status[r] # Absent
    BY <2>1 DEF GInv, RowsFirst
  <2>3. status'[r] \in Terminal \/ r \in stranded'
    BY <2>1, <2>2, <1>0, LastReportEnds
  <2> QED
    BY <2>1, <2>3, <1>0, <1>00, OneMoves DEF Places
<1>12. ASSUME NEW r \in Runs, NEW action \in {"cancel", "interrupt"}, Control(r, action) PROVE GInv'
  BY <1>12, <1>0, PlacesStay DEF Control, SameExec
<1>13. ASSUME NEW a \in Approvals, NEW approved \in BOOLEAN, Decide(a, approved) PROVE GInv'
  BY <1>13, <1>0, PlacesStay DEF Decide, SameExec
<1>14. CASE Forwarding
  <2>1. UNCHANGED <<disp, exec, outcome, target>>
    BY <1>14 DEF Forwarding, Forward, ForwardDecision, SameExec
  <2> QED
    BY <2>1, <1>0, PlacesStay
<1>15. ASSUME NEW r \in Runs, RecoverHeal(r) PROVE GInv'
  <2>1. /\ status[r] # Absent /\ disp' = [disp EXCEPT ![r] = "committed"]
        /\ UNCHANGED <<exec, outcome, target>>
    BY <1>15 DEF RecoverHeal, Boot, SameExec, Absent
  <2> QED
    BY <2>1, <1>0, RowsStay DEF GInv, Places, RowsFirst, Aimed, SettledTerminal
<1>16. ASSUME NEW r \in Runs, SweepPick(r) \/ Orphan(r) PROVE GInv'
  BY <1>16, <1>0, PlacesStay DEF SweepPick, Orphan, Boot, SameExec
<1>18. CASE HealDone \/ SweepWalk \/ SweepDone \/ OrphansDone \/ BootDone
  BY <1>18, <1>0, PlacesStay DEF HealDone, SweepWalk, SweepDone, OrphansDone, BootDone, Boot, SameExec
<1>19. CASE UNCHANGED lvars
  BY <1>19, <1>0, PlacesStay DEF lvars, local
<1> QED
  BY <1>1, <1>2, <1>3, <1>4, <1>5, <1>6, <1>7, <1>8, <1>9, <1>10, <1>11, <1>12, <1>13, <1>14,
     <1>15, <1>16, <1>17, <1>18, <1>19
     DEF LNext, Dispatching, Settling, Working, Booting

\* When the goroutine of a run is gone the run has ended, whatever commands,
\* decisions, refusals and restarts raced with recordTerminal, or its last
\* report was refused while it lived (recordTerminal, transitionRunLocked).
THEOREM GoneMeansEnded == LSpec => []SettledTerminal
<1>1. LocalInit => GInv /\ Walker
  BY InitGInv, InitWalker
<1>2. GInv /\ Walker /\ IInv /\ [LNext]_lvars => GInv' /\ Walker'
  BY NextGInv, NextWalker
<1>3. GInv => SettledTerminal
  BY DEF GInv
<1> QED
  BY <1>1, <1>2, <1>3, LocalInvariance, PTL DEF LSpec

-----------------------------------------------------------------------------
\* Somebody in this process will move the run.
Held(r) == Registered(r) \/ disp[r] # "none"

\* A run on its way to Dispatch has no goroutine yet, and one whose row is still
\* to be read again is as it was committed.
Fresh ==
  \A r \in Runs :
    /\ disp[r] # "none" => exec[r] = "none"
    /\ disp[r] = "committed" =>
         /\ r \notin dispatched
         /\ Live(r) => Dispatchable(r)
         /\ boot # "heal" => \A a \in Approvals : approval[a].run # r

\* What the maps and the approvals name has a row, and a retry that has been
\* dispatched is in dispatchedRuns.
Listed ==
  /\ \A r \in dispatched : r \in Runs /\ status[r] # Absent
  /\ \A a \in Approvals, r \in Runs : approval[a].run = r => status[r] # Absent
  /\ \A r \in healed :
       status[r] # Absent /\ (exec[r] # "none" \/ disp[r] = "checked" => r \in dispatched)

\* The boot has only the retries it revives for company.
BootAlone ==
  /\ boot # "serving" => \A r \in Runs \ healed : exec[r] = "none" /\ disp[r] = "none"
  /\ boot \notin {"serving", "heal"} => \A r \in Runs : disp[r] = "none"
  /\ walk # NoWalk => boot = "sweep"

\* A live run that nobody holds is one the boot has still to come to, or one
\* whose last report was refused.
Covered ==
  \A r \in Runs \ stranded : Live(r) /\ ~Held(r) =>
    /\ r \notin dispatched
    /\ boot \in {"heal", "sweep"} \/ (boot = "orphans" /\ r \in todo)

\* The inductive invariant of dispatch and boot.
HInv ==
  /\ leased = {} /\ healed \subseteq Runs /\ stranded \subseteq Fallible
  /\ Fresh /\ Listed /\ BootAlone /\ Covered

LEMMA InitHInv == LocalInit => HInv
BY LifecycleAssumption
   DEF LocalInit, Init, HInv, Fresh, Listed, BootAlone, Covered, Live, Active, Absent, NoApproval

\* A status write whose refusal is ignored moves one run, and ends or moves it
\* only while it lives.
LEMMA TryMoves ==
  ASSUME TypeOK, NEW r \in Runs, NEW to, Try(r, to)
  PROVE  /\ \A s \in Runs : s # r => status'[s] = status[s]
         /\ \A s \in Runs : Live(s)' => Live(s)
         /\ \A s \in Runs : status[s] # Absent => status'[s] # Absent
<1>1. CASE Transition(r, to)
  BY <1>1, TransitionStatus DEF Transition, TypeOK, Live, Absent, Active
<1>2. CASE Refused(r, to)  BY <1>2 DEF Refused, Live
<1> QED  BY <1>1, <1>2 DEF Try

\* A step of a goroutine, which holds its run to the end.
LEMMA GoroutineKeeps ==
  ASSUME HInv, SettledTerminal', NEW r \in Runs, exec[r] # "none", exec'[r] # "none",
         UNCHANGED <<leased, healed, disp, dispatched, todo, boot, walk>>,
         \A s \in Runs : s # r => exec'[s] = exec[s] /\ status'[s] = status[s],
         \A s \in Runs : Live(s)' => Live(s),
         \A s \in Runs : status[s] # Absent => status'[s] # Absent,
         \A a \in Approvals : approval'[a].run \in {approval[a].run, r},
         status[r] # Absent, stranded \subseteq stranded', stranded' \subseteq Fallible
  PROVE  HInv'
<1>1. disp[r] = "none"  BY DEF HInv, Fresh
<1>2. Fresh'  BY <1>1 DEF HInv, Fresh, Live, Dispatchable
<1>3. Listed'  BY <1>1 DEF HInv, Listed
<1>4. BootAlone'  BY DEF HInv, BootAlone
<1>5. Covered'
  <2>1. Live(r)' => Registered(r)' \/ r \in stranded'
    BY DEF SettledTerminal, Registered, Live, Terminal, Active
  <2> QED  BY <2>1 DEF HInv, Covered, Held, Registered
<1> QED  BY <1>2, <1>3, <1>4, <1>5 DEF HInv

\* A handler or the boot writes rows and leaves the goroutines alone.
LEMMA RowsKeep ==
  ASSUME HInv, UNCHANGED <<leased, healed, disp, dispatched, exec, todo, boot, walk>>,
         \A r \in Runs : Live(r)' => Live(r) /\ (disp[r] = "committed" => status'[r] = status[r]),
         \A r \in Runs : status[r] # Absent => status'[r] # Absent,
         \A a \in Approvals : approval'[a].run = approval[a].run,
         stranded \subseteq stranded', stranded' \subseteq Fallible
  PROVE  HInv'
<1>1. Fresh'  BY DEF HInv, Fresh, Dispatchable
<1>2. Listed' /\ BootAlone'  BY DEF HInv, Listed, BootAlone
<1>3. Covered'  BY DEF HInv, Covered, Held, Registered
<1> QED  BY <1>1, <1>2, <1>3 DEF HInv

LEMMA CreatesKeep ==
  ASSUME HInv, GInv, TypeOK, NEW r \in Runs, Create(r) \/ Retry(r) \/ Heal(r),
         stranded \subseteq stranded', stranded' \subseteq Fallible
  PROVE  HInv'
<1>1. Serving
  <2>1. CASE Heal(r)  BY <2>1 DEF Heal, HInv, BootAlone, Serving
  <2> QED  BY <2>1 DEF Create, Retry
<1>2. /\ status[r] = Absent /\ status'[r] \in {"queued", "starting"}
      /\ \A s \in Runs : s # r => status'[s] = status[s]
      /\ UNCHANGED <<leased, approval, boot, dispatched, exec, todo, walk>>
      /\ healed \subseteq healed' /\ healed' \subseteq healed \cup {r}
      /\ status'[r] = "queued" \/ r \in healed'
  BY DEF Create, Retry, Heal, CreateRun, SameExec, SameBoot, TypeOK
<1>3. \/ disp' = [disp EXCEPT ![r] = "committed"]
      \/ disp' = [disp EXCEPT ![r] = "checked"] /\ UNCHANGED healed
  BY DEF Create, Retry, Heal, SameBoot
<1>4. exec[r] = "none" /\ r \notin dispatched /\ r \notin healed /\ \A a \in Approvals : approval[a].run # r
  BY <1>2 DEF GInv, RowsFirst, HInv, Listed
<1>5. disp'[r] # "none" /\ \A s \in Runs : s # r => disp'[s] = disp[s]
  BY <1>3 DEF GInv, Places
<1>6. Fresh'
  BY <1>2, <1>3, <1>4, <1>5 DEF HInv, Fresh, Live, Dispatchable
<1>7. Listed'
  <2>1. r \in healed' => disp'[r] # "checked"  BY <1>3, <1>4 DEF GInv, Places
  <2> QED  BY <1>2, <1>4, <1>5, <2>1 DEF HInv, Listed, Absent
<1>8. BootAlone'  BY <1>1, <1>2 DEF HInv, BootAlone, Serving
<1>9. Covered'
  BY <1>2, <1>4, <1>5 DEF HInv, Covered, Held, Live, Registered
<1> QED  BY <1>2, <1>6, <1>7, <1>8, <1>9 DEF HInv

LEMMA DispatchKeeps ==
  ASSUME HInv, GInv, TypeOK, NEW r \in Runs, Dispatching(r),
         stranded \subseteq stranded', stranded' \subseteq Fallible
  PROVE  HInv'
<1>1. disp[r] # "none" /\ exec[r] = "none" /\ status[r] # Absent
  BY DEF Dispatching, CheckFresh, StartModule, RefuseModule, FailDispatch, HInv, Fresh, GInv, RowsFirst
<1>2. CASE CheckFresh(r)
  <2>1. /\ disp[r] = "committed" /\ UNCHANGED <<status, leased, healed, approval, boot, exec, todo, walk>>
        /\ \/ /\ disp' = [disp EXCEPT ![r] = "checked"] /\ dispatched' = dispatched \cup {r}
           \/ /\ disp' = [disp EXCEPT ![r] = "none"] /\ UNCHANGED dispatched /\ ~Live(r)
    BY <1>2 DEF CheckFresh, HInv, Fresh, vars, SameExec, SameBoot
  <2>2. \A s \in Runs : s # r => disp'[s] = disp[s]  BY <2>1 DEF GInv, Places
  <2>3. \/ disp'[r] = "checked" /\ dispatched' = dispatched \cup {r}
        \/ disp'[r] = "none" /\ dispatched' = dispatched /\ ~Live(r)
    BY <2>1 DEF GInv, Places
  <2>4. Fresh'  BY <1>1, <2>1, <2>2, <2>3 DEF HInv, Fresh, Live, Dispatchable
  <2>5. Listed'  BY <1>1, <2>1, <2>2, <2>3 DEF HInv, Listed
  <2>6. BootAlone'  BY <1>1, <2>1, <2>2 DEF HInv, BootAlone
  <2>7. Covered'  BY <1>1, <2>1, <2>2, <2>3 DEF HInv, Covered, Held, Live, Registered
  <2> QED  BY <2>1, <2>4, <2>5, <2>6, <2>7 DEF HInv
<1>3. CASE StartModule(r)
  <2>1. /\ disp[r] = "checked" /\ UNCHANGED <<status, leased, healed, approval, boot, dispatched, todo, walk>>
        /\ disp'[r] = "none" /\ exec'[r] = "begin"
        /\ \A s \in Runs : s # r => disp'[s] = disp[s] /\ exec'[s] = exec[s]
    BY <1>1, <1>3 DEF StartModule, Registered, GInv, Places, vars, SameBoot
  <2>2. Fresh'  BY <2>1 DEF HInv, Fresh, Live, Dispatchable
  <2>3. Listed'  BY <2>1 DEF HInv, Listed
  <2>4. BootAlone'  BY <1>1, <2>1 DEF HInv, BootAlone
  <2>5. Covered'  BY <2>1 DEF HInv, Covered, Held, Live, Registered
  <2> QED  BY <2>1, <2>2, <2>3, <2>4, <2>5 DEF HInv
<1>4. CASE RefuseModule(r)
  <2>1. /\ disp[r] = "checked" /\ UNCHANGED <<status, leased, healed, approval, boot, exec, todo, walk>>
        /\ disp'[r] = "refused" /\ dispatched' = dispatched \ {r}
        /\ \A s \in Runs : s # r => disp'[s] = disp[s]
    BY <1>4 DEF RefuseModule, GInv, Places, vars, SameExec, SameBoot
  <2>2. Fresh'  BY <1>1, <2>1 DEF HInv, Fresh, Live, Dispatchable
  <2>3. Listed'  BY <1>1, <2>1 DEF HInv, Listed
  <2>4. BootAlone'  BY <1>1, <2>1 DEF HInv, BootAlone
  <2>5. Covered'  BY <2>1 DEF HInv, Covered, Held, Live, Registered
  <2> QED  BY <2>1, <2>2, <2>3, <2>4, <2>5 DEF HInv
<1>5. CASE FailDispatch(r)
  <2>1. /\ LastReport(r, "failed") /\ UNCHANGED <<leased, healed, approval, boot, dispatched, exec, todo, walk>>
        /\ disp'[r] = "none" /\ \A s \in Runs : s # r => disp'[s] = disp[s]
    BY <1>5 DEF FailDispatch, GInv, Places, SameExec, SameRows
  <2>2. ~Live(r)' \/ r \in stranded'
    BY <1>1, <2>1, LastReportEnds DEF Live, Terminal, Active
  <2>3. /\ \A s \in Runs : s # r => status'[s] = status[s]
        /\ \A s \in Runs : Live(s)' => Live(s)
        /\ \A s \in Runs : status[s] # Absent => status'[s] # Absent
    BY <2>1, ReportsTry, TryMoves
  <2>4. Fresh'  BY <1>1, <2>1, <2>3 DEF HInv, Fresh, Live, Dispatchable
  <2>5. Listed' /\ BootAlone'  BY <1>1, <2>1, <2>3 DEF HInv, Listed, BootAlone
  <2>6. Covered'  BY <2>1, <2>2, <2>3 DEF HInv, Covered, Held, Registered
  <2> QED  BY <2>1, <2>4, <2>5, <2>6 DEF HInv
<1> QED  BY <1>2, <1>3, <1>4, <1>5 DEF Dispatching

LEMMA WorkKeeps ==
  ASSUME HInv, GInv, TypeOK, SettledTerminal', NEW r \in Runs, Settling(r) \/ Working(r),
         stranded \subseteq stranded', stranded' \subseteq Fallible
  PROVE  HInv'
<1>1. /\ exec[r] # "none" /\ status[r] # Absent
      /\ UNCHANGED <<leased, healed, disp, dispatched, todo, boot, walk>>
  BY DEF Settling, Working, Begin, TakeDecision, Abort, ReadStatus, PassVia, End, Fallback, MarkRunning,
         Ask, AskRefused, Finish, RequestApproval, Own, SameRows, SameBoot, vars, Executing, GInv, RowsFirst
<1>2. exec'[r] # "none" /\ \A s \in Runs : s # r => exec'[s] = exec[s]
  <2>1. UNCHANGED exec \/ \E e \in {"run", "wait", "returned", "via", "end", "fallback", "done"} :
          exec' = [exec EXCEPT ![r] = e]
    BY DEF Settling, Working, Begin, TakeDecision, Abort, ReadStatus, PassVia, End, Fallback, MarkRunning,
           Ask, AskRefused, Finish, Return
  <2> QED  BY <1>1, <2>1 DEF GInv, Places
<1>3. /\ UNCHANGED status \/ \E to : Try(r, to)
      /\ \A a \in Approvals : approval'[a].run \in {approval[a].run, r}
  <2>1. CASE \E a \in Approvals : Ask(r, a)
    <3>1. PICK a \in Approvals : RequestApproval(r, a)  BY <2>1 DEF Ask
    <3> QED  BY <3>1 DEF RequestApproval, Transition, Try, TypeOK
  <2>2. CASE ~\E a \in Approvals : Ask(r, a)
    <3>1. CASE Fallback(r)
      BY <3>1, ReportsTry DEF Fallback, SameRows
    <3>2. CASE End(r)
      BY <3>2, ReportsTry DEF End, SameRows
    <3> QED
      BY <2>2, <3>1, <3>2 DEF Settling, Working, Begin, TakeDecision, Abort, ReadStatus, PassVia,
           MarkRunning, AskRefused, Finish, SameRows, vars
  <2> QED  BY <2>1, <2>2
<1>4. /\ \A s \in Runs : s # r => status'[s] = status[s]
      /\ \A s \in Runs : Live(s)' => Live(s)
      /\ \A s \in Runs : status[s] # Absent => status'[s] # Absent
  BY <1>3, TryMoves DEF Live
<1> QED  BY <1>1, <1>2, <1>3, <1>4, GoroutineKeeps

LEMMA CommandsKeep ==
  ASSUME HInv, GInv, TypeOK, stranded \subseteq stranded', stranded' \subseteq Fallible,
         \/ \E r \in Runs, action \in {"cancel", "interrupt"} : Control(r, action)
         \/ \E a \in Approvals, approved \in BOOLEAN : Decide(a, approved)
         \/ Forwarding
  PROVE  HInv'
<1>1. CASE \E r \in Runs, action \in {"cancel", "interrupt"} : Control(r, action)
  <2>1. PICK r \in Runs, action \in {"cancel", "interrupt"} : Control(r, action)  BY <1>1
  <2>2. /\ Transition(r, ControlTarget(r, action))
        /\ UNCHANGED <<leased, healed, approval, boot, disp, dispatched, exec, todo, walk>>
    BY <2>1 DEF Control, ControlRun, SameExec, SameBoot
  <2>3. /\ \A s \in Runs : s # r => status'[s] = status[s]
        /\ \A s \in Runs : Live(s)' => Live(s)
        /\ \A s \in Runs : status[s] # Absent => status'[s] # Absent
    BY <2>2, TryMoves DEF Try
  <2>4. disp[r] = "committed" => ~Live(r)'
    <3>1. disp[r] = "committed" => status[r] \in {"queued", "starting"}
      BY <2>2, TransitionStatus DEF HInv, Fresh, Dispatchable
    <3>2. status[r] \in {"queued", "starting"} => ControlTarget(r, action) \in Terminal
      BY DEF ControlTarget, Terminal
    <3>3. ControlTarget(r, action) \in Terminal => status'[r] \in Terminal
      BY <2>2, TransitionEnds
    <3> QED  BY <3>1, <3>2, <3>3 DEF Live, Terminal, Active
  <2> QED  BY <2>2, <2>3, <2>4, RowsKeep DEF Live
<1>2. CASE \E a \in Approvals, approved \in BOOLEAN : Decide(a, approved)
  <2>1. PICK a \in Approvals, approved \in BOOLEAN : Decide(a, approved)  BY <1>2
  <2> DEFINE r == approval[a].run
  <2>2. /\ Serving /\ r \in Runs
        /\ UNCHANGED <<leased, healed, boot, disp, dispatched, exec, todo, walk>>
        /\ UNCHANGED status \/ \E to : Transition(r, to)
        /\ \A b \in Approvals : approval'[b].run = approval[b].run
    <3>1. /\ UNCHANGED <<healed, disp, dispatched, exec, todo, walk>>
          /\ Approve(a) \/ Reject(a)
      BY <2>1 DEF Decide, SameExec, SameBoot
    <3>2. /\ Serving /\ r \in Runs /\ UNCHANGED <<leased, boot>>
          /\ UNCHANGED status \/ \E to : Transition(r, to)
      BY <3>1 DEF Approve, Reject, TypeOK
    <3>3. \A b \in Approvals : approval'[b].run = approval[b].run
      BY <3>1 DEF Approve, Reject, TypeOK
    <3> QED  BY <3>1, <3>2, <3>3
  <2>3. disp[r] # "committed"  BY <2>2 DEF HInv, Fresh, Serving
  <2>4. UNCHANGED status \/ \E to : Try(r, to)  BY <2>2 DEF Try
  <2>5. /\ \A s \in Runs : s # r => status'[s] = status[s]
        /\ \A s \in Runs : Live(s)' => Live(s)
        /\ \A s \in Runs : status[s] # Absent => status'[s] # Absent
    BY <2>2, <2>4, TryMoves DEF Live
  <2> QED  BY <2>2, <2>3, <2>5, RowsKeep
<1>3. CASE Forwarding
  <2>1. UNCHANGED <<status, leased, healed, approval, boot, disp, dispatched, exec, todo, walk>>
    BY <1>3 DEF Forwarding, Forward, ForwardDecision, vars, SameExec, SameBoot
  <2> QED  BY <2>1, RowsKeep DEF Live
<1> QED  BY <1>1, <1>2, <1>3

LEMMA BootKeeps ==
  ASSUME HInv, GInv, Walker, TypeOK, Booting,
         stranded \subseteq stranded', stranded' \subseteq Fallible
  PROVE  HInv'
<1>1. ASSUME NEW r \in Runs, RecoverHeal(r) PROVE HInv'
  <2>1. /\ boot = "heal" /\ r \in healed /\ status[r] \in {"queued", "starting"}
        /\ r \notin dispatched /\ exec[r] = "none"
        /\ disp'[r] = "committed" /\ \A s \in Runs : s # r => disp'[s] = disp[s]
        /\ UNCHANGED <<leased, healed, approval, boot, dispatched, exec, todo, walk>>
    BY <1>1 DEF RecoverHeal, HInv, Listed, GInv, Places, Boot, SameExec, SameRows
  <2>2. /\ status'[r] \in {"queued", "starting"}
        /\ \A s \in Runs : s # r => status'[s] = status[s]
    <3>1. Landing(r, "starting") = "starting"  BY DEF Landing, Arbitrates
    <3> QED  BY <1>1, <2>1, <3>1 DEF RecoverHeal, Transition, TypeOK
  <2>3. Fresh'  BY <2>1, <2>2 DEF HInv, Fresh, Live, Dispatchable
  <2>4. Listed' /\ BootAlone'  BY <2>1, <2>2 DEF HInv, Listed, BootAlone, Absent
  <2>5. Covered'  BY <2>1, <2>2 DEF HInv, Covered, Held, Live, Registered
  <2> QED  BY <2>1, <2>3, <2>4, <2>5 DEF HInv
<1>2. ASSUME NEW r \in Runs, SweepPick(r) PROVE HInv'
  <2>1. boot = "sweep" /\ UNCHANGED <<status, leased, healed, approval, boot, disp, dispatched, exec>>
    BY <1>2 DEF SweepPick, vars, Boot, SameExec
  <2>2. Covered'  BY <2>1 DEF HInv, Covered, Held, Live, Registered
  <2> QED  BY <2>1, <2>2 DEF HInv, Fresh, Listed, BootAlone, Live, Dispatchable
<1>3. ASSUME NEW r \in Runs, Orphan(r) PROVE HInv'
  <2>1. /\ boot = "orphans" /\ r \in todo /\ todo' = todo \ {r}
        /\ UNCHANGED <<leased, healed, approval, boot, disp, dispatched, exec, walk>>
        /\ \A s \in Runs : s # r => status'[s] = status[s]
        /\ ~Live(r)' \/ (UNCHANGED status /\ r \in stranded')
        /\ status[r] # Absent => status'[r] # Absent
    <3>1. CASE ReconcileOrphan(r)
      BY <1>3, <3>1 DEF Orphan, ReconcileOrphan, OrphanEnd, TypeOK, Live, Active, Absent, Boot, SameExec
    <3>2. CASE ~ReconcileOrphan(r)  BY <1>3, <3>2 DEF Orphan, vars, Live, Boot, SameExec
    <3> QED  BY <3>1, <3>2
  <2>2. \A s \in Runs : disp[s] = "none"  BY <2>1 DEF HInv, BootAlone
  <2>3. Fresh' /\ Listed' /\ BootAlone'  BY <2>1, <2>2 DEF HInv, Fresh, Listed, BootAlone
  <2>4. Covered'
    <3>1. ASSUME NEW s \in Runs \ stranded', Live(s)', ~Held(s)' PROVE s # r /\ Live(s) /\ ~Held(s)
      BY <2>1, <3>1 DEF Held, Live, Registered
    <3> QED  BY <2>1, <3>1 DEF HInv, Covered
  <2> QED  BY <2>1, <2>3, <2>4 DEF HInv
<1>4. CASE HealDone
  <2>1. /\ boot = "heal" /\ boot' = "sweep" /\ \A r \in Runs : disp[r] = "none"
        /\ UNCHANGED <<status, leased, healed, approval, disp, dispatched, exec>>
    BY <1>4 DEF HealDone, HealEnd, Boot, SameExec
  <2> QED  BY <2>1 DEF HInv, Fresh, Listed, BootAlone, Covered, Held, Live, Registered
<1>5. CASE SweepWalk
  <2>1. /\ boot = "sweep" /\ UNCHANGED <<leased, healed, approval, boot, disp, dispatched, exec, todo>>
        /\ walk.run \in Runs /\ \E to : Try(walk.run, to)
    BY <1>5 DEF SweepWalk, Walker, HInv, BootAlone, Boot, SameExec, SameRows, Try
  <2>2. /\ \A s \in Runs : disp[s] = "none" /\ (Live(s)' => Live(s))
        /\ \A s \in Runs : status[s] # Absent => status'[s] # Absent
    BY <2>1, TryMoves DEF HInv, BootAlone
  <2> QED  BY <2>1, <2>2 DEF HInv, Fresh, Listed, BootAlone, Covered, Held, Registered
<1>6. CASE SweepDone
  <2>1. /\ boot = "sweep" /\ boot' = "orphans" /\ walk = NoWalk
        /\ UNCHANGED <<status, leased, healed, approval, disp, dispatched, exec, walk>>
        /\ todo' = Leaseless \ {r \in healed \cap dispatched : status[r] \in {"queued", "starting"}}
    BY <1>6 DEF SweepDone, SweepEnd, Boot, SameExec
  <2>2. Covered'
    BY <2>1 DEF HInv, Covered, Held, Live, Registered, Leaseless
  <2> QED  BY <2>1, <2>2 DEF HInv, Fresh, Listed, BootAlone, Live, Dispatchable
<1>7. CASE OrphansDone
  <2>1. /\ boot = "orphans" /\ boot' = "questions" /\ todo = {}
        /\ UNCHANGED <<status, leased, healed, approval, disp, dispatched, exec, walk>>
    BY <1>7 DEF OrphansDone, ReconcileOrphansEnd, Boot, SameExec
  <2> QED  BY <2>1 DEF HInv, Fresh, Listed, BootAlone, Covered, Held, Live, Registered, Dispatchable
<1>8. CASE BootDone
  <2>1. /\ boot = "questions" /\ boot' = "serving"
        /\ UNCHANGED <<status, leased, healed, approval, disp, dispatched, exec, walk>>
    BY <1>8 DEF BootDone, ReconcileQuestions, Boot, SameExec
  <2> QED  BY <2>1 DEF HInv, Fresh, Listed, BootAlone, Covered, Held, Live, Registered, Dispatchable
<1> QED  BY <1>1, <1>2, <1>3, <1>4, <1>5, <1>6, <1>7, <1>8 DEF Booting

LEMMA NextHInv == HInv /\ GInv /\ GInv' /\ IInv /\ Walker /\ [LNext]_lvars => HInv'
<1> SUFFICES ASSUME HInv, GInv, GInv', IInv, Walker, [LNext]_lvars PROVE HInv'
  OBVIOUS
<1>0. TypeOK /\ SettledTerminal' /\ stranded' \subseteq Fallible
  BY StrandedFallible DEF IInv, GInv, HInv
<1>6. CASE LocalCrash
  BY <1>6 DEF LocalCrash, Crash, HInv, Fresh, Listed, BootAlone, Covered, Held
<1> SUFFICES ASSUME ~LocalCrash PROVE HInv'
  BY <1>6
<1>00. stranded \subseteq stranded'
  BY StrandedFallible
<1>1. ASSUME NEW r \in Runs, Create(r) \/ Retry(r) \/ Heal(r) PROVE HInv'
  BY <1>0, <1>00, <1>1, CreatesKeep
<1>2. ASSUME NEW r \in Runs, Dispatching(r) PROVE HInv'
  BY <1>0, <1>00, <1>2, DispatchKeeps
<1>3. ASSUME NEW r \in Runs, Settling(r) \/ Working(r) PROVE HInv'
  BY <1>0, <1>00, <1>3, WorkKeeps
<1>4. CASE \/ \E r \in Runs, action \in {"cancel", "interrupt"} : Control(r, action)
           \/ \E a \in Approvals, approved \in BOOLEAN : Decide(a, approved)
           \/ Forwarding
  BY <1>0, <1>00, <1>4, CommandsKeep
<1>5. CASE Booting
  BY <1>0, <1>00, <1>5, BootKeeps
<1>7. CASE UNCHANGED lvars
  BY <1>7 DEF lvars, vars, local, HInv, Fresh, Listed, BootAlone, Covered, Held, Live, Registered,
     Dispatchable
<1> QED
  BY <1>1, <1>2, <1>3, <1>4, <1>5, <1>6, <1>7 DEF LNext

\* While the control plane serves, every live run has somebody in this process
\* that will move it, whatever the order of crashes, boots, illegal moves and
\* stale dispatches, or it is a fallible run whose last report in this process
\* was refused (reconcile.go, run_reconcile.go, dispatchCommittedRun).
THEOREM NobodyOrphaned == LSpec => []NoOrphan
<1>1. LocalInit => HInv /\ GInv /\ Walker
  BY InitHInv, InitGInv, InitWalker
<1>2. IInv /\ Walker /\ GInv /\ HInv /\ [LNext]_lvars => Walker' /\ GInv' /\ HInv'
  BY NextWalker, NextGInv, NextHInv
<1>3. HInv => NoOrphan
  BY DEF HInv, Covered, Held, NoOrphan, Serving
<1> QED
  BY <1>1, <1>2, <1>3, LocalInvariance, PTL DEF LSpec
=============================================================================
