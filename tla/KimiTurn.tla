-------------------------------- MODULE KimiTurn --------------------------------
(***************************************************************************)
(* One execution of the Kimi adapter: the session, the prompt, the stream   *)
(* of frames with its reconnections, the projection of each frame on the    *)
(* state of the turn, the detached task that keeps the run open until its   *)
(* notification turn is over, and cancellation by REST.  The provider is    *)
(* the part of it that the frames and the REST calls let the adapter see.   *)
(* The questions of the turn are QuestionDelivery's, which this implements. *)
(*   runtime/adapters/kimiapp/kimiapp.go and wire.go, runtime/module.go     *)
(***************************************************************************)
EXTENDS QuestionDelivery, FiniteSets

CONSTANTS
  Scenes,     \* what the session does, one of them per behaviour
  Troubles    \* bound, by scene, on breaks, cancellations and early ends together

ASSUME TurnAssumption ==
  /\ Scenes \subseteq {"tool", "task", "question", "older", "silent", "stray"}
  /\ Troubles \in [Scenes -> Nat]

VARIABLES
  scene,    \* the scene of this behaviour
  agent,    \* the provider: turns, tool, detached task, prompt
  log,      \* durable frames of the session; the sequence number is the index
  conn,     \* the stream: up, next frame to read, last one received, buffered ones,
            \* and, of all streams so far, whether a cursor was not served
  pc,       \* where Execute is
  result,   \* outcome of Execute
  ctx,      \* ex.Ctx is cancelled
  turn,     \* turnState
  cursor,   \* lastSeq
  tries,    \* reattempts
  cancel,   \* requestCancel: "no", its next call, or "done"
  ended,    \* terminal tool events that were recorded, by tool call
  troubles  \* how much of the bound is spent

turnVars == <<scene, agent, log, conn, pc, result, ctx, turn, cursor, tries, cancel, ended>>
kvars == <<turnVars, troubles>>
vars == <<qvars, kvars>>

\* Turns of the session: the prompt's, the one that notifies its task, and one
\* that was there before.  Each makes at most one tool call, named by its turn.
Mine == 1
Note == 2
Old == 3
TurnIds == {Mine, Note, Old}

\* The prompt a turn.started frame names: older servers do not echo it, and a
\* turn that notifies a task has none.
PromptOf(t) ==
  CASE t = Mine /\ scene # "silent" -> "ours"
    [] t = Old /\ scene = "older" -> "theirs"
    [] OTHER -> "none"

Trouble == troubles < Troubles[scene] /\ troubles' = troubles + 1

Frame(type, t) == [type |-> type, turn |-> t]
\* turn.ended by its reason, and the frames that settle a question.
EndReasons == [completed |-> "turn.ended:completed", failed |-> "turn.ended:failed",
               cancelled |-> "turn.ended:cancelled"]
Settlements == [answered |-> "question.answered", dismissed |-> "question.dismissed"]
Says(type, t) == log' = Append(log, Frame(type, t))

KInit ==
  /\ DInit
  /\ scene \in Scenes
  /\ agent = [turn |-> IF scene = "older" THEN Old ELSE 0, prompt |-> "none", tool |-> "none",
              task |-> IF scene = "stray" THEN "ended" ELSE "none", abort |-> FALSE,
              over |-> [t \in TurnIds |-> "no"]]
  /\ troubles = 0
  /\ log = <<>> /\ conn = [up |-> FALSE, next |-> 1, last |-> 0, buffered |-> 0, resynced |-> FALSE]
  /\ pc = "session" /\ result = "none" /\ ctx = FALSE /\ cancel = "no"
  /\ turn = [prompt |-> FALSE, active |-> 0, seen |-> FALSE, end |-> "", open |-> {}, results |-> {},
             task |-> FALSE, notif |-> FALSE, gone |-> FALSE, awaiting |-> FALSE]
  /\ cursor = 0 /\ tries = 0 /\ ended = [t \in TurnIds |-> 0]

-----------------------------------------------------------------------------
(* The provider.  Its frames are durable; the stream carries all of them    *)
(* while it is up.                                                          *)

Agent(a) == agent' = a
Quiet == UNCHANGED <<qvars, scene, conn, pc, result, ctx, turn, cursor, tries, cancel, ended, troubles>>

StartTurn ==
  /\ agent.turn = 0 /\ agent.prompt = "queued"
  /\ Agent([agent EXCEPT !.turn = Mine, !.prompt = "taken", !.tool = "none"])
  /\ Says("turn.started", Mine) /\ Quiet

CallTool ==
  /\ scene \in {"tool", "older", "silent"} /\ agent.turn # 0 /\ agent.tool = "none" /\ ~agent.abort
  /\ Agent([agent EXCEPT !.tool = "open"]) /\ Says("tool.started", agent.turn) /\ Quiet

ToolReturns ==
  /\ agent.tool = "open" /\ ~agent.abort
  /\ Agent([agent EXCEPT !.tool = "done"]) /\ Says("tool.result", agent.turn) /\ Quiet

\* The turn of the prompt starts a detached task, which ends by itself.
Detach ==
  /\ scene = "task" /\ agent.turn = Mine /\ agent.task = "none" /\ ~agent.abort
  /\ Agent([agent EXCEPT !.task = "running"]) /\ Says("task.started", Mine) /\ Quiet

TaskEnds ==
  /\ agent.task = "running"
  /\ \/ Agent([agent EXCEPT !.task = "ended"]) /\ Says("task.terminated", 0)
     \/ Agent([agent EXCEPT !.task = "told"]) /\ Says("task.suppressed", 0)
  /\ Quiet

\* The turn under way learns of the end of its task, or waits for it.
ToldInline ==
  /\ agent.task = "ended" /\ agent.turn = Mine /\ ~agent.abort
  /\ Agent([agent EXCEPT !.task = "told"])
  /\ (Says("task.notified", 0) \/ Says("task.waitDelivered", 0))
  /\ Quiet

\* Otherwise a turn of its own is started for it, around its notification. The
\* stray one belongs to a task of an earlier run of the session.
StartNotification ==
  /\ agent.turn = 0 /\ agent.task = "ended"
  /\ LET t == IF scene = "stray" THEN Old ELSE Note
     IN /\ Agent([agent EXCEPT !.turn = t, !.task = "telling", !.tool = "none"])
        /\ \/ log' = log \o <<Frame("task.notified", 0), Frame("turn.started", t)>>
           \/ log' = log \o <<Frame("turn.started", t), Frame("task.notified", 0)>>
  /\ Quiet

\* A turn ends by itself, or because it was aborted; an open question keeps it.
EndTurn ==
  /\ agent.turn # 0
  /\ \E reason \in {"completed", "failed", "cancelled"} :
       /\ agent.abort <=> reason = "cancelled"
       /\ reason = "completed" => kap.st # "open"
       /\ Agent([agent EXCEPT !.turn = 0, !.tool = "none", !.abort = FALSE,
                              !.task = IF @ = "telling" THEN "told" ELSE @,
                              !.over[agent.turn] = reason])
       /\ Says(EndReasons[reason], agent.turn)
  /\ Quiet

KAsks ==
  /\ scene = "question" /\ agent.turn = Mine /\ ~agent.abort /\ Asks
  /\ Says("question.requested", Mine)
  /\ UNCHANGED <<scene, agent, conn, pc, result, ctx, turn, cursor, tries, cancel, ended, troubles>>

\* Whatever settles the question is told on the stream.
KapSays ==
  log' = IF kap'.st # kap.st THEN Append(log, Frame(Settlements[kap'.st], 0)) ELSE log
AtKap(step) ==
  /\ step /\ KapSays
  /\ UNCHANGED <<scene, agent, conn, pc, result, ctx, turn, cursor, tries, cancel, ended, troubles>>

-----------------------------------------------------------------------------
(* The stream *)

\* Frames on their way when the connection breaks are still read, or lost.
Break ==
  /\ conn.up /\ Trouble
  /\ \E last \in {conn.next - 1 + conn.buffered, Len(log)} :
       conn' = [conn EXCEPT !.up = FALSE, !.last = last]
  /\ UNCHANGED <<qvars, scene, agent, log, pc, result, ctx, turn, cursor, tries, cancel, ended>>

Last == IF conn.up THEN Len(log) ELSE conn.last
Readable == conn.next <= Last
LostStream == ~conn.up /\ ~Readable
\* Frames that come before the acknowledgement of a subscription are buffered.
Subscribes(from) ==
  \E n \in 0 .. Len(log) + 1 - from :
    conn' = [conn EXCEPT !.up = TRUE, !.next = from, !.last = 0, !.buffered = n]

-----------------------------------------------------------------------------
(* Execute up to the pump *)

Pumping == pc \in {"restore", "drain", "loop", "reconnect", "cancelling"}
Returns(r) == pc' = "done" /\ result' = r
Intent(r) == IF ctx THEN "cancelled" ELSE r
KeepQ == UNCHANGED <<qvars, scene>>

\* Ensure, resolveSession and openStream.
OpenSession ==
  /\ pc = "session"
  /\ \/ ~ctx /\ pc' = "prompt" /\ UNCHANGED result
        /\ \E from \in 1 .. Len(log) + 1 : Subscribes(from)
     \/ Returns(Intent("failed")) /\ UNCHANGED conn
  /\ KeepQ /\ UNCHANGED <<agent, log, ctx, turn, cursor, tries, cancel, ended, troubles>>

\* submitPrompt: the request reaches the provider, which queues it.
PromptArrives ==
  /\ pc = "prompt" /\ ~ctx /\ agent.prompt = "none"
  /\ Agent([agent EXCEPT !.prompt = "queued"])
  /\ UNCHANGED <<log>> /\ Quiet

AbortTurn == IF agent.turn = 0 THEN agent ELSE [agent EXCEPT !.abort = TRUE]
PromptAnswered ==
  /\ pc = "prompt"
  /\ \/ ~ctx /\ agent.prompt # "none" /\ pc' = "restore"
        /\ turn' = [turn EXCEPT !.prompt = TRUE] /\ UNCHANGED <<result, agent>>
     \/ \* refused, blocked or lost: a cancelled one aborts the session
        /\ Returns(Intent("failed")) /\ UNCHANGED turn
        /\ agent' \in IF ctx THEN {agent, AbortTurn} ELSE {agent}
  /\ KeepQ /\ UNCHANGED <<log, conn, ctx, cursor, tries, cancel, ended, troubles>>

\* restorePendingQuestions: the list may not be had.
Restore ==
  /\ pc = "restore" /\ pc' = "drain"
  /\ IF kap.st = "open" THEN RequestQuestion \/ UNCHANGED qvars ELSE UNCHANGED qvars
  /\ UNCHANGED <<scene, agent, log, conn, result, ctx, turn, cursor, tries, cancel, ended, troubles>>

-----------------------------------------------------------------------------
(* The projection of a frame on the turn *)

MyTurn(t) == turn.seen /\ t = turn.active

\* beginBackgroundNotificationTurn
BeginNotification(t) ==
  [turn EXCEPT !.prompt = FALSE, !.active = t, !.seen = TRUE, !.end = "", !.open = {},
               !.results = {}, !.notif = FALSE, !.awaiting = FALSE]

\* While a task is awaited only the turn that notifies it is taken; otherwise
\* the turn of our prompt or, without a prompt id, the first that is seen.
Claims(t) ==
  \/ PromptOf(t) = "ours" /\ turn.prompt
  \/ PromptOf(t) = "none" /\ ~turn.seen
TurnStarted(t) ==
  CASE turn.awaiting /\ t = Note /\ t # turn.active /\ turn.notif -> BeginNotification(t)
    [] ~turn.awaiting /\ Claims(t) -> [turn EXCEPT !.active = t, !.seen = TRUE]
    [] OTHER -> turn

\* closePendingTools: what has no result is recorded as failed.
TurnEnded(reason) == [turn EXCEPT !.end = reason, !.open = {}, !.seen = FALSE]

ToolStarted(t) == IF t \in turn.results THEN turn ELSE [turn EXCEPT !.open = @ \cup {t}]
\* Mutant: a result that is replayed is recorded again.
FirstResultAny(t) == TRUE
\* The first result of a call is the only one.
FirstResult(t) == t \notin turn.results

TaskStarted == IF turn.gone THEN turn ELSE [turn EXCEPT !.task = TRUE]
TaskTerminated(notify) ==
  IF turn.task /\ ~turn.gone
  THEN [turn EXCEPT !.gone = TRUE, !.task = FALSE, !.notif = notify] ELSE turn
Known == turn.task \/ turn.notif \/ turn.gone
TaskNotified ==
  IF Known THEN [turn EXCEPT !.task = FALSE, !.notif = @ /\ ~(turn.seen /\ ~turn.awaiting)]
  ELSE turn
TaskWaited ==
  IF Known THEN [turn EXCEPT !.task = FALSE, !.notif = FALSE, !.gone = TRUE] ELSE turn

Ends(f) == f.type \in {EndReasons[r] : r \in DOMAIN EndReasons} /\ MyTurn(f.turn)
ReasonOf(f) == CHOOSE r \in DOMAIN EndReasons : EndReasons[r] = f.type

\* handle: what a frame makes of the state of the turn.
Project(f) ==
  CASE f.type = "turn.started" -> TurnStarted(f.turn)
    [] Ends(f) -> TurnEnded(ReasonOf(f))
    [] f.type = "tool.started" /\ MyTurn(f.turn) -> ToolStarted(f.turn)
    [] f.type = "tool.result" /\ MyTurn(f.turn) /\ FirstResult(f.turn) ->
         [turn EXCEPT !.results = @ \cup {f.turn}, !.open = @ \ {f.turn}]
    [] f.type = "task.started" -> TaskStarted
    [] f.type = "task.terminated" -> TaskTerminated(TRUE)
    [] f.type = "task.suppressed" -> TaskTerminated(FALSE)
    [] f.type = "task.notified" -> TaskNotified
    [] f.type = "task.waitDelivered" -> TaskWaited
    [] OTHER -> turn

\* Terminal tool events: results, and the calls a turn leaves open.
Records(f) ==
  {t \in TurnIds :
     \/ f = Frame("tool.result", t) /\ MyTurn(t) /\ FirstResult(t)
     \/ Ends(f) /\ t \in turn.open}

\* Mutant: the id of the provider is known before the row is stored.
QuestionStepMapsFirst(f) ==
  CASE f.type = "question.requested" /\ MyTurn(f.turn) /\ ~mapped ->
         mapped' = TRUE /\ UNCHANGED <<live, question, kap, adapter, accepting, calls, flight, controls, posting>>
    [] f.type = "question.requested" /\ MyTurn(f.turn) -> RequestQuestion
    [] f.type \in {"question.answered", "question.dismissed"} -> ProviderEvent
    [] OTHER -> UNCHANGED qvars
\* What the pump does about the question of a frame.
QuestionStep(f) ==
  CASE f.type = "question.requested" /\ MyTurn(f.turn) -> RequestQuestion
    [] f.type \in {"question.answered", "question.dismissed"} -> ProviderEvent
    [] OTHER -> UNCHANGED qvars

\* Mutant: only a task that still runs keeps the turn.
HoldsRunning(s) == s.end = "completed" /\ ~ctx /\ s.task
\* holdForBackgroundTurn, on the state the frame has left.
Holds(s) == s.end = "completed" /\ ~ctx /\ (s.task \/ s.notif)
Held(s) == [s EXCEPT !.prompt = FALSE, !.awaiting = TRUE]
\* finishAfterBackgroundTurn
Finished(s) == ~ctx /\ s.awaiting /\ ~s.task /\ ~s.notif

\* turnEndResult
EndResult(s) ==
  Intent(CASE s.end = "failed" -> "failed" [] s.end = "cancelled" -> "interrupted"
           [] OTHER -> "succeeded")

\* One frame, and the end of Execute if it was the last one; the control
\* goroutine and the service go on meanwhile.  Once Execute is being cancelled
\* nothing holds it.
HandleFrame ==
  /\ pc \in {"drain", "loop", "cancelling"} /\ accepting = "no" /\ Readable
  /\ pc = "drain" => conn.buffered > 0
  /\ LET f == log[conn.next]
         s == Project(f)
         kept == IF Ends(f) /\ pc # "cancelling" /\ Holds(s) THEN Held(s) ELSE s
         over == (Ends(f) /\ ~kept.awaiting) \/ (pc # "cancelling" /\ Finished(kept))
     IN /\ turn' = kept
        /\ ended' = [t \in TurnIds |-> IF t \in Records(f) THEN ended[t] + 1 ELSE ended[t]]
        /\ QuestionStep(f)
        /\ IF over THEN Returns(EndResult(kept)) ELSE UNCHANGED <<pc, result>>
  /\ conn' = [conn EXCEPT !.next = @ + 1, !.buffered = IF @ = 0 THEN 0 ELSE @ - 1]
  \* what was drained does not move the cursor
  /\ cursor' = IF pc = "loop" THEN conn.next ELSE cursor
  /\ UNCHANGED <<scene, agent, log, ctx, tries, cancel, troubles>>

-----------------------------------------------------------------------------
(* The rest of the pump *)

Stays == UNCHANGED <<qvars, scene, agent, log, ctx, turn, cancel, ended, troubles>>

\* The frames of the handshake are done with.
Drained ==
  /\ pc = "drain" /\ conn.buffered = 0 /\ accepting = "no"
  /\ IF Finished(turn) THEN Returns(EndResult(turn)) ELSE pc' = "loop" /\ UNCHANGED result
  /\ UNCHANGED <<conn, cursor, tries>> /\ Stays

\* The stream is closed and read to its end: three attempts, never reset.
StreamLost ==
  /\ pc = "loop" /\ LostStream /\ accepting = "no"
  /\ IF ctx \/ tries >= 3 THEN Returns(Intent("failed")) /\ UNCHANGED tries
     ELSE pc' = "reconnect" /\ tries' = tries + 1 /\ UNCHANGED result
  /\ UNCHANGED <<conn, cursor>> /\ Stays

\* A provider that cannot serve the cursor says resync_required, which is not
\* looked at: the stream begins with the frames that are still to come.
Resyncs ==
  conn' = [conn EXCEPT !.up = TRUE, !.next = Len(log) + 1, !.last = 0, !.buffered = 0,
                       !.resynced = TRUE]
Reconnect ==
  /\ pc = "reconnect"
  /\ \/ ctx /\ Returns("cancelled") /\ UNCHANGED conn
     \/ pc' = "loop" /\ UNCHANGED <<conn, result>>
     \/ ~ctx /\ pc' = "drain" /\ UNCHANGED result /\ (Subscribes(cursor + 1) \/ Resyncs)
  /\ UNCHANGED <<cursor, tries>> /\ Stays

\* Ten minutes without a frame, whatever the provider or the user is doing.
IdleFires ==
  /\ pc = "loop" /\ conn.up /\ ~Readable /\ accepting = "no"
  /\ Returns("timed_out")
  /\ UNCHANGED <<conn, cursor, tries>> /\ Stays

\* ex.Ctx is done: frames are read for five more seconds at most.
Cancelling ==
  /\ pc = "loop" /\ ctx /\ accepting = "no" /\ pc' = "cancelling"
  /\ UNCHANGED <<result, conn, cursor, tries>> /\ Stays
ForceEnds ==
  /\ pc = "cancelling" /\ accepting = "no" /\ Returns("cancelled")
  /\ UNCHANGED <<conn, cursor, tries>> /\ Stays

-----------------------------------------------------------------------------
(* Cancellation: the user's, and the calls of requestCancel, which either    *)
(* goroutine makes once.  Any of them may be lost; the log says so.          *)

UserCancels ==
  /\ ~ctx /\ pc # "done" /\ Trouble /\ ctx' = TRUE
  /\ UNCHANGED <<qvars, scene, agent, log, conn, pc, result, turn, cursor, tries, cancel, ended>>

Calls(from, to) ==
  /\ cancel = from /\ cancel' = to
  /\ UNCHANGED <<qvars, scene, conn, pc, result, ctx, turn, cursor, tries, ended, troubles>>
RequestCancel ==
  /\ ctx /\ Pumping /\ Calls("no", IF turn.prompt THEN "prompt" ELSE "session")
  /\ UNCHANGED <<agent, log>>
AbortPrompt ==
  /\ Calls("prompt", "tasks") /\ UNCHANGED log
  /\ agent' \in {agent, IF agent.turn = Mine THEN AbortTurn
                       ELSE IF agent.prompt = "queued" THEN [agent EXCEPT !.prompt = "aborted"]
                       ELSE agent}
AbortSession ==
  Calls("session", "tasks") /\ UNCHANGED log /\ agent' \in {agent, AbortTurn}
\* The detached tasks this run has seen start.
CancelTasks ==
  /\ Calls("tasks", "done")
  /\ \/ turn.task /\ agent.task = "running"
        /\ \/ Agent([agent EXCEPT !.task = "ended"]) /\ Says("task.terminated", 0)
           \/ Agent([agent EXCEPT !.task = "told"]) /\ Says("task.suppressed", 0)
     \/ UNCHANGED <<agent, log>>

-----------------------------------------------------------------------------
(* The service and the control goroutine, beside the pump *)

Beside(step) == step /\ UNCHANGED kvars
KTakeControl == Pumping /\ TakeControl
\* recordTerminal, then the run leaves ModuleRunner.active; another writer may
\* end the run before that.
RecordTerminal == pc = "done" /\ Beside(RunEnds)
EndedElsewhere == pc # "done" /\ RunEnds /\ Trouble /\ UNCHANGED turnVars
KAdapterReturns == pc = "done" /\ ~live /\ AdapterReturns

AgentStep ==
  StartTurn \/ CallTool \/ ToolReturns \/ Detach \/ TaskEnds \/ ToldInline
    \/ StartNotification \/ EndTurn \/ KAsks \/ AtKap(SettledElsewhere) \/ Break
PumpStep ==
  OpenSession \/ PromptArrives \/ PromptAnswered \/ Restore \/ HandleFrame \/ Drained
    \/ StreamLost \/ Reconnect \/ IdleFires \/ Cancelling \/ ForceEnds
    \/ Beside(MapQuestion) \/ AtKap(DismissFallback)
CancelStep == RequestCancel \/ AbortPrompt \/ AbortSession \/ CancelTasks
ControlStep == Beside(KTakeControl) \/ AtKap(PostArrives) \/ Beside(Reply)
Settle == RecordTerminal \/ EndedElsewhere \/ Beside(KAdapterReturns)
UserStep ==
  \/ UserCancels \/ Beside(DismissQuestion)
  \/ \E c \in Callers : Beside(Prepare(c)) \/ Beside(Leaves(c))

KNext ==
  AgentStep \/ PumpStep \/ CancelStep \/ ControlStep \/ Settle \/ UserStep
    \/ \E c \in Callers : Beside(Proceeds(c))
KSpec == KInit /\ [][KNext]_vars

\* The goroutines of the control plane run, timers included; the provider, the
\* network and the users owe nothing.
KFairSpec ==
  KSpec /\ WF_vars(PumpStep) /\ WF_vars(ControlStep) /\ \A c \in Callers : WF_vars(Beside(Proceeds(c)))

-----------------------------------------------------------------------------
(* Properties *)

Pcs == {"session", "prompt", "restore", "drain", "loop", "reconnect", "cancelling", "done"}
Results == {"none", "succeeded", "failed", "interrupted", "cancelled", "timed_out"}
Reasons == {"no", "completed", "failed", "cancelled"}

KTypeOK ==
  /\ DTypeOK /\ scene \in Scenes /\ pc \in Pcs /\ result \in Results
  /\ agent.turn \in TurnIds \cup {0} /\ agent.over \in [TurnIds -> Reasons]
  /\ cursor \in 0 .. Len(log) /\ tries \in 0 .. 3
  /\ conn.next \in 1 .. Len(log) + 1 /\ conn.buffered \in 0 .. Len(log)
  /\ turn.open \cup turn.results \subseteq TurnIds

\* A call to a tool ends once in the timeline, replayed and lost frames
\* notwithstanding.  A run that succeeded leaves none without an end: not one it
\* has seen start and, as long as the provider served its cursors, not one there
\* was (toolResults, closePendingTools).
ToolsPaired ==
  /\ \A t \in TurnIds : ended[t] <= 1
  /\ result = "succeeded" =>
       /\ turn.open = {}
       /\ ~conn.resynced =>
            \A t \in TurnIds \ {Old}, i \in DOMAIN log :
              log[i] = Frame("tool.started", t) => ended[t] = 1

\* A run that succeeded knows of no detached task that is still to be told of
\* and, as long as the provider served its cursors, has left none of its own
\* behind: the task is over and its end was told to the model, in a turn that is
\* over as well (holdForBackgroundTurn).  A task of an earlier run holds nothing.
HeldForDetached ==
  result = "succeeded" =>
    /\ ~turn.task /\ ~turn.notif
    /\ ~conn.resynced /\ scene # "stray" => agent.task \in {"none", "told"}

\* A run succeeds on the turn of its own prompt, whatever else runs in the
\* session (kimiapp.go, turn.started and turn.ended).
OwnTurn == result = "succeeded" => agent.over[Mine] = "completed"

\* The adapter and the service together deliver answers as QuestionDelivery says.
ImplementsDelivery == DSpec

\* Execute returns, whatever the provider does or does not do.
ExecuteReturns == <>(pc = "done")
=============================================================================
