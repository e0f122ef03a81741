--------------------------- MODULE QuestionDelivery ---------------------------
(***************************************************************************)
(* One native question of a provider: its durable row, the callers that     *)
(* answer it through the API, the single delivery in flight, the control    *)
(* goroutine that posts the answer to the provider, and the provider's own  *)
(* record, which other clients of the session may settle as well.           *)
(*   application/runs.go, domain/question.go, runtime/module.go,            *)
(*   runtime/adapters/kimiapp/kimiapp.go and wire.go                        *)
(***************************************************************************)
EXTENDS Sequences, Naturals

CONSTANTS
  Callers,     \* calls of the resolve endpoint; a retry is a call of its own
  Responses,   \* the answers a caller may give
  Matches,     \* <<answer, record>>: the answer that was given in the record passes
               \* for the answer; a skipped question, one that is left out and labels
               \* joined alike are not told apart (MatchesProviderAnswers)
  None,        \* no response, no caller
  MaxControls  \* capacity of the control channel (module.go:118)

ASSUME DeliveryAssumption ==
  /\ None \notin Responses /\ None \notin Callers
  /\ Matches \subseteq Responses \X Responses
  /\ MaxControls \in Nat \ {0}

VARIABLES
  live,      \* the run is not terminal
  question,  \* the row: status, prepared or delivered response, provider's answer
  kap,       \* the provider's record of the question, and whether its frames carry it
  adapter,   \* Execute has not returned: the run is in ModuleRunner.active
  mapped,    \* the adapter knows the provider's id of the question
  accepting, \* acceptQuestion, after the row: "map" or "dismiss" is left to do
  calls,     \* ResolveQuestion by caller
  flight,    \* caller that leads the delivery in questionDeliveries, or None
  controls,  \* ControlQuestion messages: their callers
  posting    \* REST call of the control goroutine: its caller and stage

qvars == <<live, question, kap, adapter, mapped, accepting, calls, flight, controls, posting>>

Closed == {"answered", "dismissed", "expired"}
Resp(c) == calls[c].resp
Returned(c) == calls[c].pc \in {"ok", "err"}
Pc(c, p) == calls' = [calls EXCEPT ![c].pc = p]

DInit ==
  /\ live = TRUE /\ adapter = TRUE /\ mapped = FALSE /\ accepting = "no"
  /\ question = [st |-> "none", resp |-> None, provider |-> None]
  /\ kap = [st |-> "none", ans |-> None, told |-> FALSE]
  /\ calls = [c \in Callers |-> [pc |-> "idle", resp |-> None, ack |-> "none"]]
  /\ flight = None /\ controls = <<>>
  /\ posting = [by |-> None, at |-> "idle"]

-----------------------------------------------------------------------------
(* The provider and its other clients *)

Asks ==
  /\ kap.st = "none"
  /\ kap' = [kap EXCEPT !.st = "open"]
  /\ UNCHANGED <<live, question, adapter, mapped, accepting, calls, flight, controls, posting>>

\* The frames of an answer may come without the answers (protocol.go:326).
Takes(r) == \E told \in BOOLEAN : kap' = [st |-> "answered", ans |-> r, told |-> told]

\* Another client of the session, or the provider itself, settles the question.
SettledElsewhere ==
  /\ kap.st = "open"
  /\ \/ \E r \in Responses : Takes(r)
     \/ kap' = [kap EXCEPT !.st = "dismissed"]
  /\ UNCHANGED <<live, question, adapter, mapped, accepting, calls, flight, controls, posting>>

-----------------------------------------------------------------------------
(* The event pump of the adapter *)

\* RequestQuestion, from a frame or from the list of pending questions: a
\* replayed frame finds the row, whatever became of it.  It is refused once the
\* run has ended, and may fail while the run lives.
RequestQuestion ==
  /\ adapter /\ kap.st # "none" /\ accepting = "no"
  /\ \/ /\ live /\ accepting' = "map"
        /\ question' = IF question.st = "none" THEN [question EXCEPT !.st = "pending"] ELSE question
     \/ accepting' = "dismiss" /\ UNCHANGED question
  /\ UNCHANGED <<live, kap, adapter, mapped, calls, flight, controls, posting>>

MapQuestion ==
  /\ accepting = "map"
  /\ mapped' = TRUE /\ accepting' = "no"
  /\ UNCHANGED <<live, question, kap, adapter, calls, flight, controls, posting>>

\* A question that could not be stored is dismissed, if the call gets through.
DismissFallback ==
  /\ accepting = "dismiss"
  /\ accepting' = "no"
  /\ kap' \in {kap, IF kap.st = "open" THEN [kap EXCEPT !.st = "dismissed"] ELSE kap}
  /\ UNCHANGED <<live, question, adapter, mapped, calls, flight, controls, posting>>

\* Mutant: what the provider was answered is not recorded.
MarkUnrecorded ==
  question' = IF question.st = "pending" THEN [question EXCEPT !.st = "answered"] ELSE question
\* question.answered and question.dismissed frames, replayed ones included; a
\* row that is closed another way refuses them (MarkProviderAnswered, Dismiss).
MarkProviderAnswered ==
  question' = IF question.st \in {"pending", "answered"}
              THEN [question EXCEPT !.st = "answered", !.provider = IF kap.told THEN kap.ans ELSE None]
              ELSE question
Dismiss ==
  question' = IF question.st = "pending"
              THEN [question EXCEPT !.st = "dismissed", !.resp = None] ELSE question

\* The transaction of the event may be refused or fail, and then it is dropped.
ProviderEvent ==
  /\ adapter /\ accepting = "no"
  /\ \/ kap.st = "answered" /\ MarkProviderAnswered
     \/ kap.st = "dismissed" /\ Dismiss
     \/ kap.st \in {"answered", "dismissed"} /\ UNCHANGED question
  /\ UNCHANGED <<live, kap, adapter, mapped, accepting, calls, flight, controls, posting>>

-----------------------------------------------------------------------------
(* ResolveQuestion *)

\* Mutant: a replay is compared with the prepared answer only.
ConfirmedUnseen(r) == TRUE
\* MatchesProviderAnswers, or the provider has not said what it was answered.
Confirmed(r) == question.provider = None \/ <<r, question.provider>> \in Matches

\* The first transaction: an answered question is a replay, a pending one keeps
\* the first response that was prepared.
Prepare(c) ==
  /\ calls[c].pc = "idle" /\ question.st # "none"
  /\ \E r \in Responses :
       LET to(p) == calls' = [calls EXCEPT ![c] = [@ EXCEPT !.pc = p, !.resp = r]]
       IN CASE question.st = "answered" ->
                 /\ to(IF question.resp = r /\ Confirmed(r) THEN "ok" ELSE "err")
                 /\ UNCHANGED question
            [] question.st = "pending" /\ live /\ question.resp \in {None, r} ->
                 to("prepared") /\ question' = [question EXCEPT !.resp = r]
            [] OTHER -> to("err") /\ UNCHANGED question
  /\ UNCHANGED <<live, kap, adapter, mapped, accepting, flight, controls, posting>>

\* deliverQuestionSingleflight: lead the delivery, join it, or be refused.
Enter(c) ==
  /\ calls[c].pc = "prepared"
  /\ IF flight = None THEN Pc(c, "leading") /\ flight' = c
     ELSE /\ Pc(c, IF Resp(flight) = Resp(c) THEN "joined" ELSE "err")
          /\ UNCHANGED flight
  /\ UNCHANGED <<live, question, kap, adapter, mapped, accepting, controls, posting>>

\* ModuleRunner.ResolveQuestion: the active run's channel, which may be full.
Send(c) ==
  /\ calls[c].pc = "leading"
  /\ IF adapter /\ Len(controls) < MaxControls
     THEN Pc(c, "waiting") /\ controls' = Append(controls, c)
     ELSE Pc(c, "failing") /\ UNCHANGED controls
  /\ UNCHANGED <<live, question, kap, adapter, mapped, accepting, flight, posting>>

\* Mutant: the callers that joined are not woken.
EndsFlightAlone(c, ok) ==
  flight' = None /\ Pc(c, IF ok THEN "delivered" ELSE "err")
\* The end of a delivery: the entry goes, and who joined has the same result.
EndsFlight(c, ok) ==
  /\ flight' = None
  /\ calls' = [d \in Callers |->
       IF d = c \/ calls[d].pc = "joined"
       THEN [calls[d] EXCEPT !.pc = IF ok THEN "delivered" ELSE "err"] ELSE calls[d]]

\* The acknowledgement of the control goroutine: accepted, already resolved at
\* the provider (the prepared response is kept), or any other error.
Acked(c) ==
  /\ calls[c].pc = "waiting" /\ calls[c].ack # "none"
  /\ IF calls[c].ack = "error" THEN Pc(c, "failing") /\ UNCHANGED flight
     ELSE EndsFlight(c, calls[c].ack = "accepted")
  /\ UNCHANGED <<live, question, kap, adapter, mapped, accepting, controls, posting>>

\* Thirty-five seconds without an acknowledgement are a plain error (module.go:334).
TimesOut(c) ==
  /\ calls[c].pc = "waiting" /\ Pc(c, "failing")
  /\ UNCHANGED <<live, question, kap, adapter, mapped, accepting, flight, controls, posting>>

\* The request is cancelled: the delivery goes on unattended, its answer kept;
\* one that was delivered is not recorded.
Leaves(c) ==
  /\ \/ calls[c].pc = "waiting" /\ EndsFlight(c, FALSE)
     \/ calls[c].pc \in {"joined", "delivered"} /\ Pc(c, "err") /\ UNCHANGED flight
  /\ UNCHANGED <<live, question, kap, adapter, mapped, accepting, controls, posting>>

\* ClearPreparedResponse, then the end of the delivery: two steps, between
\* which another answer may be prepared that the old entry still refuses.
Clear(c) ==
  /\ calls[c].pc = "failing" /\ Pc(c, "cleared")
  /\ question' = IF question.st = "pending" /\ question.resp = Resp(c)
                 THEN [question EXCEPT !.resp = None] ELSE question
  /\ UNCHANGED <<live, kap, adapter, mapped, accepting, flight, controls, posting>>

Refuse(c) ==
  /\ calls[c].pc = "cleared" /\ EndsFlight(c, FALSE)
  /\ UNCHANGED <<live, question, kap, adapter, mapped, accepting, controls, posting>>

\* Mutant: a response is enough to complete the question.
MayCompleteExpired == question.st # "none"
\* CompleteResponse in the last transaction, which does not read the run again.
MayComplete == question.st = "pending"
Complete(c) ==
  /\ calls[c].pc = "delivered"
  /\ CASE question.st = "answered" -> Pc(c, "ok") /\ UNCHANGED question
       [] question.st # "answered" /\ question.resp = Resp(c) /\ MayComplete ->
            Pc(c, "ok") /\ question' = [question EXCEPT !.st = "answered"]
       [] OTHER -> Pc(c, "err") /\ UNCHANGED question
  /\ UNCHANGED <<live, kap, adapter, mapped, accepting, flight, controls, posting>>

\* The user dismisses the question: the provider is not told.
DismissQuestion ==
  /\ live /\ question.st = "pending" /\ Dismiss
  /\ UNCHANGED <<live, kap, adapter, mapped, accepting, calls, flight, controls, posting>>

-----------------------------------------------------------------------------
(* The control goroutine *)

TakeControl ==
  /\ adapter /\ posting.at = "idle" /\ controls # <<>>
  /\ controls' = Tail(controls)
  /\ IF mapped
     THEN posting' = [by |-> Head(controls), at |-> "sent"] /\ UNCHANGED calls
     ELSE calls' = [calls EXCEPT ![Head(controls)].ack = "error"] /\ UNCHANGED posting
  /\ UNCHANGED <<live, question, kap, adapter, mapped, accepting, flight>>

\* The provider takes the first answer; the call itself may fail on its way.
KapAnswers(r) ==
  IF kap.st = "open" THEN Takes(r) ELSE UNCHANGED kap
PostArrives ==
  /\ posting.at = "sent"
  /\ \/ KapAnswers(Resp(posting.by))
        /\ posting' = [posting EXCEPT !.at = IF kap.st = "open" THEN "accepted" ELSE "resolved"]
     \/ posting' = [posting EXCEPT !.at = "lost"] /\ UNCHANGED kap
  /\ UNCHANGED <<live, question, adapter, mapped, accepting, calls, flight, controls>>

\* The reply, which may be lost after the provider accepted: kapError hides
\* what became of it. The id is forgotten once the answer is acknowledged.
Reply ==
  /\ posting.at \in {"accepted", "resolved", "lost"}
  /\ posting' = [by |-> None, at |-> "idle"]
  /\ \E ack \in {posting.at, "error"} \ {"lost"} :
       /\ calls' = [calls EXCEPT ![posting.by].ack = ack]
       /\ mapped' = (mapped /\ ack # "accepted")
  /\ UNCHANGED <<live, question, kap, adapter, accepting, flight, controls>>

-----------------------------------------------------------------------------
(* The run *)

\* Execute returns: nothing reads the channel any more.
AdapterReturns ==
  /\ adapter /\ accepting = "no" /\ adapter' = FALSE
  /\ UNCHANGED <<live, question, kap, mapped, accepting, calls, flight, controls, posting>>

\* expireRunPendingQuestions: in the transaction of the terminal status.
Expires == question' = IF question.st = "pending" THEN [question EXCEPT !.st = "expired"] ELSE question
RunEnds ==
  /\ live /\ live' = FALSE /\ Expires
  /\ UNCHANGED <<kap, adapter, mapped, accepting, calls, flight, controls, posting>>

\* What a call does by itself, its time-out included.
Proceeds(c) ==
  Enter(c) \/ Send(c) \/ Acked(c) \/ TimesOut(c) \/ Clear(c) \/ Refuse(c) \/ Complete(c)
CallStep(c) == Prepare(c) \/ Leaves(c) \/ Proceeds(c)
ServiceStep ==
  (\E c \in Callers : CallStep(c)) \/ DismissQuestion \/ RunEnds \/ SettledElsewhere
    \/ PostArrives \/ Reply
AdapterStep ==
  RequestQuestion \/ MapQuestion \/ DismissFallback \/ ProviderEvent \/ TakeControl \/ AdapterReturns

DNext == Asks \/ ServiceStep \/ AdapterStep
DSpec == DInit /\ [][DNext]_qvars

\* The goroutine of each request runs; provider, network, users, adapter owe nothing.
DFairSpec == DSpec /\ \A c \in Callers : WF_qvars(Proceeds(c))

-----------------------------------------------------------------------------
(* Properties *)

CallPcs == {"idle", "prepared", "leading", "joined", "waiting", "failing", "cleared",
            "delivered", "ok", "err"}
Maybe == Responses \cup {None}

DTypeOK ==
  /\ {live, adapter, mapped} \subseteq BOOLEAN
  /\ question \in [st : {"none", "pending"} \cup Closed, resp : Maybe, provider : Maybe]
  /\ kap \in [st : {"none", "open", "answered", "dismissed"}, ans : Maybe, told : BOOLEAN]
  /\ accepting \in {"no", "map", "dismiss"}
  /\ calls \in [Callers -> [pc : CallPcs, resp : Maybe,
                            ack : {"none", "accepted", "resolved", "error"}]]
  /\ flight \in Callers \cup {None}
  /\ controls \in Seq(Callers)
  /\ posting \in [by : Callers \cup {None}, at : {"idle", "sent", "accepted", "resolved", "lost"}]

\* A caller that is told its answer was taken was told the truth as far as the
\* provider says what it took: the provider was given that answer, by this call,
\* by one it joined or by an earlier one, or one MatchesProviderAnswers does not
\* tell from it, by another client before a retry.
Passes(r) == kap.ans = r \/ <<r, kap.ans>> \in Matches
ToldTruly ==
  \A c \in Callers :
    calls[c].pc = "ok" => kap.st = "answered" /\ (kap.told => Passes(Resp(c)))

\* A row that says answered shows what the provider was answered: the answer the
\* provider reported or, without a report, the one that was delivered; only a
\* provider whose frames leave the answer out can have taken another.
AnsweredTruly ==
  question.st = "answered" =>
    /\ kap.st = "answered"
    /\ kap.told => kap.ans = IF question.provider # None THEN question.provider ELSE question.resp

\* A closed question stays as it was closed, though a delivery may be under way
\* while the run ends or the user dismisses it (CompleteResponse).
ClosedStays == [][question.st \in Closed => question'.st = question.st]_question

\* The prepared answer survives a delivery whose outcome is unknown
\* (runs.go:2207-2209): no other answer is prepared once one was accepted.
PreparedSurvives ==
  [][kap.st = "answered" /\ question.st = "pending" /\ question.resp = kap.ans
       => question'.resp = kap.ans]_question

\* A call that prepared an answer returns, one that joined another's delivery
\* included, whatever the provider, the adapter and the run do
\* (deliverQuestionSingleflight).
CallReturns == \A c \in Callers : (calls[c].pc = "prepared") ~> Returned(c)
=============================================================================
