---------------------------- MODULE QuestionProofs ----------------------------
(***************************************************************************)
(* What a caller is told of its answer, proved for any callers and         *)
(* answers; that the Kimi adapter and the service together deliver answers *)
(* as QuestionDelivery says, so that what is proved of it holds of them;   *)
(* and what a turn of Kimi that succeeded leaves behind it: no tool call   *)
(* without an end and no detached task that was not told of.               *)
(***************************************************************************)
EXTENDS KimiTurn, SequenceTheorems, TLAPS

Answered(r) == kap.st = "answered" /\ kap.ans = r
Leads == {"leading", "waiting", "failing", "cleared"}

\* Whatever mentions a call, mentions one that has prepared an answer.
Began ==
  /\ \A c \in Callers :
       IF calls[c].pc = "idle" THEN calls[c].ack = "none" ELSE Resp(c) \in Responses
  /\ \A i \in DOMAIN controls : calls[controls[i]].pc # "idle"
  /\ posting.at # "idle" => posting.by \in Callers /\ calls[posting.by].pc # "idle"

\* One call leads the delivery, and those that joined it gave the same answer.
OneLeads ==
  /\ flight # None => calls[flight].pc \in Leads
  /\ \A c \in Callers :
       /\ calls[c].pc \in Leads => flight = c
       /\ calls[c].pc = "joined" => flight # None /\ Resp(flight) = Resp(c)

\* An acceptance, wherever it has got to, is the provider's; who was told ok
\* without one was confirmed by a record that passes for its answer.
AcceptedTruly ==
  /\ posting.at = "accepted" => Answered(Resp(posting.by))
  /\ \A c \in Callers :
       calls[c].ack = "accepted" \/ calls[c].pc = "delivered" => Answered(Resp(c))
  /\ ToldTruly

\* The provider's record, and what the row has of it.
RecordKept ==
  /\ kap.st = "answered" => kap.ans \in Responses
  /\ question.provider # None => Answered(question.provider)

QInv == DTypeOK /\ Began /\ OneLeads /\ AcceptedTruly /\ RecordKept /\ AnsweredTruly

Call == [pc : CallPcs, resp : Maybe, ack : {"none", "accepted", "resolved", "error"}]
\* What moving a call leaves alone.
Moved(c, p) ==
  /\ calls' \in [Callers -> Call]
  /\ \A d \in Callers :
       /\ calls'[d].pc = IF d = c THEN p ELSE calls[d].pc
       /\ calls'[d].resp = calls[d].resp /\ calls'[d].ack = calls[d].ack

\* A step that moves a call moves no other and keeps what it prepared.
LEMMA PcMoves ==
  ASSUME DTypeOK, NEW c \in Callers, NEW p \in CallPcs, Pc(c, p)
  PROVE  Moved(c, p)
BY DEF DTypeOK, Pc, Moved, Call

\* The end of a delivery answers its leader and whoever joined it.
LEMMA FlightEnds ==
  ASSUME DTypeOK, NEW c \in Callers, NEW ok \in BOOLEAN, EndsFlight(c, ok)
  PROVE  /\ calls' \in [Callers -> Call] /\ flight' = None
         /\ \A d \in Callers :
              /\ calls'[d].pc = IF d = c \/ calls[d].pc = "joined"
                                THEN IF ok THEN "delivered" ELSE "err" ELSE calls[d].pc
              /\ calls'[d].resp = calls[d].resp /\ calls'[d].ack = calls[d].ack
<1> DEFINE p == IF ok THEN "delivered" ELSE "err"
<1>1. calls' = [d \in Callers |->
         IF d = c \/ calls[d].pc = "joined" THEN [calls[d] EXCEPT !.pc = p] ELSE calls[d]]
  BY DEF EndsFlight
<1>2. p \in CallPcs  BY DEF CallPcs
<1>3. \A d \in Callers : calls[d] \in Call /\ [calls[d] EXCEPT !.pc = p] \in Call
  BY <1>2 DEF DTypeOK, Call
<1>4. calls' \in [Callers -> Call]  BY <1>1, <1>3
<1>5. \A d \in Callers :
        /\ calls'[d].pc = IF d = c \/ calls[d].pc = "joined" THEN p ELSE calls[d].pc
        /\ calls'[d].resp = calls[d].resp /\ calls'[d].ack = calls[d].ack
  BY <1>1, <1>3 DEF Call
<1> QED  BY <1>4, <1>5 DEF EndsFlight

-----------------------------------------------------------------------------
(* The provider, its event pump, the user and the run *)

\* A step that touches no call keeps whatever is said of the calls, unless it
\* takes back an answer of the provider.
LEMMA ElsewhereKeeps ==
  ASSUME QInv, DTypeOK', RecordKept', AnsweredTruly',
         UNCHANGED <<calls, flight, controls, posting>>,
         kap.st = "answered" => UNCHANGED kap
  PROVE  QInv'
<1>1. Began' /\ OneLeads'  BY DEF QInv, Began, OneLeads, Resp
<1>2. AcceptedTruly'  BY DEF QInv, AcceptedTruly, ToldTruly, Passes, Answered, Resp
<1> QED  BY <1>1, <1>2 DEF QInv

\* Questions, answers and dismissals of the provider reach the row in any order
\* and any number of times, and no answer is misrepresented by it.
LEMMA OutsideKeeps ==
  ASSUME DeliveryAssumption, QInv,
         \/ Asks \/ SettledElsewhere \/ RequestQuestion \/ MapQuestion \/ DismissFallback
         \/ ProviderEvent \/ DismissQuestion \/ AdapterReturns \/ RunEnds
  PROVE  QInv'
<1>1. UNCHANGED <<calls, flight, controls, posting>> /\ (kap.st = "answered" => UNCHANGED kap)
  BY DEF Asks, SettledElsewhere, RequestQuestion, MapQuestion, DismissFallback, ProviderEvent,
         DismissQuestion, AdapterReturns, RunEnds
<1>2. /\ live' \in BOOLEAN /\ adapter' \in BOOLEAN /\ mapped' \in BOOLEAN
      /\ accepting' \in {"no", "map", "dismiss"}
  BY DEF QInv, DTypeOK, Asks, SettledElsewhere, RequestQuestion, MapQuestion, DismissFallback,
         ProviderEvent, DismissQuestion, AdapterReturns, RunEnds
<1>3. /\ kap' \in [st : {"none", "open", "answered", "dismissed"}, ans : Maybe, told : BOOLEAN]
      /\ kap'.st = "answered" => kap'.ans \in Responses
  BY DEF Takes, QInv, DTypeOK, RecordKept, Maybe, Asks, SettledElsewhere, RequestQuestion, MapQuestion,
         DismissFallback, ProviderEvent, DismissQuestion, AdapterReturns, RunEnds
<1>4. \/ question' = question
      \/ /\ kap.st = "answered" /\ question.st \in {"pending", "answered"}
         /\ question' = [question EXCEPT !.st = "answered", !.provider = IF kap.told THEN kap.ans ELSE None]
      \/ /\ question.st \in {"none", "pending"}
         /\ \/ \E st \in {"pending", "expired"} : question' = [question EXCEPT !.st = st]
            \/ question' = [question EXCEPT !.st = "dismissed", !.resp = None]
  BY ZenonT(40) DEF QInv, DTypeOK, Asks, SettledElsewhere, RequestQuestion, MapQuestion, DismissFallback, ProviderEvent,
         MarkProviderAnswered, Dismiss, DismissQuestion, AdapterReturns, RunEnds, Expires
<1>5. /\ question' \in [st : {"none", "pending"} \cup Closed, resp : Maybe, provider : Maybe]
      /\ question'.provider # None => question'.provider = question.provider \/ (kap.st = "answered" /\ question'.provider = kap.ans)
      /\ question'.st = "answered" =>
           \/ UNCHANGED question
           \/ kap.st = "answered" /\ (kap.told => question'.provider = kap.ans)
  BY <1>4 DEF QInv, DTypeOK, Closed, Maybe
<1>6. DTypeOK'  BY <1>1, <1>2, <1>3, <1>5 DEF QInv, DTypeOK
<1>7. RecordKept'  BY <1>1, <1>3, <1>5 DEF QInv, RecordKept, Answered
<1>8. AnsweredTruly'
  BY <1>1, <1>5 DEF QInv, AnsweredTruly, RecordKept, DeliveryAssumption
<1> QED  BY <1>1, <1>6, <1>7, <1>8, ElsewhereKeeps

-----------------------------------------------------------------------------
(* ResolveQuestion *)

\* Only a caller whose answer is already the row's is told at once that it was
\* taken; any other starts with nothing delivered in its name.
LEMMA PrepareKeeps == ASSUME DeliveryAssumption, QInv, NEW c \in Callers, Prepare(c) PROVE QInv'
<1>1. PICK r \in Responses :
        \E p \in {"ok", "err", "prepared"} :
          /\ calls' = [calls EXCEPT ![c] = [@ EXCEPT !.pc = p, !.resp = r]]
          /\ p = "ok" => question.st = "answered" /\ question.resp = r /\ Confirmed(r)
          /\ \/ UNCHANGED question
             \/ question.st = "pending" /\ question' = [question EXCEPT !.resp = r]
  <2>1. PICK r \in Responses :
          LET to(p) == calls' = [calls EXCEPT ![c] = [@ EXCEPT !.pc = p, !.resp = r]]
          IN CASE question.st = "answered" ->
                    /\ to(IF question.resp = r /\ Confirmed(r) THEN "ok" ELSE "err")
                    /\ UNCHANGED question
               [] question.st = "pending" /\ live /\ question.resp \in {None, r} ->
                    to("prepared") /\ question' = [question EXCEPT !.resp = r]
               [] OTHER -> to("err") /\ UNCHANGED question
    BY DEF Prepare
  <2>2. CASE question.st = "answered"  BY <2>1, <2>2
  <2>3. CASE question.st # "answered" /\ question.st = "pending" /\ live /\ question.resp \in {None, r}
    BY <2>1, <2>3
  <2>4. CASE question.st # "answered" /\ ~(question.st = "pending" /\ live /\ question.resp \in {None, r})
    BY <2>1, <2>4
  <2> QED  BY <2>2, <2>3, <2>4
<1>2. PICK p \in {"ok", "err", "prepared"} :
        /\ calls' = [calls EXCEPT ![c] = [@ EXCEPT !.pc = p, !.resp = r]]
        /\ p = "ok" => question.st = "answered" /\ question.resp = r /\ Confirmed(r)
        /\ \/ UNCHANGED question
           \/ question.st = "pending" /\ question' = [question EXCEPT !.resp = r]
  BY <1>1
<1>3. /\ calls[c].pc = "idle"
      /\ UNCHANGED <<live, kap, adapter, mapped, accepting, flight, controls, posting>>
  BY DEF Prepare
<1>4. /\ calls' \in [Callers -> Call]
      /\ calls'[c] = [pc |-> p, resp |-> r, ack |-> calls[c].ack]
      /\ \A d \in Callers : d # c => calls'[d] = calls[d]
  BY <1>2, ZenonT(40) DEF QInv, DTypeOK, Call, CallPcs, Maybe
<1>5. flight # c /\ calls[c].ack = "none"  BY <1>3 DEF QInv, OneLeads, Leads, Began, DTypeOK
<1>6. DTypeOK'
  BY <1>2, <1>3, <1>4 DEF QInv, DTypeOK, Call, Maybe
<1>7. Began'
  <2>1. \A d \in Callers :
          IF calls'[d].pc = "idle" THEN calls'[d].ack = "none" ELSE calls'[d].resp \in Responses
    BY <1>4 DEF QInv, Began, Resp
  <2>2. \A d \in Callers : calls[d].pc # "idle" => calls'[d].pc # "idle"  BY <1>3, <1>4
  <2>3. \A i \in DOMAIN controls : controls[i] \in Callers
    BY ElementOfSeq DEF QInv, DTypeOK
  <2> QED  BY <2>1, <2>2, <2>3, <1>3 DEF QInv, Began, Resp
<1>8. OneLeads'
  <2>1. p \notin Leads /\ p # "joined" /\ calls'[c].pc = p  BY <1>4 DEF Leads
  <2>2. flight' # None => calls'[flight].pc \in Leads
    BY <1>3, <1>4, <1>5 DEF QInv, OneLeads, DTypeOK
  <2>3. ASSUME NEW d \in Callers
        PROVE  /\ calls'[d].pc \in Leads => flight = d
               /\ calls'[d].pc = "joined" => flight # None /\ calls'[flight].resp = calls'[d].resp
    <3>1. CASE d = c  BY <3>1, <2>1
    <3>2. CASE d # c
      <4>1. calls'[d] = calls[d]  BY <1>4, <3>2
      <4>2. calls[d].pc = "joined" => flight \in Callers /\ calls'[flight] = calls[flight]
        BY <1>4, <1>5 DEF QInv, OneLeads, DTypeOK
      <4> QED  BY <4>1, <4>2 DEF QInv, OneLeads, Resp
    <3> QED  BY <3>1, <3>2
  <2> QED  BY <2>2, <2>3, <1>3 DEF OneLeads, Resp
<1>9. AcceptedTruly'
  <2>1. p = "ok" => kap.st = "answered" /\ (kap.told => Passes(r))
    BY <1>2 DEF QInv, AnsweredTruly, Confirmed, Passes, DTypeOK
  <2>2. posting.at = "accepted" => posting.by \in Callers /\ posting.by # c
    BY <1>3 DEF QInv, Began
  <2>3. ToldTruly'
    BY <2>1, <1>3, <1>4 DEF QInv, AcceptedTruly, ToldTruly, Passes, Resp
  <2> QED  BY <2>2, <2>3, <1>2, <1>3, <1>4, <1>5 DEF QInv, AcceptedTruly, Answered, Resp
<1>10. RecordKept'
  BY <1>2, <1>3 DEF QInv, RecordKept, Answered, DTypeOK
<1>11. AnsweredTruly'
  BY <1>2, <1>3 DEF QInv, AnsweredTruly, DTypeOK
<1> QED  BY <1>6, <1>7, <1>8, <1>9, <1>10, <1>11 DEF QInv

\* The call of one request: it may move, end the flight and touch the prepared
\* answer, but neither the provider nor the control goroutine.
CallMoves ==
  /\ UNCHANGED <<live, kap, adapter, mapped, accepting, posting>>
  /\ calls' \in [Callers -> Call]
  /\ \A d \in Callers :
       /\ calls'[d].resp = calls[d].resp /\ calls'[d].ack = calls[d].ack
       /\ calls[d].pc = "idle" <=> calls'[d].pc = "idle"
       /\ calls'[d].pc \in {"delivered", "ok"} =>
            Answered(Resp(d)) \/ (calls[d].pc = "ok" /\ calls'[d].pc = "ok")

LEMMA CallMovesKeep ==
  ASSUME QInv, CallMoves, OneLeads', AnsweredTruly', flight' \in Callers \cup {None},
         question' \in [st : {"none", "pending"} \cup Closed, resp : Maybe, provider : Maybe],
         question'.provider = question.provider, controls' \in Seq(Callers),
         \A i \in DOMAIN controls' : calls[controls'[i]].pc # "idle"
  PROVE  QInv'
<1>1. DTypeOK'  BY DEF QInv, DTypeOK, CallMoves, Call
<1>2. Began'
  <2>1. \A i \in DOMAIN controls' : controls'[i] \in Callers  BY ElementOfSeq
  <2> QED  BY <2>1 DEF QInv, Began, CallMoves, Resp
<1>3. AcceptedTruly'  BY DEF QInv, AcceptedTruly, ToldTruly, Passes, Began, CallMoves, Answered, Resp
<1>4. RecordKept'  BY DEF QInv, RecordKept, CallMoves, Answered
<1> QED  BY <1>1, <1>2, <1>3, <1>4 DEF QInv

\* A call that goes on without the flight being ended.
LEMMA PcKeeps ==
  ASSUME QInv, NEW c \in Callers, NEW p \in CallPcs \ {"idle"}, Pc(c, p), calls[c].pc # "idle",
         p \in {"delivered", "ok"} => Answered(Resp(c)),
         UNCHANGED <<live, kap, adapter, mapped, accepting, posting>>
  PROVE  CallMoves /\ Moved(c, p)
<1>1. Moved(c, p)  BY PcMoves DEF QInv
<1> QED  BY <1>1 DEF CallMoves, Moved, QInv, AcceptedTruly

LEMMA ControlsBegan ==
  ASSUME QInv
  PROVE  controls \in Seq(Callers) /\ \A i \in DOMAIN controls : calls[controls[i]].pc # "idle"
BY DEF QInv, DTypeOK, Began

LEMMA RowTyped ==
  ASSUME QInv
  PROVE  /\ question \in [st : {"none", "pending"} \cup Closed, resp : Maybe, provider : Maybe]
         /\ flight \in Callers \cup {None}
BY DEF QInv, DTypeOK

\* The end of a flight, with the provider's acceptance or without.
LEMMA EndKeeps ==
  ASSUME QInv, NEW c \in Callers, NEW ok \in BOOLEAN, EndsFlight(c, ok),
         calls[c].pc \in Leads, ok => Answered(Resp(c)),
         UNCHANGED <<live, question, kap, adapter, mapped, accepting, controls, posting>>
  PROVE  QInv'
<1>1. flight = c /\ \A d \in Callers : calls[d].pc = "joined" => Resp(d) = Resp(c)
  BY DEF QInv, OneLeads
<1>2. \A d \in Callers : calls'[d].pc \notin Leads \cup {"joined"}
  BY <1>1, FlightEnds DEF QInv, OneLeads, Leads
<1>3. CallMoves  BY <1>1, FlightEnds DEF CallMoves, QInv, AcceptedTruly, Leads
<1>4. OneLeads'  BY <1>2, FlightEnds DEF OneLeads, QInv
<1>5. AnsweredTruly'  BY DEF QInv, AnsweredTruly
<1>6. flight' = None  BY FlightEnds DEF QInv
<1> QED  BY <1>3, <1>4, <1>5, <1>6, CallMovesKeep, ControlsBegan, RowTyped

\* A call leads the delivery only when there is none, joins only the delivery
\* of its own answer, and is refused otherwise.
LEMMA EnterKeeps == ASSUME DeliveryAssumption, QInv, NEW c \in Callers, Enter(c) PROVE QInv'
<1>1. PICK p \in {"leading", "joined", "err"} : Pc(c, p)
  BY DEF Enter
<1>2. CallMoves /\ Moved(c, p)  BY <1>1, PcKeeps DEF Enter, CallPcs
<1>3. calls[c].pc = "prepared"  BY DEF Enter
<1>4. OneLeads' /\ flight' \in Callers \cup {None}
  <2>1. CASE flight = None
    <3>1. Moved(c, "leading") /\ flight' = c
      BY <2>1, PcMoves DEF Enter, QInv, CallPcs
    <3> QED  BY <2>1, <3>1 DEF QInv, OneLeads, Leads, Moved, Resp, DeliveryAssumption
  <2>2. CASE flight # None
    <3>1. flight' = flight /\ Moved(c, IF Resp(flight) = Resp(c) THEN "joined" ELSE "err")
      BY <2>2, PcMoves DEF Enter, QInv, CallPcs
    <3>2. flight # c  BY <1>3 DEF QInv, OneLeads, Leads, DTypeOK
    <3> QED  BY <2>2, <3>1, <3>2, <1>3, RowTyped DEF QInv, OneLeads, Leads, Moved, Resp
  <2> QED  BY <2>1, <2>2
<1>5. AnsweredTruly' /\ UNCHANGED <<question, controls>>  BY DEF Enter, QInv, AnsweredTruly
<1> QED  BY <1>2, <1>4, <1>5, CallMovesKeep, ControlsBegan, RowTyped

\* A leader that waits, fails or clears leads still.
LEMMA LeadsStill ==
  ASSUME QInv, NEW c \in Callers, NEW p \in Leads, calls[c].pc \in Leads, Moved(c, p),
         UNCHANGED flight
  PROVE  OneLeads'
BY RowTyped DEF QInv, OneLeads, Leads, Moved, Resp

LEMMA SendKeeps == ASSUME QInv, NEW c \in Callers, Send(c) PROVE QInv'
<1>1. PICK p \in {"waiting", "failing"} : Pc(c, p)  BY DEF Send
<1>2. CallMoves /\ Moved(c, p)  BY <1>1, PcKeeps DEF Send, CallPcs
<1>3. OneLeads' /\ flight' \in Callers \cup {None}
  BY <1>2, LeadsStill, RowTyped DEF Send, Leads
<1>4. controls' \in Seq(Callers) /\ \A i \in DOMAIN controls' : calls[controls'[i]].pc # "idle"
  <2>1. controls' \in {controls, Append(controls, c)} /\ calls[c].pc # "idle"  BY DEF Send
  <2> QED  BY <2>1, AppendProperties, ControlsBegan
<1>5. AnsweredTruly' /\ UNCHANGED question  BY DEF Send, QInv, AnsweredTruly
<1> QED  BY <1>2, <1>3, <1>4, <1>5, CallMovesKeep, RowTyped

LEMMA AckedKeeps == ASSUME QInv, NEW c \in Callers, Acked(c) PROVE QInv'
<1>1. CASE calls[c].ack = "error"
  <2>1. CallMoves /\ Moved(c, "failing")  BY <1>1, PcKeeps DEF Acked, CallPcs
  <2>2. OneLeads'  BY <1>1, <2>1, LeadsStill DEF Acked, Leads
  <2>3. AnsweredTruly' /\ UNCHANGED <<question, controls, flight>>
    BY <1>1 DEF Acked, QInv, AnsweredTruly
  <2> QED  BY <2>1, <2>2, <2>3, CallMovesKeep, ControlsBegan, RowTyped
<1>2. CASE calls[c].ack # "error"
  <2>1. calls[c].ack = "accepted" => Answered(Resp(c))  BY DEF QInv, AcceptedTruly
  <2> QED  BY <1>2, <2>1, EndKeeps DEF Acked, Leads
<1> QED  BY <1>1, <1>2

LEMMA TimesOutKeeps == ASSUME QInv, NEW c \in Callers, TimesOut(c) PROVE QInv'
<1>1. CallMoves /\ Moved(c, "failing")  BY PcKeeps DEF TimesOut, CallPcs
<1>2. OneLeads'  BY <1>1, LeadsStill DEF TimesOut, Leads
<1>3. AnsweredTruly' /\ UNCHANGED <<question, controls, flight>>  BY DEF TimesOut, QInv, AnsweredTruly
<1> QED  BY <1>1, <1>2, <1>3, CallMovesKeep, ControlsBegan, RowTyped

LEMMA LeavesKeeps == ASSUME DeliveryAssumption, QInv, NEW c \in Callers, Leaves(c) PROVE QInv'
<1>1. CASE calls[c].pc = "waiting" /\ EndsFlight(c, FALSE)  BY <1>1, EndKeeps DEF Leaves, Leads
<1>2. CASE calls[c].pc \in {"joined", "delivered"} /\ Pc(c, "err") /\ UNCHANGED flight
  <2>1. CallMoves /\ Moved(c, "err")  BY <1>2, PcKeeps DEF Leaves, CallPcs
  <2>2. flight # c  BY <1>2 DEF QInv, OneLeads, Leads, DeliveryAssumption
  <2>3. OneLeads'  BY <1>2, <2>1, <2>2, RowTyped DEF QInv, OneLeads, Leads, Moved, Resp
  <2>4. AnsweredTruly' /\ UNCHANGED <<question, controls>>  BY DEF Leaves, QInv, AnsweredTruly
  <2> QED  BY <1>2, <2>1, <2>3, <2>4, CallMovesKeep, ControlsBegan, RowTyped
<1> QED  BY <1>1, <1>2 DEF Leaves

LEMMA ClearKeeps == ASSUME QInv, NEW c \in Callers, Clear(c) PROVE QInv'
<1>1. CallMoves /\ Moved(c, "cleared")  BY PcKeeps DEF Clear, CallPcs
<1>2. OneLeads'  BY <1>1, LeadsStill DEF Clear, Leads
<1>3. /\ question' \in [st : {"none", "pending"} \cup Closed, resp : Maybe, provider : Maybe]
      /\ question'.provider = question.provider
      /\ question'.st = "answered" => UNCHANGED question
  BY RowTyped DEF Clear, Maybe
<1>4. UNCHANGED <<kap, controls, flight>>  BY DEF Clear
<1>5. AnsweredTruly'  BY <1>3, <1>4 DEF QInv, AnsweredTruly
<1> QED  BY <1>1, <1>2, <1>3, <1>4, <1>5, CallMovesKeep, ControlsBegan, RowTyped

LEMMA RefuseKeeps == ASSUME QInv, NEW c \in Callers, Refuse(c) PROVE QInv'
BY EndKeeps DEF Refuse, Leads

\* The last transaction completes the row with the answer that was delivered.
LEMMA CompleteKeeps == ASSUME DeliveryAssumption, QInv, NEW c \in Callers, Complete(c) PROVE QInv'
<1>1. PICK p \in {"ok", "err"} : Pc(c, p)  BY DEF Complete
<1>2. Answered(Resp(c))  BY DEF QInv, AcceptedTruly, Complete
<1>3. CallMoves /\ Moved(c, p)  BY <1>1, <1>2, PcKeeps DEF Complete, CallPcs
<1>4. UNCHANGED <<kap, controls, flight>> /\ calls[c].pc = "delivered"  BY DEF Complete
<1>5. OneLeads'
  <2>1. flight # c  BY <1>4 DEF QInv, OneLeads, Leads, DeliveryAssumption
  <2> QED  BY <1>3, <1>4, <2>1, RowTyped DEF QInv, OneLeads, Leads, Moved, Resp
<1>6. \/ UNCHANGED question
      \/ question.resp = Resp(c) /\ question' = [question EXCEPT !.st = "answered"]
  BY DEF Complete
<1>7. /\ question' \in [st : {"none", "pending"} \cup Closed, resp : Maybe, provider : Maybe]
      /\ question'.provider = question.provider
  BY <1>6, RowTyped DEF Closed
<1>8. AnsweredTruly'
  BY <1>2, <1>4, <1>6, RowTyped DEF QInv, AnsweredTruly, RecordKept, Answered
<1> QED  BY <1>3, <1>4, <1>5, <1>7, <1>8, CallMovesKeep, ControlsBegan, RowTyped

-----------------------------------------------------------------------------
(* The control goroutine *)

\* What is posted is the oldest control, whose caller has prepared an answer.
LEMMA TakeControlKeeps == ASSUME DeliveryAssumption, QInv, TakeControl PROVE QInv'
<1> DEFINE h == Head(controls)
<1>h. /\ h \in Callers /\ h = controls[1] /\ Tail(controls) \in Seq(Callers)
      /\ 1 \in DOMAIN controls
      /\ \A i \in DOMAIN Tail(controls) : i + 1 \in DOMAIN controls /\ Tail(controls)[i] = controls[i + 1]
  BY HeadTailProperties DEF QInv, DTypeOK, TakeControl
<1>c. /\ calls' \in [Callers -> [pc : CallPcs, resp : Maybe, ack : {"none", "accepted", "resolved", "error"}]]
      /\ \A c \in Callers : /\ calls'[c].pc = calls[c].pc /\ calls'[c].resp = calls[c].resp
                            /\ calls'[c].ack \in {calls[c].ack, "error"}
                            /\ c # h => calls'[c] = calls[c]
  <2>1. CASE mapped  BY <2>1 DEF QInv, DTypeOK, TakeControl
  <2>2. CASE ~mapped
    <3>1. calls' = [calls EXCEPT ![h].ack = "error"]  BY <2>2 DEF TakeControl
    <3> QED  BY <1>h, <3>1 DEF QInv, DTypeOK
  <2> QED  BY <2>1, <2>2
<1>p. posting' \in {posting, [by |-> h, at |-> "sent"]} /\ controls' = Tail(controls)
  BY DEF TakeControl
<1>u. UNCHANGED <<live, question, kap, adapter, mapped, accepting, flight>>  BY DEF TakeControl
<1> HIDE DEF h
<1>1. DTypeOK'  BY <1>h, <1>c, <1>p, <1>u DEF QInv, DTypeOK
<1>2. Began'
  <2>1. calls[h].pc # "idle"  BY <1>h DEF QInv, Began
  <2>2. \A c \in Callers : IF calls'[c].pc = "idle" THEN calls'[c].ack = "none"
                           ELSE calls'[c].resp \in Responses
    BY <2>1, <1>c DEF QInv, Began, Resp
  <2>3. \A i \in DOMAIN controls' : controls'[i] \in Callers /\ calls[controls'[i]].pc # "idle"
    BY <1>h, <1>p, ElementOfSeq DEF QInv, DTypeOK, Began
  <2>4. posting'.at # "idle" => posting'.by \in Callers /\ calls[posting'.by].pc # "idle"
    BY <2>1, <1>h, <1>p DEF QInv, Began
  <2> QED  BY <2>2, <2>3, <2>4, <1>c DEF Began, Resp
<1>3. OneLeads'
  BY <1>c, <1>u, SMTT(30) DEF QInv, OneLeads, Leads, Resp, DTypeOK
<1>4. AcceptedTruly'
  <2>1. ToldTruly'  BY <1>c, <1>u DEF QInv, AcceptedTruly, ToldTruly, Passes, Resp
  <2> QED  BY <2>1, <1>c, <1>u, <1>p DEF QInv, AcceptedTruly, Answered, Resp, Began
<1>5. RecordKept'  BY <1>u DEF QInv, RecordKept, Answered
<1>6. AnsweredTruly'  BY <1>u DEF QInv, AnsweredTruly
<1> QED  BY <1>1, <1>2, <1>3, <1>4, <1>5, <1>6 DEF QInv

\* The provider takes the first answer, and the goroutine knows which one it was.
LEMMA PostArrivesKeeps == ASSUME QInv, PostArrives PROVE QInv'
<1>1. posting.by \in Callers /\ Resp(posting.by) \in Responses
  BY DEF QInv, Began, PostArrives
<1>2. \E at \in {"accepted", "resolved", "lost"} :
        /\ posting' = [posting EXCEPT !.at = at]
        /\ at = "accepted" => Answered(Resp(posting.by))'
  BY <1>1 DEF QInv, DTypeOK, PostArrives, KapAnswers, Takes, Answered, Resp
<1>3. /\ posting' \in [by : Callers \cup {None}, at : {"idle", "sent", "accepted", "resolved", "lost"}]
      /\ posting'.by = posting.by
      /\ posting'.at = "accepted" => Answered(Resp(posting.by))'
  BY <1>2 DEF QInv, DTypeOK
<1>4. /\ kap' \in [st : {"none", "open", "answered", "dismissed"}, ans : Maybe, told : BOOLEAN]
      /\ kap'.st = "answered" => kap'.ans \in Responses
      /\ kap.st = "answered" => UNCHANGED kap
  BY <1>1 DEF QInv, DTypeOK, RecordKept, PostArrives, KapAnswers, Takes, Maybe
<1>5. UNCHANGED <<live, question, adapter, mapped, accepting, calls, flight, controls>>
  BY DEF PostArrives
<1>6. DTypeOK'  BY <1>3, <1>4, <1>5 DEF QInv, DTypeOK
<1>7. Began'  BY <1>1, <1>3, <1>5 DEF QInv, Began, Resp, PostArrives
<1>8. OneLeads'  BY <1>5 DEF QInv, OneLeads, Resp
<1>9. AcceptedTruly'
  BY <1>3, <1>4, <1>5 DEF QInv, AcceptedTruly, ToldTruly, Passes, Answered, Resp
<1>10. RecordKept' /\ AnsweredTruly'
  BY <1>4, <1>5 DEF QInv, RecordKept, AnsweredTruly, Answered
<1> QED  BY <1>6, <1>7, <1>8, <1>9, <1>10 DEF QInv

\* An acceptance that reaches the caller is one the provider gave.
LEMMA ReplyKeeps == ASSUME DeliveryAssumption, QInv, Reply PROVE QInv'
<1>1. PICK ack \in {posting.at, "error"} \ {"lost"} :
        /\ calls' = [calls EXCEPT ![posting.by].ack = ack]
        /\ mapped' = (mapped /\ ack # "accepted")
  BY DEF Reply
<1>2. /\ posting' = [by |-> None, at |-> "idle"]
      /\ UNCHANGED <<live, question, kap, adapter, accepting, flight, controls>>
      /\ posting.at \in {"accepted", "resolved", "lost"}
  BY DEF Reply
<1>3. ack \in {"accepted", "resolved", "error"} /\ mapped' \in BOOLEAN
  BY <1>1, <1>2 DEF QInv, DTypeOK
<1>4. posting.by \in Callers /\ calls[posting.by].pc # "idle"  BY <1>2 DEF QInv, Began
<1>5. ack = "accepted" => Answered(Resp(posting.by))  BY <1>1 DEF QInv, AcceptedTruly
<1>6. /\ calls' \in [Callers -> Call]
      /\ \A c \in Callers :
           /\ calls'[c].pc = calls[c].pc /\ calls'[c].resp = calls[c].resp
           /\ calls'[c].ack = IF c = posting.by THEN ack ELSE calls[c].ack
  <2>1. calls \in [Callers -> Call]  BY DEF QInv, DTypeOK, Call
  <2>2. \A c \in Callers : /\ [calls[c] EXCEPT !.ack = ack] \in Call
                          /\ [calls[c] EXCEPT !.ack = ack].ack = ack
                          /\ [calls[c] EXCEPT !.ack = ack].pc = calls[c].pc
                          /\ [calls[c] EXCEPT !.ack = ack].resp = calls[c].resp
    BY <2>1, <1>3 DEF Call
  <2> HIDE DEF Call
  <2> QED  BY <2>1, <2>2, <1>1, <1>4
<1>7. DTypeOK'  BY <1>2, <1>3, <1>6 DEF QInv, DTypeOK, Call
<1>8. Began'
  <2>1. \A i \in DOMAIN controls : controls[i] \in Callers  BY ElementOfSeq DEF QInv, DTypeOK
  <2> QED  BY <2>1, <1>2, <1>4, <1>6 DEF QInv, Began, Resp
<1>9. OneLeads'  BY <1>2, <1>6, RowTyped DEF QInv, OneLeads, Resp
<1>10. AcceptedTruly'
  BY <1>2, <1>5, <1>6 DEF QInv, AcceptedTruly, ToldTruly, Passes, Answered, Resp
<1>11. RecordKept' /\ AnsweredTruly'  BY <1>2 DEF QInv, RecordKept, AnsweredTruly, Answered
<1> QED  BY <1>7, <1>8, <1>9, <1>10, <1>11 DEF QInv

-----------------------------------------------------------------------------
LEMMA InitTruthful == ASSUME DeliveryAssumption, DInit PROVE QInv
<1>1. DTypeOK
  <2>1. controls \in Seq(Callers)  BY DEF DInit
  <2>2. calls \in [Callers -> [pc : CallPcs, resp : Maybe, ack : {"none", "accepted", "resolved", "error"}]]
    BY DEF DInit, CallPcs, Maybe
  <2>3. question \in [st : {"none", "pending"} \cup Closed, resp : Maybe, provider : Maybe]
    BY DEF DInit, Maybe
  <2> QED  BY <2>1, <2>2, <2>3 DEF DInit, DTypeOK, Maybe
<1>2. Began /\ OneLeads /\ AcceptedTruly  BY DEF DInit, Began, OneLeads, AcceptedTruly, ToldTruly, Leads
<1>3. RecordKept /\ AnsweredTruly  BY DEF DInit, RecordKept, AnsweredTruly
<1> QED  BY <1>1, <1>2, <1>3 DEF QInv

LEMMA NextTruthful == ASSUME DeliveryAssumption, QInv, [DNext]_qvars PROVE QInv'
<1>1. CASE Asks \/ SettledElsewhere \/ RequestQuestion \/ MapQuestion \/ DismissFallback
             \/ ProviderEvent \/ DismissQuestion \/ AdapterReturns \/ RunEnds
  BY <1>1, OutsideKeeps
<1>2. CASE \E c \in Callers : CallStep(c)
  <2>1. PICK c \in Callers : CallStep(c)  BY <1>2
  <2>2. CASE Prepare(c)  BY <2>2, PrepareKeeps
  <2>3. CASE Leaves(c)  BY <2>3, LeavesKeeps
  <2>4. CASE Enter(c)  BY <2>4, EnterKeeps
  <2>5. CASE Send(c)  BY <2>5, SendKeeps
  <2>6. CASE Acked(c)  BY <2>6, AckedKeeps
  <2>7. CASE TimesOut(c)  BY <2>7, TimesOutKeeps
  <2>8. CASE Clear(c)  BY <2>8, ClearKeeps
  <2>9. CASE Refuse(c)  BY <2>9, RefuseKeeps
  <2>10. CASE Complete(c)  BY <2>10, CompleteKeeps
  <2> QED
    BY <2>1, <2>2, <2>3, <2>4, <2>5, <2>6, <2>7, <2>8, <2>9, <2>10 DEF CallStep, Proceeds
<1>3. CASE TakeControl  BY <1>3, TakeControlKeeps
<1>4. CASE PostArrives  BY <1>4, PostArrivesKeeps
<1>5. CASE Reply  BY <1>5, ReplyKeeps
<1>6. CASE UNCHANGED qvars
  BY <1>6 DEF qvars, QInv, DTypeOK, Began, OneLeads, AcceptedTruly, ToldTruly, Passes, RecordKept,
              AnsweredTruly, Answered, Resp
<1> QED
  BY <1>1, <1>2, <1>3, <1>4, <1>5, <1>6 DEF DNext, ServiceStep, AdapterStep

\* Whatever the callers, the provider's other clients, the network and the run
\* do, the state is one the declarations above describe (ResolveQuestion,
\* deliverQuestionSingleflight, the control loop of kimiapp.go).
THEOREM DeliveryInvariant == DSpec => []QInv
<1>1. DInit => QInv  BY InitTruthful, DeliveryAssumption
<1>2. QInv /\ [DNext]_qvars => QInv'  BY NextTruthful, DeliveryAssumption
<1> QED  BY <1>1, <1>2, PTL DEF DSpec

\* A caller that is told its answer was taken was told the truth (the replay
\* and the completion of ResolveQuestion): the provider was given that answer or
\* one MatchesProviderAnswers does not tell from it, if it says what it was given.
THEOREM TellsTruly == DSpec => []ToldTruly
<1>1. QInv => ToldTruly  BY DEF QInv, AcceptedTruly
<1> QED  BY <1>1, DeliveryInvariant, PTL

\* The row shows what the provider was answered (MarkProviderAnswered,
\* CompleteResponse).
THEOREM ShowsTruly == DSpec => []AnsweredTruly
<1>1. QInv => AnsweredTruly  BY DEF QInv
<1> QED  BY <1>1, DeliveryInvariant, PTL

\* No step reopens a closed question or closes it another way.
LEMMA ClosedStep ==
  ASSUME QInv, [DNext]_qvars, question.st \in Closed
  PROVE  question'.st = question.st
<1> USE RowTyped DEF Closed
<1>1. CASE DismissFallback \/ Asks \/ SettledElsewhere \/ MapQuestion \/ AdapterReturns
             \/ TakeControl \/ PostArrives \/ Reply \/ UNCHANGED qvars
  BY <1>1 DEF DismissFallback, Asks, SettledElsewhere, MapQuestion, AdapterReturns, TakeControl,
              PostArrives, Reply, qvars
<1>2. CASE RequestQuestion \/ DismissQuestion \/ RunEnds
  BY <1>2 DEF RequestQuestion, DismissQuestion, Dismiss, RunEnds, Expires
<1>4. CASE ProviderEvent
  <2>1. question \in [st : {"none", "pending"} \cup Closed, resp : Maybe, provider : Maybe]
    BY DEF QInv, DTypeOK
  <2>2. \A x : [question EXCEPT !.st = "answered", !.provider = x].st = "answered"  BY <2>1
  <2>3. CASE MarkProviderAnswered  BY <2>2, <2>3 DEF MarkProviderAnswered
  <2>4. CASE Dismiss  BY <2>4 DEF Dismiss
  <2>5. CASE UNCHANGED question  BY <2>5
  <2> QED  BY <1>4, <2>3, <2>4, <2>5 DEF ProviderEvent
<1>3. CASE \E c \in Callers : CallStep(c)
  <2>1. PICK c \in Callers : CallStep(c)  BY <1>3
  <2>2. CASE Prepare(c)  BY <2>2 DEF Prepare
  <2>3. CASE Clear(c)  BY <2>3 DEF Clear
  <2>4. CASE Complete(c)  BY <2>4 DEF Complete, MayComplete
  <2>5. CASE Leaves(c) \/ Enter(c) \/ Send(c) \/ Acked(c) \/ TimesOut(c) \/ Refuse(c)
    BY <2>5 DEF Leaves, Enter, Send, Acked, TimesOut, Refuse
  <2> QED  BY <2>1, <2>2, <2>3, <2>4, <2>5 DEF CallStep, Proceeds
<1> QED  BY <1>1, <1>2, <1>3, <1>4 DEF DNext, ServiceStep, AdapterStep

\* A closed question stays as it was closed while a delivery is under way
\* (CompleteResponse, expireRunPendingQuestions, DismissQuestion).
THEOREM ClosedForGood == DSpec => ClosedStays
<1>1. QInv /\ [DNext]_qvars => [question.st \in Closed => question'.st = question.st]_question
  BY ClosedStep
<1> QED  BY <1>1, DeliveryInvariant, PTL DEF DSpec, ClosedStays

-----------------------------------------------------------------------------
(* The Kimi adapter *)

\* The provider's agent settles or asks a question, or leaves it alone.
LEMMA AgentMaps == ASSUME AgentStep PROVE DNext \/ UNCHANGED qvars
<1>1. CASE KAsks  BY <1>1 DEF KAsks, DNext
<1>2. CASE AtKap(SettledElsewhere)  BY <1>2 DEF AtKap, DNext, ServiceStep
<1>3. CASE Break  BY <1>3 DEF Break, qvars
<1>4. CASE StartTurn \/ CallTool \/ ToolReturns \/ Detach \/ TaskEnds \/ ToldInline
             \/ StartNotification \/ EndTurn
  <2>1. Quiet
    BY <1>4 DEF StartTurn, CallTool, ToolReturns, Detach, TaskEnds, ToldInline,
                StartNotification, EndTurn
  <2> QED  BY <2>1 DEF Quiet, qvars
<1> QED  BY <1>1, <1>2, <1>3, <1>4 DEF AgentStep

\* A frame reaches the question only while the adapter is in Execute.
LEMMA FrameMaps == ASSUME NEW f, QuestionStep(f) PROVE DNext \/ UNCHANGED qvars
<1>1. CASE f.type = "question.requested" /\ MyTurn(f.turn)
  BY <1>1 DEF QuestionStep, DNext, AdapterStep
<1>2. CASE f.type \in {"question.answered", "question.dismissed"} /\ f.type # "question.requested"
  BY <1>2 DEF QuestionStep, DNext, AdapterStep
<1>3. CASE /\ ~(f.type = "question.requested" /\ MyTurn(f.turn))
           /\ f.type \notin {"question.answered", "question.dismissed"}
  BY <1>3 DEF QuestionStep
<1> QED  BY <1>1, <1>2, <1>3 DEF QuestionStep

LEMMA PumpMaps == ASSUME PumpStep PROVE DNext \/ UNCHANGED qvars
<1>1. CASE Restore  BY <1>1 DEF Restore, DNext, AdapterStep
<1>2. CASE HandleFrame
  <2>1. QuestionStep(log[conn.next])  BY <1>2 DEF HandleFrame
  <2> QED  BY <2>1, FrameMaps
<1>3. CASE Beside(MapQuestion)  BY <1>3 DEF Beside, DNext, AdapterStep
<1>4. CASE AtKap(DismissFallback)  BY <1>4 DEF AtKap, DNext, AdapterStep
<1>5. CASE OpenSession \/ PromptAnswered \/ PromptArrives
  BY <1>5 DEF OpenSession, PromptAnswered, PromptArrives, KeepQ, Quiet, qvars
<1>6. CASE Drained \/ StreamLost \/ Reconnect \/ IdleFires \/ Cancelling \/ ForceEnds
  <2>1. Stays
    BY <1>6 DEF Drained, StreamLost, Reconnect, IdleFires, Cancelling, ForceEnds
  <2> QED  BY <2>1 DEF Stays, qvars
<1> QED  BY <1>1, <1>2, <1>3, <1>4, <1>5, <1>6 DEF PumpStep

\* Cancellation by REST does not touch the question: the provider dismisses it.
LEMMA CancelMaps == ASSUME CancelStep PROVE UNCHANGED qvars
BY DEF CancelStep, RequestCancel, AbortPrompt, AbortSession, CancelTasks, Calls, qvars

LEMMA BesideMaps ==
  ASSUME ControlStep \/ Settle \/ UserStep \/ \E c \in Callers : Beside(Proceeds(c))
  PROVE  DNext \/ UNCHANGED qvars
<1>1. CASE ControlStep
  BY <1>1 DEF ControlStep, KTakeControl, Beside, AtKap, DNext, ServiceStep, AdapterStep
<1>2. CASE Settle
  BY <1>2 DEF Settle, RecordTerminal, EndedElsewhere, KAdapterReturns, Beside, DNext,
              ServiceStep, AdapterStep
<1>3. CASE UserStep
  BY <1>3 DEF UserStep, UserCancels, Beside, DNext, ServiceStep, CallStep, qvars
<1>4. CASE \E c \in Callers : Beside(Proceeds(c))
  BY <1>4 DEF Beside, DNext, ServiceStep, CallStep
<1> QED  BY <1>1, <1>2, <1>3, <1>4

LEMMA StepMaps == ASSUME [KNext]_vars PROVE [DNext]_qvars
<1>1. CASE KNext
  BY <1>1, AgentMaps, PumpMaps, CancelMaps, BesideMaps DEF KNext
<1>2. CASE UNCHANGED vars  BY <1>2 DEF vars, qvars
<1> QED  BY <1>1, <1>2

\* Every step of the adapter, the stream, the control goroutine and the service
\* is a step of the delivery or leaves the question alone (kimiapp.go, Execute
\* and pump; runs.go, ResolveQuestion).
THEOREM TurnDelivers == KSpec => ImplementsDelivery
<1>1. KInit => DInit  BY DEF KInit
<1>2. [KNext]_vars => [DNext]_qvars  BY StepMaps
<1> QED  BY <1>1, <1>2, PTL DEF KSpec, ImplementsDelivery, DSpec

\* So a caller that is told its answer was taken was told the truth in a turn
\* of Kimi, whatever becomes of the stream, the prompt and the run.
COROLLARY TurnTellsTruly == KSpec => [](ToldTruly /\ AnsweredTruly) /\ ClosedStays
BY TurnDelivers, TellsTruly, ShowsTruly, ClosedForGood, PTL DEF ImplementsDelivery

-----------------------------------------------------------------------------
(* What a turn of Kimi leaves behind.  The invariant says what the provider  *)
(* can have written to the log, and what the pump has made of the part of it *)
(* that it has read, which it may read again after a reconnection.           *)

ToolScenes == {"tool", "older", "silent"}
EndTypes == {"turn.ended:completed", "turn.ended:failed", "turn.ended:cancelled"}
TaskTypes == {"task.started", "task.terminated", "task.suppressed", "task.notified", "task.waitDelivered"}
ToolTypes == {"tool.started", "tool.result"}
Frames ==
  [type : {"turn.started", "question.requested", "question.answered", "question.dismissed"}
            \cup EndTypes \cup TaskTypes \cup ToolTypes,
   turn : TurnIds \cup {0}]
Agents ==
  [turn : TurnIds \cup {0}, prompt : {"none", "queued", "taken", "aborted"},
   tool : {"none", "open", "done"}, task : {"none", "running", "ended", "telling", "told"},
   abort : BOOLEAN, over : [TurnIds -> Reasons]]
Turns ==
  [prompt : BOOLEAN, active : TurnIds \cup {0}, seen : BOOLEAN, end : Reasons \cup {""},
   open : SUBSET (TurnIds \cup {0}), results : SUBSET (TurnIds \cup {0}), task : BOOLEAN, notif : BOOLEAN,
   gone : BOOLEAN, awaiting : BOOLEAN]

Conns == [up : BOOLEAN, next : Nat, last : Nat, buffered : Nat, resynced : BOOLEAN]
USE DEF Conns

Shapes ==
  /\ scene \in Scenes /\ agent \in Agents /\ log \in Seq(Frames) /\ turn \in Turns
  /\ conn \in Conns
  /\ ended \in [TurnIds -> Nat] /\ pc \in Pcs /\ ctx \in BOOLEAN /\ cursor \in Nat
  /\ pc # "done" => result = "none"
  /\ pc = "cancelling" => ctx
  /\ agent.tool = "open" => scene \in ToolScenes
  /\ scene # "question" => kap.st = "none"
  /\ scene \in ToolScenes \cup {"question"} => agent.task = "none"

\* What is read lies in the log, and the cursor behind what is read next.
Within ==
  /\ conn.next \in 1 .. Len(log) + 1 /\ cursor < conn.next
  /\ conn.next + conn.buffered <= Len(log) + 1 /\ conn.last <= Len(log)
  /\ pc = "session" => cursor = 0

Earlier(i, type) == \E j \in 1 .. i - 1 : log[j].type = type
EndAt(i, t) == log[i].type \in EndTypes /\ log[i].turn = t
Wrote(f) == \E i \in 1 .. Len(log) : log[i] = f
StartFrame == Frame("turn.started", Mine)
CallFrame == Frame("tool.started", Mine)

\* The turn of the prompt happens once.
Session ==
  /\ agent.turn = Mine => agent.prompt = "taken" /\ agent.over[Mine] = "no"
  /\ agent.prompt # "taken" => agent.over[Mine] = "no"
  /\ pc = "session" => agent.prompt = "none"
  /\ agent.over[Mine] # "no" => \E i \in 1 .. Len(log) : EndAt(i, Mine)

ToolFrame(i) ==
  /\ log[i].type \notin TaskTypes /\ log[i].turn # Note
  /\ log[i].turn = Mine => agent.prompt = "taken"
  /\ log[i].type = "turn.started" => log[i].turn = Mine
  /\ log[i] = CallFrame => \E j \in 1 .. i - 1 : log[j] = StartFrame
  /\ EndAt(i, Mine) =>
       agent.over[Mine] # "no" /\ \A j \in i .. Len(log) : log[j] # CallFrame
ToolAgent == agent.turn # Note /\ (agent.turn = Mine => Wrote(StartFrame))
ToolLog ==
  scene \in ToolScenes => ToolAgent /\ \A i \in 1 .. Len(log) : ToolFrame(i)

TaskFrame(i) ==
  /\ log[i].turn # Old /\ log[i].type \notin ToolTypes
  /\ log[i] = StartFrame <=> i = 1
  /\ log[i].type \in {"task.terminated", "task.suppressed"} => Earlier(i, "task.started")
  /\ log[i].type \in {"task.notified", "task.waitDelivered"} => Earlier(i, "task.terminated")
  /\ log[i].type \in {"task.suppressed", "task.waitDelivered"} \/ EndAt(i, Note) => agent.task = "told"
  /\ log[i].type = "task.notified" => agent.task = "told" \/ \E j \in 1 .. i - 1 : EndAt(j, Mine)
  /\ EndAt(i, Mine) =>
       agent.over[Mine] # "no" /\ \A j \in i .. Len(log) : log[j].type # "task.started"
TaskAgent ==
  /\ agent.turn # Old
  /\ agent.prompt # "taken" <=> log = <<>>
  /\ agent.task = "none" \/ agent.turn = Mine \/ agent.over[Mine] # "no"
  /\ agent.turn = Note <=> agent.task = "telling"
  /\ agent.task # "none" => Earlier(Len(log) + 1, "task.started")
  /\ agent.task = "ended" => Earlier(Len(log) + 1, "task.terminated")
TaskLog ==
  scene = "task" => TaskAgent /\ \A i \in 1 .. Len(log) : TaskFrame(i)

\* What the pump has made of the frames it has read.
ToolTurn ==
  scene \in ToolScenes =>
    /\ ~turn.awaiting /\ ~turn.task /\ ~turn.notif /\ ~turn.gone
    /\ Pumping => turn.prompt
    /\ turn.seen => turn.active = Mine
    /\ turn.open \cap turn.results = {} /\ turn.open \cup turn.results \subseteq {Mine}
    /\ pc # "done" =>
         /\ ~conn.resynced =>
              \A i \in 1 .. conn.next - 1 :
                /\ log[i] = StartFrame => turn.seen
                /\ log[i] = CallFrame => Mine \in turn.open \cup turn.results
         /\ \A t \in TurnIds : ended[t] = IF t \in turn.results THEN 1 ELSE 0
    /\ result = "succeeded" =>
         /\ agent.over[Mine] # "no" /\ turn.open = {}
         /\ ~conn.resynced /\ Wrote(CallFrame) => ended[Mine] = 1
    /\ \A t \in TurnIds : ended[t] <= 1

Toolless ==
  scene \notin ToolScenes =>
    /\ turn.open = {} /\ turn.results = {} /\ \A t \in TurnIds : ended[t] = 0
    /\ \A i \in 1 .. Len(log) : log[i].type \notin ToolTypes

\* As long as the provider serves every cursor, no frame is lost, and there are
\* three states of a turn with a detached task: the prompt's turn, what
\* comes after it, and the turn that notifies the task.
ByPrompt ==
  /\ ~turn.awaiting /\ (Pumping => turn.prompt)
  /\ IF turn.seen THEN turn.active = Mine /\ \A i \in 1 .. conn.next - 1 : ~EndAt(i, Mine)
     ELSE conn.next = 1 /\ ~turn.task /\ ~turn.gone
Awaits == turn.awaiting /\ ~turn.seen /\ turn.active = Mine /\ (turn.task \/ turn.gone)
Tells ==
  /\ turn.seen /\ turn.active = Note /\ ~turn.awaiting /\ turn.gone /\ ~turn.notif
  /\ ~turn.prompt /\ Pumping

TaskTurn ==
  scene = "task" /\ pc # "done" /\ ~conn.resynced =>
    /\ ByPrompt \/ Awaits \/ Tells
    /\ turn.task => ~turn.gone
    /\ turn.notif => turn.gone
    /\ Earlier(conn.next, "task.started") => turn.task \/ turn.gone
    /\ Earlier(conn.next, "task.terminated") \/ Earlier(conn.next, "task.suppressed") => turn.gone
    /\ turn.gone /\ ~turn.notif => Tells \/ agent.task = "told"

Succeeds ==
  result = "succeeded" /\ scene = "task" /\ ~conn.resynced =>
    agent.task = "told" \/ (agent.task = "none" /\ agent.over[Mine] # "no")
Settled == result = "succeeded" => ~turn.task /\ ~turn.notif

LogInv == Session /\ ToolLog /\ TaskLog
TurnInv == ToolTurn /\ Toolless /\ TaskTurn /\ Succeeds /\ Settled
KInv == Shapes /\ Within /\ LogInv /\ TurnInv

-----------------------------------------------------------------------------
\* A frame is put behind those that are there.
LEMMA Written ==
  ASSUME log \in Seq(Frames), NEW f \in Frames, log' = Append(log, f)
  PROVE  /\ log' \in Seq(Frames) /\ Len(log') = Len(log) + 1 /\ log'[Len(log) + 1] = f
         /\ \A i \in 1 .. Len(log) : log'[i] = log[i]
BY AppendProperties

\* What the provider has done stays done; frames are only added.
Onward ==
  /\ Len(log') \in Nat /\ Len(log') >= Len(log) /\ \A i \in 1 .. Len(log) : log'[i] = log[i]
  /\ agent.prompt = "taken" => agent'.prompt = "taken"
  /\ agent.task = "told" => agent'.task = "told"
  /\ agent.over[Mine] # "no" =>
       /\ agent'.over[Mine] # "no" /\ (agent.task = "none" => agent'.task = "none")
       /\ \A i \in Len(log) + 1 .. Len(log') : log'[i] # CallFrame /\ log'[i].type # "task.started"

PumpVars == <<scene, conn, pc, result, ctx, turn, cursor, ended>>

LEMMA OnwardTools ==
  ASSUME Shapes, Within, ToolTurn, Onward, UNCHANGED PumpVars
  PROVE  ToolTurn'
<1> SUFFICES ASSUME scene \in ToolScenes PROVE ToolTurn'  BY DEF ToolTurn, PumpVars
<1>1. Len(log) \in Nat /\ conn.next \in 1 .. Len(log) + 1  BY DEF Shapes, Within
<1>2. \A i \in 1 .. conn.next - 1 : log'[i] = log[i]  BY <1>1 DEF Onward
<1>3. agent.over[Mine] # "no" => (Wrote(CallFrame)' => Wrote(CallFrame))
  BY <1>1 DEF Onward, Wrote, CallFrame, Frame
<1> QED  BY <1>1, <1>2, <1>3 DEF ToolTurn, Onward, PumpVars, Pumping, StartFrame, CallFrame, Frame

LEMMA OnwardTask ==
  ASSUME Shapes, Within, TaskTurn, Onward, UNCHANGED PumpVars
  PROVE  TaskTurn'
<1>1. Len(log) \in Nat /\ conn.next \in 1 .. Len(log) + 1  BY DEF Shapes, Within
<1>2. \A i \in 1 .. conn.next - 1 : log'[i] = log[i]  BY <1>1 DEF Onward
<1>3. ByPrompt' <=> ByPrompt  BY <1>2 DEF ByPrompt, PumpVars, Pumping, EndAt
<1>4. (Awaits' <=> Awaits) /\ (Tells' <=> Tells)  BY DEF Awaits, Tells, PumpVars, Pumping
<1>5. \A type : Earlier(conn.next, type)' <=> Earlier(conn.next, type)
  BY <1>1, <1>2 DEF Earlier, PumpVars
<1> QED  BY <1>3, <1>4, <1>5 DEF TaskTurn, Onward, PumpVars

\* What the provider does leaves what is known of the pump true.
LEMMA OnwardKeeps ==
  ASSUME Shapes, Within, TurnInv, Onward, UNCHANGED PumpVars
  PROVE  Within' /\ ToolTurn' /\ TaskTurn' /\ Succeeds' /\ Settled'
<1>1. Within'  BY DEF Shapes, Within, Onward, PumpVars
<1>2. Succeeds' /\ Settled'  BY DEF TurnInv, Succeeds, Settled, Onward, PumpVars
<1> QED  BY <1>1, <1>2, OnwardTools, OnwardTask DEF TurnInv

LEMMA ToolFramesKept ==
  ASSUME Shapes, ToolLog, scene \in ToolScenes, Onward
  PROVE  \A i \in 1 .. Len(log) : ToolFrame(i)'
<1> SUFFICES ASSUME NEW i \in 1 .. Len(log) PROVE ToolFrame(i)'  OBVIOUS
<1>1. Len(log) \in Nat /\ ToolFrame(i)  BY DEF Shapes, ToolLog
<1>2. \A j \in 1 .. i : log'[j] = log[j]  BY <1>1 DEF Onward
<1>3. EndAt(i, Mine)' =>
        agent'.over[Mine] # "no" /\ \A j \in i .. Len(log') : log'[j] # CallFrame
  BY <1>1, <1>2 DEF ToolFrame, EndAt, Onward
<1> QED  BY <1>1, <1>2, <1>3 DEF ToolFrame, EndAt, Onward, StartFrame, CallFrame, Frame

LEMMA TaskFramesKept ==
  ASSUME Shapes, TaskLog, scene = "task", Onward
  PROVE  \A i \in 1 .. Len(log) : TaskFrame(i)'
<1> SUFFICES ASSUME NEW i \in 1 .. Len(log) PROVE TaskFrame(i)'  OBVIOUS
<1>1. Len(log) \in Nat /\ TaskFrame(i)  BY DEF Shapes, TaskLog
<1>2. \A j \in 1 .. i : log'[j] = log[j]  BY <1>1 DEF Onward
<1>3. EndAt(i, Mine)' =>
        agent'.over[Mine] # "no" /\ \A j \in i .. Len(log') : log'[j].type # "task.started"
  BY <1>1, <1>2 DEF TaskFrame, EndAt, Onward
<1>4. \A type : Earlier(i, type)' <=> Earlier(i, type)  BY <1>2 DEF Earlier
<1>5. (\E j \in 1 .. i - 1 : EndAt(j, Mine))' <=> \E j \in 1 .. i - 1 : EndAt(j, Mine)
  BY <1>2 DEF EndAt
<1> QED  BY <1>1, <1>2, <1>3, <1>4, <1>5 DEF TaskFrame, EndAt, Onward, StartFrame, Frame

\* A step of the provider, and what it has to show.
ProviderStep == Shapes' /\ LogInv' /\ Toolless' /\ Onward /\ UNCHANGED PumpVars

\* A step that writes one frame.
LEMMA FrameStep ==
  ASSUME KInv, Shapes', Session', UNCHANGED PumpVars,
         NEW n \in Nat, n = Len(log) + 1, NEW f \in Frames, log' = Append(log, f),
         agent.prompt = "taken" => agent'.prompt = "taken",
         agent.task = "told" => agent'.task = "told",
         agent.over[Mine] # "no" =>
           /\ agent'.over[Mine] # "no" /\ (agent.task = "none" => agent'.task = "none")
           /\ f # CallFrame /\ f.type # "task.started",
         scene \notin ToolScenes => f.type \notin ToolTypes,
         scene \in ToolScenes => ToolAgent' /\ ToolFrame(n)',
         scene = "task" => TaskAgent' /\ TaskFrame(n)'
  PROVE  ProviderStep
<1>1. /\ Shapes /\ log' \in Seq(Frames) /\ Len(log') = n /\ log'[n] = f
      /\ \A i \in 1 .. Len(log) : log'[i] = log[i]
  BY Written DEF KInv, Shapes
<1>2. Onward  BY <1>1 DEF Onward
<1>3. Toolless'  BY <1>1 DEF KInv, TurnInv, Toolless, PumpVars
<1>4. ToolLog'
  <2> SUFFICES ASSUME scene \in ToolScenes PROVE ToolLog'  BY DEF ToolLog, PumpVars
  <2>1. \A i \in 1 .. Len(log) : ToolFrame(i)'  BY <1>1, <1>2, ToolFramesKept DEF KInv, LogInv
  <2> QED  BY <1>1, <2>1 DEF ToolLog
<1>5. TaskLog'
  <2> SUFFICES ASSUME scene = "task" PROVE TaskLog'  BY DEF TaskLog, PumpVars
  <2>1. \A i \in 1 .. Len(log) : TaskFrame(i)'  BY <1>1, <1>2, TaskFramesKept DEF KInv, LogInv
  <2> QED  BY <1>1, <2>1 DEF TaskLog
<1> QED  BY <1>2, <1>3, <1>4, <1>5 DEF ProviderStep, LogInv

LEMMA StartTurnKeeps == ASSUME KInv, StartTurn PROVE ProviderStep
<1> DEFINE f == Frame("turn.started", Mine)
<1> USE DEF Mine, Note, Old, TurnIds
<1> PICK n \in Nat : n = Len(log) + 1  BY DEF KInv, Shapes
<1>1. /\ agent.turn = 0 /\ agent.prompt = "queued"
      /\ agent' = [agent EXCEPT !.turn = Mine, !.prompt = "taken", !.tool = "none"]
      /\ log' = Append(log, f) /\ Quiet
  BY DEF StartTurn, Says, Agent
<1>2. Shapes /\ f \in Frames  BY DEF KInv, Shapes, Frames, Frame
<1>3. /\ log' \in Seq(Frames) /\ Len(log') = n /\ log'[n] = f
      /\ \A i \in 1 .. Len(log) : log'[i] = log[i]
  BY <1>1, <1>2, Written DEF Shapes
<1>4. agent.over[Mine] = "no"  BY <1>1 DEF KInv, LogInv, Session
<1>5. UNCHANGED PumpVars  BY <1>1 DEF Quiet, PumpVars
<1>6. Shapes'  BY <1>1, <1>2, <1>3 DEF Shapes, Quiet, qvars, Agents
<1>7. Session'  BY <1>1, <1>2, <1>4, <1>5 DEF KInv, LogInv, Session, PumpVars, Shapes, Agents
<1>8. ASSUME scene \in ToolScenes PROVE ToolAgent' /\ ToolFrame(n)'
  <2>1. ToolFrame(n)'
    BY <1>1, <1>3 DEF ToolFrame, Frame, EndAt, EndTypes, TaskTypes, CallFrame
  <2>2. Wrote(StartFrame)'  BY <1>2, <1>3 DEF Wrote, StartFrame
  <2> QED  BY <1>1, <1>2, <2>1, <2>2 DEF ToolAgent, Shapes, Agents
<1>9. ASSUME scene = "task" PROVE TaskAgent' /\ TaskFrame(n)'
  <2>1. log = <<>> /\ n = 1  BY <1>1, <1>9 DEF KInv, LogInv, TaskLog, TaskAgent
  <2>2. TaskFrame(1)'
    BY <1>3, <2>1 DEF TaskFrame, Frame, EndAt, EndTypes, ToolTypes, StartFrame
  <2>3. agent.task # "telling" /\ agent.task = "none"
    BY <1>1, <1>4, <1>9 DEF KInv, LogInv, TaskLog, TaskAgent
  <2> QED  BY <1>1, <1>2, <1>3, <2>1, <2>2, <2>3 DEF TaskAgent, Shapes, Agents
<1>10. /\ agent'.prompt = "taken" /\ agent'.over = agent.over /\ agent'.task = agent.task
       /\ f.type \notin ToolTypes
  BY <1>1, <1>2 DEF Shapes, Agents, Frame, ToolTypes
<1> HIDE DEF f
<1> QED  BY <1>1, <1>2, <1>4, <1>5, <1>6, <1>7, <1>8, <1>9, <1>10, FrameStep

LEMMA CallToolKeeps == ASSUME KInv, CallTool PROVE ProviderStep
<1> DEFINE f == Frame("tool.started", agent.turn)
<1> USE DEF Mine, Note, Old, TurnIds
<1> PICK n \in Nat : n = Len(log) + 1  BY DEF KInv, Shapes
<1>1. /\ scene \in ToolScenes /\ agent.turn # 0 /\ agent' = [agent EXCEPT !.tool = "open"]
      /\ log' = Append(log, f) /\ Quiet
  BY DEF CallTool, Says, Agent, ToolScenes
<1>2. Shapes /\ f \in Frames
  BY DEF KInv, Shapes, Frames, Frame, Agents, ToolTypes
<1>3. /\ log' \in Seq(Frames) /\ Len(log') = n /\ log'[n] = f
      /\ \A i \in 1 .. Len(log) : log'[i] = log[i]
  BY <1>1, <1>2, Written DEF Shapes
<1>4. UNCHANGED PumpVars  BY <1>1 DEF Quiet, PumpVars
<1>5. Shapes'  BY <1>1, <1>2, <1>3 DEF Shapes, Quiet, qvars, Agents
<1>6. /\ agent'.prompt = agent.prompt /\ agent'.over = agent.over /\ agent'.task = agent.task
      /\ agent'.turn = agent.turn
  BY <1>1, <1>2 DEF Shapes, Agents
<1>7. Session'
  BY <1>2, <1>3, <1>4, <1>6 DEF KInv, LogInv, Session, PumpVars, EndAt, Shapes
<1>8. agent.turn = Mine => agent.over[Mine] = "no" /\ agent.prompt = "taken" /\ Wrote(StartFrame)
  BY <1>1 DEF KInv, LogInv, Session, ToolLog, ToolAgent
<1>9. ToolAgent' /\ ToolFrame(n)'
  <2>1. agent.turn # Note  BY <1>1 DEF KInv, LogInv, ToolLog, ToolAgent
  <2>2. f = CallFrame => \E j \in 1 .. n - 1 : log'[j] = StartFrame
    BY <1>1, <1>3, <1>8 DEF Wrote, CallFrame, Frame, StartFrame
  <2>3. ToolFrame(n)'
    BY <1>3, <1>6, <1>8, <2>1, <2>2
       DEF ToolFrame, Frame, EndAt, EndTypes, TaskTypes, CallFrame, StartFrame
  <2>4. Wrote(StartFrame) => Wrote(StartFrame)'
    BY <1>2, <1>3 DEF Wrote, Shapes, StartFrame, Frame
  <2> QED  BY <1>6, <1>8, <2>1, <2>3, <2>4 DEF ToolAgent
<1>10. scene # "task"  BY <1>1 DEF ToolScenes
<1>11. agent.over[Mine] # "no" => f # CallFrame /\ f.type # "task.started"
  BY <1>8 DEF Frame, CallFrame
<1> HIDE DEF f
<1> QED  BY <1>1, <1>2, <1>4, <1>5, <1>6, <1>7, <1>9, <1>10, <1>11, FrameStep

LEMMA ToolReturnsKeeps == ASSUME KInv, ToolReturns PROVE ProviderStep
<1> DEFINE f == Frame("tool.result", agent.turn)
<1> USE DEF Mine, Note, Old, TurnIds
<1> PICK n \in Nat : n = Len(log) + 1  BY DEF KInv, Shapes
<1>1. /\ scene \in ToolScenes /\ agent' = [agent EXCEPT !.tool = "done"]
      /\ log' = Append(log, f) /\ Quiet
  BY DEF ToolReturns, Says, Agent, KInv, Shapes
<1>2. Shapes /\ f \in Frames
  BY DEF KInv, Shapes, Frames, Frame, Agents, ToolTypes
<1>3. /\ log' \in Seq(Frames) /\ Len(log') = n /\ log'[n] = f
      /\ \A i \in 1 .. Len(log) : log'[i] = log[i]
  BY <1>1, <1>2, Written DEF Shapes
<1>4. UNCHANGED PumpVars  BY <1>1 DEF Quiet, PumpVars
<1>5. Shapes'  BY <1>1, <1>2, <1>3 DEF Shapes, Quiet, qvars, Agents
<1>6. /\ agent'.prompt = agent.prompt /\ agent'.over = agent.over /\ agent'.task = agent.task
      /\ agent'.turn = agent.turn
  BY <1>1, <1>2 DEF Shapes, Agents
<1>7. Session'
  BY <1>2, <1>3, <1>4, <1>6 DEF KInv, LogInv, Session, PumpVars, EndAt, Shapes
<1>8. agent.turn # Note /\ (agent.turn = Mine => agent.prompt = "taken" /\ Wrote(StartFrame))
  BY <1>1 DEF KInv, LogInv, Session, ToolLog, ToolAgent
<1>9. ToolAgent' /\ ToolFrame(n)'
  <2>1. ToolFrame(n)'
    BY <1>3, <1>6, <1>8, SMTT(30) DEF ToolFrame, Frame, EndAt, EndTypes, TaskTypes, CallFrame
  <2>2. Wrote(StartFrame) => Wrote(StartFrame)'
    BY <1>2, <1>3, SMTT(30) DEF Wrote, Shapes, StartFrame, Frame
  <2> QED  BY <1>6, <1>8, <2>1, <2>2 DEF ToolAgent
<1>10. scene # "task"  BY <1>1 DEF ToolScenes
<1>11. f # CallFrame /\ f.type # "task.started"  BY DEF Frame, CallFrame
<1> HIDE DEF f
<1> QED  BY <1>1, <1>2, <1>4, <1>5, <1>6, <1>7, <1>9, <1>10, <1>11, FrameStep

\* The detached task starts, ends, and its end is told within the turn.
LEMMA TaskMoves ==
  ASSUME KInv, NEW x, NEW type, NEW t \in {0, Mine},
         agent' = [agent EXCEPT !.task = x], log' = Append(log, Frame(type, t)),
         UNCHANGED <<PumpVars, kap>>,
         \/ scene = "task" /\ agent.turn = Mine /\ agent.task = "none" /\ x = "running" /\ type = "task.started"
         \/ agent.task = "running" /\ x = "ended" /\ type = "task.terminated"
         \/ agent.task = "running" /\ x = "told" /\ type = "task.suppressed"
         \/ agent.task = "ended" /\ x = "told" /\ type \in {"task.notified", "task.waitDelivered"}
              /\ agent.turn = Mine
  PROVE  ProviderStep
<1> DEFINE f == Frame(type, t)
<1> USE DEF Mine, Note, Old, TurnIds
<1> PICK n \in Nat : n = Len(log) + 1  BY DEF KInv, Shapes
<1>1. Shapes /\ f \in Frames /\ scene \notin ToolScenes \cup {"question"}
  BY DEF KInv, Shapes, Frames, Frame, TaskTypes, ToolScenes
<1>2. /\ log' \in Seq(Frames) /\ Len(log') = n /\ log'[n] = f
      /\ \A i \in 1 .. Len(log) : log'[i] = log[i]
  BY <1>1, Written DEF Shapes
<1>3. UNCHANGED PumpVars /\ scene' = scene /\ pc' = pc  BY DEF PumpVars
<1>4. /\ agent'.prompt = agent.prompt /\ agent'.over = agent.over /\ agent'.task = x
      /\ agent'.turn = agent.turn
  BY <1>1 DEF Shapes, Agents
<1>5. Shapes'  BY <1>1, <1>2 DEF Shapes, PumpVars, Agents
<1>6. Session'
  BY <1>1, <1>2, <1>3, <1>4 DEF KInv, LogInv, Session, EndAt, Shapes
<1>7. ASSUME scene = "task" PROVE TaskAgent' /\ TaskFrame(n)'
  <2>1. TaskAgent  BY <1>7 DEF KInv, LogInv, TaskLog
  <2>2. agent.turn = Mine => agent.over[Mine] = "no" /\ agent.prompt = "taken"
    BY DEF KInv, LogInv, Session
  <2>3. n > 1  BY <1>1, <2>1, <2>2 DEF TaskAgent, Earlier, Shapes
  <2>4. \A p : Earlier(n, p)' <=> Earlier(n, p)  BY <1>2 DEF Earlier
  <2>5. \A p : Earlier(n, p) \/ p = type => Earlier(n + 1, p)'
    BY <1>2, <2>4 DEF Earlier, Frame
  <2>6. type = "task.notified" \/ type = "task.waitDelivered" => Earlier(n, "task.terminated")'
    BY <2>1, <2>4 DEF TaskAgent
  <2>7. type = "task.terminated" \/ type = "task.suppressed" => Earlier(n, "task.started")'
    BY <2>1, <2>4 DEF TaskAgent
  <2>8. TaskFrame(n)'
    BY <1>2, <1>4, <2>3, <2>6, <2>7
       DEF TaskFrame, Frame, StartFrame, EndAt, EndTypes, ToolTypes
  <2>9. Earlier(n + 1, "task.started")' /\ (x = "ended" => Earlier(n + 1, "task.terminated")')
    BY <2>1, <2>5 DEF TaskAgent
  <2> QED  BY <1>2, <1>4, <2>1, <2>2, <2>3, <2>8, <2>9 DEF TaskAgent
<1>8. /\ agent.task # "told" /\ (agent.over[Mine] # "no" => agent.task # "none")
      /\ f # CallFrame /\ f.type \notin ToolTypes /\ (f.type = "task.started" => agent.over[Mine] = "no")
  BY DEF KInv, LogInv, Session, Frame, CallFrame, ToolTypes
<1>9. log' = Append(log, f)  OBVIOUS
<1> HIDE DEF f
<1> QED  BY <1>1, <1>3, <1>4, <1>5, <1>6, <1>7, <1>8, <1>9, FrameStep

LEMMA TaskStepKeeps ==
  ASSUME KInv, Detach \/ TaskEnds \/ ToldInline
  PROVE  ProviderStep
<1> USE DEF Says, Agent, Quiet, qvars, PumpVars
<1>1. CASE Detach  BY <1>1, TaskMoves DEF Detach
<1>2. CASE TaskEnds  BY <1>2, TaskMoves DEF TaskEnds
<1>3. CASE ToldInline  BY <1>3, TaskMoves DEF ToldInline
<1> QED  BY <1>1, <1>2, <1>3

LEMMA EndTurnKeeps == ASSUME KInv, EndTurn PROVE ProviderStep
<1> USE DEF Mine, Note, Old, TurnIds
<1> PICK n \in Nat : n = Len(log) + 1  BY DEF KInv, Shapes
<1>1. PICK reason \in {"completed", "failed", "cancelled"} :
        /\ agent' = [agent EXCEPT !.turn = 0, !.tool = "none", !.abort = FALSE,
                                  !.task = IF @ = "telling" THEN "told" ELSE @,
                                  !.over[agent.turn] = reason]
        /\ log' = Append(log, Frame(EndReasons[reason], agent.turn))
  BY DEF EndTurn, Says, Agent
<1> DEFINE f == Frame(EndReasons[reason], agent.turn)
<1>2. Shapes /\ EndReasons[reason] \in EndTypes /\ agent.turn \in TurnIds
  BY DEF KInv, Shapes, EndTurn, EndReasons, EndTypes, Agents
<1>3. f \in Frames /\ f.turn = agent.turn /\ f.type \in EndTypes  BY <1>2 DEF Frames, Frame
<1>4. /\ log' \in Seq(Frames) /\ Len(log') = n /\ log'[n] = f
      /\ \A i \in 1 .. Len(log) : log'[i] = log[i]
  BY <1>1, <1>2, <1>3, Written DEF Shapes
<1>5. UNCHANGED PumpVars /\ UNCHANGED qvars /\ pc' = pc /\ scene' = scene
  BY DEF EndTurn, Quiet, PumpVars
<1>6. /\ agent' \in Agents /\ agent'.prompt = agent.prompt /\ agent'.turn = 0 /\ agent'.tool = "none"
      /\ agent'.task = IF agent.task = "telling" THEN "told" ELSE agent.task
      /\ agent'.over[Mine] = IF agent.turn = Mine THEN reason ELSE agent.over[Mine]
  BY <1>1, <1>2 DEF Shapes, Agents, Reasons
<1>7. Shapes'  BY <1>2, <1>4, <1>5, <1>6 DEF Shapes, qvars, PumpVars
<1>8. agent.turn = Mine => agent.prompt = "taken"  BY DEF KInv, LogInv, Session
<1>9. Session'
  <2>1. agent'.over[Mine] # "no" => \E i \in 1 .. Len(log') : EndAt(i, Mine)'
    <3>1. CASE agent.turn = Mine  BY <1>3, <1>4, <3>1 DEF EndAt
    <3>2. CASE agent.turn # Mine
      BY <1>2, <1>4, <1>6, <3>2 DEF EndAt, KInv, LogInv, Session, Shapes
    <3> QED  BY <3>1, <3>2
  <2> QED  BY <1>5, <1>6, <1>8, <2>1 DEF KInv, LogInv, Session
<1>10. f # CallFrame /\ f # StartFrame /\ f.type \notin TaskTypes \cup ToolTypes \cup {"turn.started"}
  BY <1>3 DEF EndTypes, TaskTypes, ToolTypes, CallFrame, StartFrame, Frame
<1>11. ASSUME scene \in ToolScenes PROVE ToolAgent' /\ ToolFrame(n)'
  <2>1. agent.turn # Note  BY <1>11 DEF KInv, LogInv, ToolLog, ToolAgent
  <2> HIDE DEF f
  <2> QED  BY <1>3, <1>4, <1>6, <1>8, <1>10, <2>1 DEF ToolAgent, ToolFrame, EndAt
<1>12. ASSUME scene = "task" PROVE TaskAgent' /\ TaskFrame(n)'
  <2>1. TaskAgent  BY <1>12 DEF KInv, LogInv, TaskLog
  <2>2. agent.turn # Old /\ (agent.turn = Note => agent'.task = "told") /\ n > 1
    BY <1>2, <1>6, <1>8, <2>1 DEF TaskAgent, Earlier, Shapes
  <2>3. \A p : Earlier(n, p) => Earlier(n + 1, p)'  BY <1>4 DEF Earlier
  <2> HIDE DEF f
  <2>4. TaskFrame(n)'
    BY <1>3, <1>4, <1>6, <1>10, <2>2 DEF TaskFrame, EndAt, TaskTypes
  <2> QED  BY <1>2, <1>4, <1>6, <2>1, <2>2, <2>3, <2>4 DEF TaskAgent, Shapes
<1>13. log' = Append(log, f)  BY <1>1
<1>14. f.type # "task.started"  BY <1>10 DEF TaskTypes
<1> HIDE DEF f
<1> QED
  BY <1>3, <1>5, <1>6, <1>7, <1>9, <1>10, <1>11, <1>12, <1>13, <1>14, FrameStep

\* The frames of the question say nothing of tools, tasks or turns.
LEMMA QuestionFrameKeeps ==
  ASSUME KInv, DTypeOK, KAsks \/ AtKap(SettledElsewhere) \/ AtKap(DismissFallback) \/ AtKap(PostArrives)
  PROVE  ProviderStep
<1> PICK n \in Nat : n = Len(log) + 1  BY DEF KInv, Shapes
<1>1. UNCHANGED <<scene, agent, conn, pc, result, ctx, turn, cursor, ended>>
  BY DEF KAsks, AtKap
<1>2. Shapes /\ UNCHANGED PumpVars  BY <1>1 DEF KInv, PumpVars
<1>3. CASE log' = log /\ kap' = kap
  <2>1. Shapes' /\ Toolless'  BY <1>1, <1>2, <1>3 DEF KInv, TurnInv, Shapes, Toolless
  <2>2. Session'  BY <1>1, <1>3 DEF KInv, LogInv, Session, EndAt
  <2>3. Onward  BY <1>1, <1>2, <1>3 DEF Onward, Shapes
  <2>4. ToolLog'
    BY <1>1, <1>3 DEF KInv, LogInv, ToolLog, ToolAgent, ToolFrame, EndAt, Wrote
  <2>5. TaskLog'
    BY <1>1, <1>3 DEF KInv, LogInv, TaskLog, TaskAgent, TaskFrame, EndAt, Earlier
  <2> QED  BY <1>2, <2>1, <2>2, <2>3, <2>4, <2>5 DEF ProviderStep, LogInv
<1>4. CASE scene = "question"
           /\ \E type \in {"question.requested", "question.answered", "question.dismissed"} :
                \E t \in {0, Mine} : log' = Append(log, Frame(type, t))
  <2>1. PICK type \in {"question.requested", "question.answered", "question.dismissed"},
             t \in {0, Mine} : log' = Append(log, Frame(type, t))
    BY <1>4
  <2> DEFINE f == Frame(type, t)
  <2>2. f \in Frames /\ f # CallFrame /\ f.type \notin ToolTypes /\ f.type # "task.started"
    BY DEF Frames, Frame, CallFrame, ToolTypes, TurnIds
  <2>3. /\ log' \in Seq(Frames) /\ Len(log') = n /\ log'[n] = f
        /\ \A i \in 1 .. Len(log) : log'[i] = log[i]
    BY <1>2, <2>1, <2>2, Written DEF Shapes
  <2>4. Shapes'  BY <1>1, <1>2, <1>4, <2>3 DEF Shapes
  <2>5. Session'  BY <1>1, <1>2, <2>3 DEF KInv, LogInv, Session, EndAt, Shapes
  <2>6. scene \notin ToolScenes /\ scene # "task" /\ log' = Append(log, f)
    BY <1>4, <2>1 DEF ToolScenes
  <2> HIDE DEF f
  <2> QED  BY <1>1, <1>2, <2>2, <2>4, <2>5, <2>6, FrameStep
<1>5. kap' = kap \/ (kap.st = "open" /\ kap'.st \in {"answered", "dismissed"}) \/ KAsks
  <2>1. CASE AtKap(SettledElsewhere)  BY <2>1 DEF DTypeOK, AtKap, SettledElsewhere, Takes
  <2>2. CASE AtKap(DismissFallback)  BY <2>2 DEF DTypeOK, AtKap, DismissFallback
  <2>3. CASE AtKap(PostArrives)  BY <2>3 DEF AtKap, PostArrives, KapAnswers, Takes
  <2> QED  BY <2>1, <2>2, <2>3
<1>6. CASE KAsks  BY <1>4, <1>6 DEF KAsks, Says
<1>7. CASE ~KAsks /\ kap' = kap  BY <1>3, <1>7 DEF AtKap, KapSays
<1>8. CASE ~KAsks /\ kap.st = "open" /\ kap'.st \in {"answered", "dismissed"}
  <2>1. KapSays /\ scene = "question"  BY <1>2, <1>8 DEF AtKap, Shapes
  <2> QED  BY <1>4, <1>8, <2>1 DEF KapSays, Settlements
<1> QED  BY <1>5, <1>6, <1>7, <1>8

LEMMA WrittenTwo ==
  ASSUME log \in Seq(Frames), NEW f \in Frames, NEW g \in Frames, log' = log \o <<f, g>>
  PROVE  /\ log' \in Seq(Frames) /\ Len(log') = Len(log) + 2
         /\ log'[Len(log) + 1] = f /\ log'[Len(log) + 2] = g
         /\ \A i \in 1 .. Len(log) : log'[i] = log[i]
<1>1. <<f, g>> \in Seq(Frames) /\ Len(<<f, g>>) = 2 /\ <<f, g>>[1] = f /\ <<f, g>>[2] = g
  OBVIOUS
<1> QED  BY <1>1, ConcatProperties

LEMMA StartNotificationKeeps == ASSUME KInv, StartNotification PROVE ProviderStep
<1> USE DEF Mine, Note, Old, TurnIds
<1> PICK n \in Nat : n = Len(log) + 1  BY DEF KInv, Shapes
<1>1. agent.turn = 0 /\ agent.task = "ended" /\ Quiet  BY DEF StartNotification
<1>2. PICK t \in {Note, Old} :
        /\ t = IF scene = "stray" THEN Old ELSE Note
        /\ agent' = [agent EXCEPT !.turn = t, !.task = "telling", !.tool = "none"]
        /\ \/ log' = log \o <<Frame("task.notified", 0), Frame("turn.started", t)>>
           \/ log' = log \o <<Frame("turn.started", t), Frame("task.notified", 0)>>
  BY DEF StartNotification, Agent
<1>3. PICK f \in {Frame("task.notified", 0), Frame("turn.started", t)},
           g \in {Frame("task.notified", 0), Frame("turn.started", t)} : log' = log \o <<f, g>>
  BY <1>2
<1>4. Shapes /\ f \in Frames /\ g \in Frames /\ scene \notin ToolScenes \cup {"question"}
  BY <1>1, <1>3 DEF KInv, Shapes, Frames, Frame, TaskTypes, ToolScenes
<1>5. /\ log' \in Seq(Frames) /\ Len(log') = n + 1 /\ log'[n] = f /\ log'[n + 1] = g
      /\ \A i \in 1 .. Len(log) : log'[i] = log[i]
  BY <1>3, <1>4, WrittenTwo DEF Shapes
<1>6. UNCHANGED PumpVars /\ UNCHANGED qvars /\ pc' = pc /\ scene' = scene
  BY <1>1 DEF Quiet, PumpVars
<1>7. /\ agent' \in Agents /\ agent'.prompt = agent.prompt /\ agent'.turn = t
      /\ agent'.tool = "none" /\ agent'.task = "telling" /\ agent'.over = agent.over
  BY <1>2, <1>4 DEF Shapes, Agents
<1>8. Shapes'  BY <1>4, <1>5, <1>6, <1>7 DEF Shapes, qvars, PumpVars
<1>9. Session'  BY <1>4, <1>5, <1>6, <1>7 DEF KInv, LogInv, Session, EndAt, Shapes
<1>10. \A i \in {n, n + 1} : /\ log'[i].type \in {"task.notified", "turn.started"} /\ log'[i].turn # Mine
                             /\ log'[i] # CallFrame /\ log'[i] # StartFrame
  BY <1>3, <1>5 DEF Frame, CallFrame, StartFrame
<1>11. \A i \in 1 .. Len(log') : i \in 1 .. Len(log) \/ i \in {n, n + 1}  BY <1>4, <1>5 DEF Shapes
<1>12. Toolless'
  BY <1>4, <1>5, <1>6, <1>10, <1>11 DEF KInv, TurnInv, Toolless, PumpVars, ToolTypes
<1>13. Onward  BY <1>1, <1>4, <1>5, <1>7, <1>10, SMTT(30) DEF Onward, Shapes
<1>14. ToolLog'  BY <1>4, <1>6 DEF ToolLog
<1>15. TaskLog'
  <2> SUFFICES ASSUME scene = "task" PROVE TaskLog'  BY <1>6 DEF TaskLog
  <2>1. TaskAgent /\ agent.over[Mine] # "no" /\ t = Note
    BY <1>1, <1>2 DEF KInv, LogInv, TaskLog, TaskAgent
  <2>2. PICK d \in 1 .. Len(log) : EndAt(d, Mine)  BY <2>1 DEF KInv, LogInv, Session
  <2>3. EndAt(d, Mine)'  BY <1>5, <2>2 DEF EndAt
  <2>4. Earlier(n, "task.started") /\ Earlier(n, "task.terminated") /\ n > 1
    BY <1>1, <1>4, <2>1 DEF TaskAgent, Earlier, Shapes
  <2>5. \A p, i : i \in {n, n + 1, n + 2} /\ Earlier(n, p) => Earlier(i, p)'
    BY <1>4, <1>5, SMTT(30) DEF Earlier, Shapes
  <2>6. \A i \in {n, n + 1} : TaskFrame(i)'
    <3> SUFFICES ASSUME NEW i \in {n, n + 1} PROVE TaskFrame(i)'  OBVIOUS
    <3>1. log'[i].turn # Old  BY <1>3, <1>5, <2>1 DEF Frame
    <3>2. Earlier(i, "task.terminated")'  BY <2>4, <2>5
    <3>3. (\E j \in 1 .. i - 1 : EndAt(j, Mine))'  BY <2>2, <2>3
    <3> QED
      BY <1>10, <2>4, <3>1, <3>2, <3>3 DEF TaskFrame, EndAt, ToolTypes, EndTypes
  <2>7. \A i \in 1 .. Len(log) : TaskFrame(i)'  BY <1>4, <1>13, TaskFramesKept DEF KInv, LogInv
  <2>8. TaskAgent'
    BY <1>5, <1>7, <2>1, <2>4, <2>5 DEF TaskAgent
  <2> QED  BY <1>6, <1>11, <2>6, <2>7, <2>8 DEF TaskLog
<1> QED  BY <1>6, <1>8, <1>9, <1>12, <1>13, <1>14, <1>15 DEF ProviderStep, LogInv

\* A step of the provider that writes nothing: the prompt is queued or aborted,
\* or the turn under way is told to stop.
Unwritten ==
  /\ log' = log /\ agent' \in Agents
  /\ agent'.turn = agent.turn /\ agent'.tool = agent.tool /\ agent'.task = agent.task
  /\ agent'.over = agent.over
  /\ agent.prompt = "taken" <=> agent'.prompt = "taken"
  /\ pc' = "session" => agent'.prompt = "none"

LEMMA UnwrittenKeeps ==
  ASSUME Shapes, LogInv, Unwritten, scene' = scene
  PROVE  LogInv' /\ Onward
<1>1. Onward  BY DEF Unwritten, Onward, Shapes
<1>2. Session'  BY DEF LogInv, Session, Unwritten, EndAt
<1>3. ToolLog'
  BY DEF LogInv, ToolLog, ToolAgent, ToolFrame, EndAt, Wrote, Unwritten
<1>4. TaskLog'
  BY DEF LogInv, TaskLog, TaskAgent, TaskFrame, EndAt, Earlier, Unwritten
<1> QED  BY <1>1, <1>2, <1>3, <1>4 DEF LogInv

LEMMA UnwrittenStep ==
  ASSUME KInv, Unwritten, UNCHANGED <<PumpVars, kap>>
  PROVE  ProviderStep
<1>1. LogInv' /\ Onward  BY UnwrittenKeeps DEF KInv, PumpVars
<1>2. Shapes'  BY DEF KInv, Shapes, Unwritten, PumpVars
<1>3. Toolless'  BY DEF KInv, TurnInv, Toolless, Unwritten, PumpVars
<1> QED  BY <1>1, <1>2, <1>3 DEF ProviderStep

LEMMA AbortTurnTyped ==
  ASSUME agent \in Agents
  PROVE  /\ AbortTurn \in Agents /\ AbortTurn.turn = agent.turn /\ AbortTurn.tool = agent.tool
         /\ AbortTurn.task = agent.task /\ AbortTurn.over = agent.over
         /\ AbortTurn.prompt = agent.prompt
BY DEF AbortTurn, Agents

LEMMA CancelKeeps == ASSUME KInv, CancelStep PROVE ProviderStep
<1> USE DEF Calls
<1>1. Shapes /\ agent \in Agents /\ UNCHANGED <<PumpVars, kap>> /\ pc' = pc
  BY DEF KInv, Shapes, CancelStep, RequestCancel, AbortPrompt, AbortSession, CancelTasks,
         PumpVars, qvars
<1>2. pc = "session" => agent.prompt = "none"  BY DEF KInv, LogInv, Session
<1>3. CASE agent' = agent /\ log' = log  BY <1>1, <1>2, <1>3, UnwrittenStep DEF Unwritten
<1>4. CASE agent' = AbortTurn /\ log' = log
  BY <1>1, <1>2, <1>4, AbortTurnTyped, UnwrittenStep DEF Unwritten
<1>5. CASE agent.prompt = "queued" /\ agent' = [agent EXCEPT !.prompt = "aborted"] /\ log' = log
  <2>1. Unwritten  BY <1>1, <1>2, <1>5 DEF Unwritten, Agents
  <2> QED  BY <1>1, <2>1, UnwrittenStep
<1>6. CASE /\ agent.task = "running"
           /\ \/ Agent([agent EXCEPT !.task = "ended"]) /\ Says("task.terminated", 0)
              \/ Agent([agent EXCEPT !.task = "told"]) /\ Says("task.suppressed", 0)
  BY <1>1, <1>6, TaskMoves DEF Agent, Says
<1> QED
  BY <1>3, <1>4, <1>5, <1>6 DEF CancelStep, RequestCancel, AbortPrompt, AbortSession, CancelTasks

-----------------------------------------------------------------------------
(* The pump *)

\* A step of Execute that reads no frame, and goes back in the log at most.
PumpMoves ==
  /\ Unwritten /\ scene' = scene /\ ended' = ended /\ kap'.st = kap.st
  /\ conn' \in Conns /\ Within'
  /\ cursor' \in Nat /\ ctx' \in BOOLEAN /\ pc' \in Pcs
  /\ pc' # "done" => pc # "done" /\ result' = result
  /\ pc' = "cancelling" => ctx'
  /\ conn'.next <= conn.next \/ pc = "session" \/ conn'.resynced
  /\ conn.resynced => conn'.resynced
  /\ turn' = turn \/ (turn' = [turn EXCEPT !.prompt = TRUE] /\ pc = "prompt")
  /\ Pumping' => Pumping \/ turn'.prompt
  /\ Pumping => Pumping' \/ pc' = "done"
  /\ result' = "succeeded" => result = "succeeded" \/ (Finished(turn) /\ pc = "drain")

LEMMA MovesTools == ASSUME KInv, PumpMoves PROVE ToolTurn' /\ Toolless'
<1>1. Toolless'  BY DEF KInv, TurnInv, Toolless, PumpMoves, Unwritten, Shapes, Turns
<1>2. ToolTurn'
  <2> SUFFICES ASSUME scene \in ToolScenes PROVE ToolTurn'  BY DEF ToolTurn, PumpMoves
  <2>1. ToolTurn /\ log' = log /\ ended' = ended /\ agent'.over = agent.over
    BY DEF KInv, TurnInv, PumpMoves, Unwritten
  <2>2. /\ turn'.awaiting = turn.awaiting /\ turn'.task = turn.task /\ turn'.notif = turn.notif
        /\ turn'.gone = turn.gone /\ turn'.seen = turn.seen /\ turn'.active = turn.active
        /\ turn'.open = turn.open /\ turn'.results = turn.results
        /\ (turn.prompt => turn'.prompt)
    BY DEF KInv, Shapes, PumpMoves, Turns
  <2>3. Pumping' => turn'.prompt  BY <2>1, <2>2 DEF PumpMoves, ToolTurn
  <2>4. result' = "succeeded" => result = "succeeded"
    BY <2>1 DEF PumpMoves, ToolTurn, Finished
  <2>5. ASSUME pc' # "done", ~conn'.resynced, NEW i \in 1 .. conn'.next - 1
        PROVE  /\ log[i] = StartFrame => turn.seen
               /\ log[i] = CallFrame => Mine \in turn.open \cup turn.results
    <3>1. conn.next \in Nat /\ conn'.next \in Nat /\ Len(log) \in Nat /\ pc # "done"
      BY <2>5 DEF KInv, Shapes, PumpMoves
    <3>2. CASE pc = "session"
      <4>1. i \in 1 .. Len(log)  BY <2>1, <3>1 DEF PumpMoves, Within
      <4>2. log[i].turn # Mine  BY <3>2, <4>1 DEF KInv, LogInv, Session, ToolLog, ToolFrame
      <4> QED  BY <4>2 DEF StartFrame, CallFrame, Frame
    <3>3. CASE conn'.next <= conn.next
      <4>1. ~conn.resynced /\ i \in 1 .. conn.next - 1  BY <2>5, <3>1, <3>3 DEF PumpMoves
      <4> QED  BY <2>1, <3>1, <4>1 DEF ToolTurn
    <3> QED  BY <2>5, <3>2, <3>3 DEF PumpMoves
  <2>6. pc' # "done" => pc # "done"  BY DEF PumpMoves
  <2>7. /\ Wrote(CallFrame)' => Wrote(CallFrame)
        /\ conn.resynced => conn'.resynced
    BY <2>1 DEF Wrote, CallFrame, Frame, PumpMoves
  <2> QED  BY <2>1, <2>2, <2>3, <2>4, <2>5, <2>6, <2>7 DEF ToolTurn, StartFrame, CallFrame, Frame
<1> QED  BY <1>1, <1>2

LEMMA MovesSettled == ASSUME KInv, PumpMoves PROVE Settled'
<1>1. turn'.task = turn.task /\ turn'.notif = turn.notif
  BY DEF KInv, Shapes, PumpMoves, Turns
<1> QED  BY <1>1 DEF KInv, TurnInv, PumpMoves, Settled, Finished

LEMMA MovesTask == ASSUME KInv, PumpMoves PROVE TaskTurn' /\ Succeeds'
<1> SUFFICES ASSUME scene = "task", ~conn'.resynced, ~conn.resynced PROVE TaskTurn' /\ Succeeds'
  BY DEF TaskTurn, Succeeds, PumpMoves
<1>1. /\ turn'.awaiting = turn.awaiting /\ turn'.task = turn.task /\ turn'.notif = turn.notif
      /\ turn'.gone = turn.gone /\ turn'.seen = turn.seen /\ turn'.active = turn.active
      /\ (turn.prompt => turn'.prompt) /\ (turn'.prompt = turn.prompt \/ pc = "prompt")
  BY DEF KInv, Shapes, PumpMoves, Turns
<1>2. log' = log /\ scene' = scene /\ agent'.task = agent.task /\ agent'.over = agent.over
  BY DEF PumpMoves, Unwritten
<1>3. conn'.next <= conn.next \/ conn'.next = 1
  BY DEF KInv, LogInv, Session, TaskLog, TaskAgent, PumpMoves, Within, Unwritten
<1>4. conn.next \in Nat /\ conn'.next \in Nat /\ conn.next >= 1 /\ conn'.next >= 1
  BY DEF KInv, Shapes, PumpMoves, Within
<1>5. \A p : Earlier(conn.next, p)' => Earlier(conn.next, p)
  BY <1>2, <1>3, <1>4 DEF Earlier
<1>6. ASSUME pc' # "done" PROVE TaskTurn'
  <2>1. pc # "done" /\ TaskTurn  BY <1>6 DEF PumpMoves, KInv, TurnInv
  <2>2. Pumping' => Pumping \/ turn'.prompt  BY DEF PumpMoves
  <2>3. ByPrompt => ByPrompt'  BY <1>1, <1>2, <1>3, <1>4, <2>2 DEF ByPrompt, EndAt
  <2>4. Awaits => Awaits'  BY <1>1 DEF Awaits
  <2>5. Tells => Tells'  BY <1>1, <1>6 DEF Tells, PumpMoves, Pumping
  <2> QED  BY <1>1, <1>2, <1>5, <2>1, <2>3, <2>4, <2>5 DEF TaskTurn
<1>7. Succeeds'
  <2>1. CASE result = "succeeded"  BY <1>2, <2>1 DEF Succeeds, KInv, TurnInv
  <2>2. CASE result' = "succeeded" /\ Finished(turn) /\ pc = "drain"
    BY <1>2, <2>2
       DEF Succeeds, KInv, TurnInv, TaskTurn, Finished, ByPrompt, Awaits, Tells
  <2> QED  BY <2>1, <2>2 DEF PumpMoves, Succeeds
<1> QED  BY <1>6, <1>7 DEF TaskTurn

LEMMA MovesKeep == ASSUME KInv, PumpMoves PROVE KInv'
<1>1. LogInv'  BY UnwrittenKeeps DEF KInv, PumpMoves
<1>2. Shapes'
  <2>1. turn' \in Turns  BY DEF KInv, Shapes, PumpMoves, Turns
  <2>2. log' = log /\ agent' \in Agents /\ agent'.task = agent.task /\ agent'.tool = agent.tool
    BY DEF PumpMoves, Unwritten
  <2> QED  BY <2>1, <2>2 DEF KInv, Shapes, PumpMoves
<1>3. Within'  BY DEF PumpMoves
<1> QED  BY <1>1, <1>2, <1>3, MovesTools, MovesTask, MovesSettled DEF KInv, TurnInv

\* A subscription reads from where it was asked to.
LEMMA SubscribesWithin ==
  ASSUME Len(log) \in Nat, conn \in Conns, log' = log, NEW from \in 1 .. Len(log) + 1, Subscribes(from),
         cursor' = cursor, cursor \in Nat, cursor < from, pc' # "session"
  PROVE  /\ conn' \in Conns /\ conn'.next = from
         /\ conn'.resynced = conn.resynced /\ Within'
<1>1. PICK n \in 0 .. Len(log) + 1 - from :
        conn' = [conn EXCEPT !.up = TRUE, !.next = from, !.last = 0, !.buffered = n]
  BY DEF Subscribes
<1>2. n \in Nat /\ from \in Nat  OBVIOUS
<1>3. /\ conn' \in Conns /\ conn'.next = from /\ conn'.last = 0 /\ conn'.buffered = n
      /\ conn'.resynced = conn.resynced
  BY <1>1, <1>2 DEF Conns
<1> QED  BY <1>1, <1>3 DEF Within

LEMMA WithinStill ==
  ASSUME Within, UNCHANGED <<log, conn, cursor>>, pc' = "session" => pc = "session"
  PROVE  Within'
BY DEF Within

LEMMA OpenKeeps == ASSUME KInv, OpenSession PROVE KInv'
<1>1. /\ Shapes /\ Within /\ pc = "session" /\ result = "none"
      /\ cursor \in Nat /\ ctx \in BOOLEAN /\ conn \in Conns
      /\ UNCHANGED <<qvars, kap, scene, agent, log, turn, ended, ctx, cursor>>
  BY DEF KInv, OpenSession, KeepQ, Shapes, qvars
<1>2. Unwritten  BY <1>1 DEF Unwritten, KInv, LogInv, Session, Shapes
<1>3. CASE pc' = "prompt" /\ result' = result /\ \E from \in 1 .. Len(log) + 1 : Subscribes(from)
  <2>1. PICK from \in 1 .. Len(log) + 1 : Subscribes(from)  BY <1>3
  <2>2. /\ conn' \in Conns /\ Within' /\ conn'.resynced = conn.resynced
    BY <1>1, <1>3, <2>1, SubscribesWithin DEF Shapes, Within
  <2>3. PumpMoves  BY <1>1, <1>2, <1>3, <2>2 DEF PumpMoves, Pumping, Pcs
  <2> QED  BY <2>3, MovesKeep
<1>4. CASE pc' = "done" /\ result' \in {"failed", "cancelled"} /\ conn' = conn
  <2>1. Within'  BY <1>1, <1>4, WithinStill
  <2>2. PumpMoves  BY <1>1, <1>2, <1>4, <2>1 DEF PumpMoves, Pumping, Pcs
  <2> QED  BY <2>2, MovesKeep
<1> QED  BY <1>3, <1>4 DEF OpenSession, Returns, Intent

LEMMA PromptKeeps == ASSUME KInv, PromptArrives \/ PromptAnswered PROVE KInv'
<1>1. /\ Shapes /\ Within /\ pc = "prompt" /\ result = "none" /\ agent \in Agents /\ turn \in Turns
      /\ UNCHANGED <<kap, scene, log, conn, ended, ctx, cursor>>
  BY DEF KInv, PromptArrives, PromptAnswered, Quiet, KeepQ, Shapes, qvars
<1>2. CASE PromptArrives
  <2>1. Unwritten  BY <1>1, <1>2 DEF PromptArrives, Agent, Quiet, Unwritten, Agents
  <2>2. PumpMoves
    BY <1>1, <1>2, <2>1, WithinStill DEF PromptArrives, Quiet, PumpMoves, Shapes, Pumping
  <2> QED  BY <2>2, MovesKeep
<1>3. CASE pc' = "restore" /\ turn' = [turn EXCEPT !.prompt = TRUE] /\ UNCHANGED <<result, agent>>
  <2>1. Unwritten  BY <1>1, <1>3 DEF Unwritten
  <2>2. turn'.prompt = TRUE  BY <1>1, <1>3 DEF Turns
  <2>3. PumpMoves  BY <1>1, <1>3, <2>1, <2>2, WithinStill DEF PumpMoves, Shapes, Pumping, Pcs
  <2> QED  BY <2>3, MovesKeep
<1>4. CASE pc' = "done" /\ result' \in {"failed", "cancelled"} /\ turn' = turn
           /\ agent' \in {agent, AbortTurn}
  <2>1. Unwritten  BY <1>1, <1>4, AbortTurnTyped DEF Unwritten
  <2>2. PumpMoves  BY <1>1, <1>4, <2>1, WithinStill DEF PumpMoves, Shapes, Pumping, Pcs
  <2> QED  BY <2>2, MovesKeep
<1> QED  BY <1>2, <1>3, <1>4 DEF PromptAnswered, Returns, Intent

\* The steps of the pump between frames.
LEMMA BetweenKeeps ==
  ASSUME KInv,
         Restore \/ Drained \/ StreamLost \/ Reconnect \/ IdleFires \/ Cancelling \/ ForceEnds
  PROVE  KInv'
<1>1. /\ Shapes /\ Within /\ pc \in {"restore", "drain", "loop", "reconnect", "cancelling"}
      /\ result = "none" /\ pc' # "session"
      /\ cursor \in Nat /\ ctx \in BOOLEAN /\ conn \in Conns
      /\ UNCHANGED <<kap, scene, agent, log, turn, ended, ctx, cursor>>
  BY DEF KInv, Restore, Drained, StreamLost, Reconnect, IdleFires, Cancelling, ForceEnds, Stays,
         Shapes, qvars, RequestQuestion, Returns
<1>2. Unwritten  BY <1>1 DEF Unwritten, Shapes
<1>3. CASE UNCHANGED conn
  <2>1. /\ pc' \in {"drain", "loop", "reconnect", "cancelling", "done"}
        /\ pc' # "done" => result' = result
        /\ pc' = "cancelling" => ctx
        /\ result' = "succeeded" => Finished(turn) /\ pc = "drain"
    BY <1>1, <1>3 DEF Restore, Drained, StreamLost, Reconnect, IdleFires, Cancelling, ForceEnds,
                      Stays, Returns, Intent, Shapes
  <2>2. PumpMoves
    BY <1>1, <1>2, <1>3, <2>1, WithinStill DEF PumpMoves, Pumping, Pcs
  <2> QED  BY <2>2, MovesKeep
<1>4. CASE pc' = "drain" /\ result' = result /\ Subscribes(cursor + 1)
  <2>1. cursor + 1 \in 1 .. Len(log) + 1 /\ cursor + 1 <= conn.next
    BY <1>1 DEF Within, Shapes
  <2>2. /\ conn' \in Conns /\ conn'.resynced = conn.resynced
        /\ conn'.next = cursor + 1 /\ Within'
    BY <1>1, <1>4, <2>1, SubscribesWithin DEF Shapes
  <2>3. PumpMoves  BY <1>1, <1>2, <1>4, <2>1, <2>2 DEF PumpMoves, Pumping, Pcs
  <2> QED  BY <2>3, MovesKeep
<1>5. CASE pc' = "drain" /\ result' = result /\ Resyncs
  <2>1. Len(log) \in Nat /\ cursor < Len(log) + 1  BY <1>1 DEF Within, Shapes
  <2>2. conn' = [conn EXCEPT !.up = TRUE, !.next = Len(log) + 1, !.last = 0, !.buffered = 0,
                             !.resynced = TRUE]
    BY <1>5 DEF Resyncs
  <2>3. /\ conn' \in Conns /\ conn'.resynced /\ conn'.next = Len(log) + 1
        /\ conn'.last = 0 /\ conn'.buffered = 0
    <3> DEFINE n == Len(log) + 1
    <3>1. n \in Nat /\ conn \in Conns  BY <1>1, <2>1
    <3> HIDE DEF n
    <3>2. conn' = [conn EXCEPT !.up = TRUE, !.next = n, !.last = 0, !.buffered = 0, !.resynced = TRUE]
      BY <2>2 DEF n
    <3>3. conn' \in Conns /\ conn'.resynced /\ conn'.next = n /\ conn'.last = 0 /\ conn'.buffered = 0
      BY <3>1, <3>2 DEF Conns
    <3> QED  BY <3>3 DEF n
  <2>4. Within'  BY <1>1, <2>1, <2>3 DEF Within
  <2>5. PumpMoves  BY <1>1, <1>2, <1>5, <2>3, <2>4 DEF PumpMoves, Pumping, Pcs
  <2> QED  BY <2>5, MovesKeep
<1> QED
  BY <1>3, <1>4, <1>5
     DEF Restore, Drained, StreamLost, Reconnect, IdleFires, Cancelling, ForceEnds, Stays

-----------------------------------------------------------------------------
(* A frame *)

Reasoned == {"completed", "failed", "cancelled"}

LEMMA EndsIs ==
  ASSUME NEW f \in Frames
  PROVE  /\ Ends(f) <=> f.type \in EndTypes /\ MyTurn(f.turn)
         /\ Ends(f) => ReasonOf(f) \in Reasoned /\ EndReasons[ReasonOf(f)] = f.type
<1>1. DOMAIN EndReasons = Reasoned  BY DEF EndReasons, Reasoned
<1>2. {EndReasons[r] : r \in Reasoned} = EndTypes  BY DEF EndReasons, Reasoned, EndTypes
<1>3. Ends(f) <=> f.type \in EndTypes /\ MyTurn(f.turn)  BY <1>1, <1>2 DEF Ends
<1>4. ASSUME Ends(f) PROVE \E r \in DOMAIN EndReasons : EndReasons[r] = f.type
  BY <1>1, <1>2, <1>3, <1>4
<1> QED  BY <1>1, <1>3, <1>4 DEF ReasonOf

\* What a frame makes of the turn, by its type.
LEMMA Projects ==
  ASSUME NEW f \in Frames
  PROVE  /\ f.type = "turn.started" => Project(f) = TurnStarted(f.turn)
         /\ Ends(f) => Project(f) = TurnEnded(ReasonOf(f))
         /\ f.type \in EndTypes /\ ~Ends(f) => Project(f) = turn
         /\ f.type = "tool.started" =>
              Project(f) = IF MyTurn(f.turn) THEN ToolStarted(f.turn) ELSE turn
         /\ f.type = "tool.result" =>
              Project(f) = IF MyTurn(f.turn) /\ FirstResult(f.turn)
                           THEN [turn EXCEPT !.results = @ \cup {f.turn}, !.open = @ \ {f.turn}]
                           ELSE turn
         /\ f.type = "task.started" => Project(f) = TaskStarted
         /\ f.type = "task.terminated" => Project(f) = TaskTerminated(TRUE)
         /\ f.type = "task.suppressed" => Project(f) = TaskTerminated(FALSE)
         /\ f.type = "task.notified" => Project(f) = TaskNotified
         /\ f.type = "task.waitDelivered" => Project(f) = TaskWaited
         /\ f.type \in {"question.requested", "question.answered", "question.dismissed"} =>
              Project(f) = turn
BY EndsIs DEF Project, EndTypes

LEMMA ProjectTyped == ASSUME turn \in Turns, NEW f \in Frames PROVE Project(f) \in Turns
<1>0. f.turn \in TurnIds \cup {0}  BY DEF Frames
<1>1. CASE f.type = "turn.started"
  <2>1. BeginNotification(f.turn) \in Turns  BY <1>0 DEF BeginNotification, Turns
  <2>2. [turn EXCEPT !.active = f.turn, !.seen = TRUE] \in Turns  BY <1>0 DEF Turns
  <2>3. TurnStarted(f.turn) \in {BeginNotification(f.turn), turn, [turn EXCEPT !.active = f.turn, !.seen = TRUE]}
    BY DEF TurnStarted
  <2> QED  BY <1>1, <2>1, <2>2, <2>3, Projects
<1>2. CASE Ends(f)
  <2>1. ReasonOf(f) \in Reasons \cup {""}  BY <1>2, EndsIs DEF Reasoned, Reasons
  <2>2. TurnEnded(ReasonOf(f)) \in Turns  BY <2>1 DEF TurnEnded, Turns
  <2> QED  BY <1>2, <2>2, Projects
<1>3. CASE f.type \in ToolTypes
  <2>1. turn.open \cup {f.turn} \in SUBSET (TurnIds \cup {0})  BY <1>0 DEF Turns
  <2>2. turn.results \cup {f.turn} \in SUBSET (TurnIds \cup {0})  BY <1>0 DEF Turns
  <2>3. turn.open \ {f.turn} \in SUBSET (TurnIds \cup {0})  BY <1>0 DEF Turns
  <2>4. [turn EXCEPT !.open = @ \cup {f.turn}] \in Turns  BY <2>1 DEF Turns
  <2>5. [turn EXCEPT !.results = @ \cup {f.turn}, !.open = @ \ {f.turn}] \in Turns
    BY <2>2, <2>3 DEF Turns
  <2> QED  BY <1>3, <2>4, <2>5, Projects DEF ToolTypes, ToolStarted
<1>4. CASE f.type \in TaskTypes
  <2>1. [turn EXCEPT !.task = TRUE] \in Turns  BY DEF Turns
  <2>2. \A b \in BOOLEAN : [turn EXCEPT !.gone = TRUE, !.task = FALSE, !.notif = b] \in Turns
    BY DEF Turns
  <2>3. \A b \in BOOLEAN : [turn EXCEPT !.task = FALSE, !.notif = b] \in Turns  BY DEF Turns
  <2>4. [turn EXCEPT !.task = FALSE, !.notif = FALSE, !.gone = TRUE] \in Turns  BY DEF Turns
  <2>5. (turn.notif /\ ~(turn.seen /\ ~turn.awaiting)) \in BOOLEAN  OBVIOUS
  <2>6. TaskStarted \in Turns /\ TaskWaited \in Turns  BY <2>1, <2>4 DEF TaskStarted, TaskWaited
  <2>7. TaskTerminated(TRUE) \in Turns /\ TaskTerminated(FALSE) \in Turns
    BY <2>2 DEF TaskTerminated
  <2>8. TaskNotified \in Turns  BY <2>3, <2>5 DEF TaskNotified
  <2> QED  BY <1>4, <2>6, <2>7, <2>8, Projects DEF TaskTypes
<1>5. CASE f.type \notin {"turn.started"} \cup ToolTypes \cup TaskTypes /\ ~Ends(f)
  <2>1. Project(f) = turn  BY <1>5, Projects DEF Frames, ToolTypes, TaskTypes
  <2> QED  BY <2>1
<1> QED  BY <1>1, <1>2, <1>3, <1>4, <1>5

\* What HandleFrame does, but to the question.
FrameRead(f, s) ==
  /\ f = log[conn.next] /\ f \in Frames /\ s = Project(f) /\ s \in Turns
  /\ turn' = IF Ends(f) /\ pc # "cancelling" /\ Holds(s) THEN Held(s) ELSE s
  /\ ended' = [t \in TurnIds |-> IF t \in Records(f) THEN ended[t] + 1 ELSE ended[t]]
  /\ IF (Ends(f) /\ ~turn'.awaiting) \/ (pc # "cancelling" /\ Finished(turn'))
     THEN pc' = "done" /\ result' = EndResult(turn')
     ELSE pc' = pc /\ result' = result
  /\ conn.next \in 1 .. Len(log) /\ conn'.next = conn.next + 1
  /\ conn'.resynced = conn.resynced
  /\ Pumping /\ pc # "done" /\ result = "none"
  /\ UNCHANGED <<scene, agent, log, ctx>>

LEMMA FrameIsRead ==
  ASSUME KInv, HandleFrame
  PROVE  /\ \E f, s : FrameRead(f, s)
         /\ Within' /\ Shapes' /\ LogInv'
<1>1. Shapes /\ Within /\ pc \in {"drain", "loop", "cancelling"} /\ Readable
  BY DEF KInv, HandleFrame
<1>2. conn.next \in 1 .. Len(log) /\ Len(log) \in Nat /\ log[conn.next] \in Frames
  BY <1>1 DEF Shapes, Within, Readable, Last
<1> DEFINE f == log[conn.next]
           s == Project(f)
           kept == IF Ends(f) /\ pc # "cancelling" /\ Holds(s) THEN Held(s) ELSE s
           over == (Ends(f) /\ ~kept.awaiting) \/ (pc # "cancelling" /\ Finished(kept))
<1>3. /\ turn' = kept
      /\ ended' = [t \in TurnIds |-> IF t \in Records(f) THEN ended[t] + 1 ELSE ended[t]]
      /\ IF over THEN Returns(EndResult(kept)) ELSE UNCHANGED <<pc, result>>
      /\ conn' = [conn EXCEPT !.next = @ + 1, !.buffered = IF @ = 0 THEN 0 ELSE @ - 1]
      /\ cursor' = IF pc = "loop" THEN conn.next ELSE cursor
      /\ UNCHANGED <<scene, agent, log, ctx>> /\ QuestionStep(f)
  BY DEF HandleFrame
<1>4. s \in Turns  BY <1>1, <1>2, ProjectTyped DEF Shapes
<1>5. /\ conn' \in Conns /\ cursor' \in Nat
      /\ conn'.next = conn.next + 1 /\ conn'.last = conn.last /\ conn'.resynced = conn.resynced
      /\ conn'.buffered = IF conn.buffered = 0 THEN 0 ELSE conn.buffered - 1
  <2>1. conn \in Conns /\ cursor \in Nat
    BY <1>1 DEF Shapes
  <2> DEFINE b == IF conn.buffered = 0 THEN 0 ELSE conn.buffered - 1
  <2>2. b \in Nat /\ conn.next + 1 \in Nat  BY <2>1
  <2>3. conn' = [conn EXCEPT !.next = conn.next + 1, !.buffered = b]  BY <1>3
  <2>4. cursor' \in Nat  BY <1>3, <2>1
  <2> HIDE DEF b
  <2>5. /\ conn' \in Conns
        /\ conn'.next = conn.next + 1 /\ conn'.last = conn.last /\ conn'.buffered = b
        /\ conn'.resynced = conn.resynced
    BY <2>1, <2>2, <2>3 DEF Conns
  <2> QED  BY <2>4, <2>5 DEF b
<1>6. /\ turn' = IF Ends(f) /\ pc # "cancelling" /\ Holds(s) THEN Held(s) ELSE s
      /\ IF (Ends(f) /\ ~turn'.awaiting) \/ (pc # "cancelling" /\ Finished(turn'))
         THEN pc' = "done" /\ result' = EndResult(turn')
         ELSE pc' = pc /\ result' = result
  BY <1>3 DEF Returns
<1>7. Pumping /\ pc # "done" /\ result = "none"  BY <1>1 DEF Pumping, Shapes
<1>8. FrameRead(f, s)
  <2> HIDE DEF s, f
  <2>1. f = log[conn.next] /\ s = Project(f)  BY DEF f, s
  <2> QED  BY <1>2, <1>3, <1>4, <1>5, <1>6, <1>7, <2>1 DEF FrameRead, f
<1>9. Within'
  <2>1. conn.buffered \in Nat /\ conn.next + conn.buffered <= Len(log) + 1
    BY <1>1 DEF Shapes, Within
  <2>2. pc' # "session"  BY <1>1, <1>6
  <2> QED  BY <1>1, <1>2, <1>3, <1>5, <2>1, <2>2 DEF Within, Shapes
<1>10. Shapes'
  <2>1. Held(s) \in Turns  BY <1>4 DEF Held, Turns
  <2>2. turn' \in Turns  BY <1>4, <1>6, <2>1
  <2>3. ended' \in [TurnIds -> Nat]  BY <1>1, <1>3 DEF Shapes
  <2>4. pc' \in {pc, "done"} /\ (pc' # "done" => result' = result)  BY <1>6
  <2>5. kap' = kap
    BY <1>3 DEF QuestionStep, RequestQuestion, ProviderEvent, qvars
  <2> QED  BY <1>1, <1>3, <1>5, <2>2, <2>3, <2>4, <2>5 DEF Shapes, Pcs
<1>11. Unwritten  BY <1>1, <1>3, <1>6 DEF Unwritten, Shapes
<1>12. LogInv'  BY <1>3, <1>11, UnwrittenKeeps DEF KInv
<1> HIDE DEF s, f
<1> QED  BY <1>8, <1>9, <1>10, <1>12

\* In a session with tools a turn goes from its start to its end, and what it
\* called is open until its result.
LEMMA FrameTools ==
  ASSUME KInv, NEW f, NEW s, FrameRead(f, s), scene \in ToolScenes
  PROVE  ToolTurn'
<1> USE DEF Mine, Note, Old, TurnIds
<1> PICK i \in 1 .. Len(log) : i = conn.next  BY DEF FrameRead
<1>1. /\ ToolTurn /\ ToolFrame(i) /\ f = log[i] /\ f \in Frames /\ turn \in Turns /\ Len(log) \in Nat
      /\ ended \in [TurnIds -> Nat]
  BY DEF KInv, TurnInv, LogInv, ToolLog, FrameRead, Shapes
<1>2. /\ turn.prompt /\ ~turn.awaiting /\ ~turn.task /\ ~turn.notif /\ ~turn.gone
      /\ (turn.seen => turn.active = Mine) /\ turn.open \cap turn.results = {}
      /\ turn.open \cup turn.results \subseteq {Mine}
      /\ \A t \in TurnIds : ended[t] = IF t \in turn.results THEN 1 ELSE 0
  BY <1>1 DEF ToolTurn, FrameRead
<1>r. ASSUME ~conn.resynced, NEW j \in 1 .. i - 1
      PROVE  /\ log[j] = StartFrame => turn.seen
             /\ log[j] = CallFrame => Mine \in turn.open \cup turn.results
  BY <1>1, <1>r DEF ToolTurn, FrameRead
<1>3. f = CallFrame /\ ~conn.resynced => MyTurn(Mine)
  <2> SUFFICES ASSUME f = CallFrame, ~conn.resynced PROVE MyTurn(Mine)  OBVIOUS
  <2>1. PICK j \in 1 .. i - 1 : log[j] = StartFrame  BY <1>1 DEF ToolFrame
  <2> QED  BY <1>r, <1>2, <2>1 DEF MyTurn
<1>4. s \in Turns /\ s = Project(f) /\ f.type \notin TaskTypes  BY <1>1 DEF FrameRead, ToolFrame
<1>5. /\ ~s.awaiting /\ ~s.task /\ ~s.notif /\ ~s.gone /\ s.prompt
      /\ (s.seen => s.active = Mine) /\ s.open \cap s.results = {}
      /\ s.open \cup s.results \subseteq {Mine}
      /\ ~Ends(f) => /\ f = StartFrame \/ turn.seen => s.seen
                     /\ f = CallFrame /\ ~conn.resynced => Mine \in s.open \cup s.results
                     /\ turn.open \cup turn.results \subseteq s.open \cup s.results
                     /\ s.results = turn.results \cup {t \in TurnIds : t \in Records(f)}
                     /\ Records(f) \cap turn.results = {}
  <2>1. CASE f.type = "turn.started"
    <3>1. f.turn = Mine /\ ~Ends(f) /\ Records(f) = {} /\ f # CallFrame
      <4>1. f.turn = Mine  BY <1>1, <2>1 DEF ToolFrame
      <4>2. ~Ends(f)  BY <1>1, <2>1, EndsIs DEF EndTypes
      <4>3. Records(f) = {}  BY <2>1, <4>2 DEF Records, Frame
      <4>4. f # CallFrame  BY <2>1 DEF CallFrame, Frame
      <4> QED  BY <4>1, <4>2, <4>3, <4>4
    <3>2. PromptOf(Mine) = IF scene = "silent" THEN "none" ELSE "ours"  BY DEF PromptOf
    <3>3. s = TurnStarted(Mine)  BY <1>1, <1>4, <2>1, <3>1, Projects
    <3>4. Claims(Mine) <=> scene # "silent" \/ ~turn.seen  BY <1>2, <3>2 DEF Claims
    <3>5. s = IF Claims(Mine) THEN [turn EXCEPT !.active = Mine, !.seen = TRUE] ELSE turn
      BY <1>2, <3>3 DEF TurnStarted
    <3> QED  BY <1>1, <1>2, <3>1, <3>4, <3>5 DEF Turns
  <2>2. CASE Ends(f)
    <3>1. s = TurnEnded(ReasonOf(f))  BY <1>1, <1>4, <2>2, Projects
    <3> QED  BY <1>1, <1>2, <2>2, <3>1 DEF TurnEnded, Turns
  <2>3. CASE f.type = "tool.started"
    <3>1. ~Ends(f) /\ Records(f) = {} /\ f # StartFrame
      BY <1>1, <2>3, EndsIs DEF EndTypes, Records, Frame, StartFrame
    <3>2. CASE MyTurn(f.turn)
      <4>1. s = ToolStarted(Mine) /\ f.turn = Mine
        BY <1>1, <1>2, <1>4, <2>3, <3>2, Projects DEF MyTurn
      <4> QED  BY <1>1, <1>2, <3>1, <4>1 DEF ToolStarted, Turns
    <3>3. CASE ~MyTurn(f.turn)
      <4>1. s = turn  BY <1>1, <1>4, <2>3, <3>3, Projects
      <4>2. f # CallFrame \/ conn.resynced  BY <1>3, <3>3 DEF CallFrame, Frame
      <4> QED  BY <1>2, <3>1, <4>1, <4>2
    <3> QED  BY <3>2, <3>3
  <2>4. CASE f.type = "tool.result"
    <3>1. ~Ends(f) /\ f # StartFrame /\ f # CallFrame
      BY <1>1, <2>4, EndsIs DEF EndTypes, Frame, StartFrame, CallFrame
    <3>2. CASE MyTurn(f.turn) /\ FirstResult(f.turn)
      <4>1. /\ s = [turn EXCEPT !.results = @ \cup {Mine}, !.open = @ \ {Mine}] /\ f.turn = Mine
        BY <1>1, <1>2, <1>4, <2>4, <3>2, Projects, ZenonT(40) DEF MyTurn
      <4>2. Records(f) = {Mine} /\ Mine \notin turn.results
        BY <1>1, <2>4, <3>1, <3>2, <4>1 DEF Records, Frame, FirstResult, Frames
      <4> QED  BY <1>1, <1>2, <3>1, <4>1, <4>2 DEF Turns
    <3>3. CASE ~(MyTurn(f.turn) /\ FirstResult(f.turn))
      <4>1. s = turn  BY <1>1, <1>4, <2>4, <3>3, Projects
      <4>2. \A t : f = Frame("tool.result", t) => t = f.turn  BY DEF Frame
      <4>3. Records(f) = {}  BY <3>1, <3>3, <4>2 DEF Records
      <4> QED  BY <1>2, <3>1, <4>1, <4>3
    <3> QED  BY <3>2, <3>3
  <2>5. CASE f.type \notin {"turn.started", "tool.started", "tool.result"} /\ ~Ends(f)
    <3>1. s = turn  BY <1>1, <1>4, <2>5, Projects DEF Frames, ToolTypes
    <3>2. Records(f) = {} /\ f # StartFrame /\ f # CallFrame
      BY <2>5 DEF Records, Frame, StartFrame, CallFrame
    <3> QED  BY <1>2, <3>1, <3>2
  <2> QED  BY <2>1, <2>2, <2>3, <2>4, <2>5
<1>6. CASE ~Ends(f)
  <2>1. turn' = s /\ pc' = pc /\ result' = "none"
    BY <1>5, <1>6 DEF FrameRead, Finished
  <2>2. \A t \in TurnIds : ended'[t] = IF t \in s.results THEN 1 ELSE 0
    BY <1>1, <1>2, <1>5, <1>6 DEF FrameRead
  <2>3. ~conn.resynced =>
          \A j \in 1 .. i : /\ log[j] = StartFrame => s.seen
                            /\ log[j] = CallFrame => Mine \in s.open \cup s.results
    <3> SUFFICES ASSUME ~conn.resynced, NEW j \in 1 .. i
                 PROVE  /\ log[j] = StartFrame => s.seen
                        /\ log[j] = CallFrame => Mine \in s.open \cup s.results
      OBVIOUS
    <3>1. CASE j = i  BY <1>1, <1>5, <1>6, <3>1
    <3>2. CASE j \in 1 .. i - 1
      <4>1. log[j] = StartFrame => turn.seen  BY <1>r, <3>2
      <4>2. log[j] = CallFrame => Mine \in turn.open \cup turn.results  BY <1>r, <3>2
      <4> QED  BY <1>5, <1>6, <4>1, <4>2
    <3> QED  BY <3>1, <3>2
  <2>4. conn'.next - 1 = i /\ conn'.resynced = conn.resynced /\ UNCHANGED <<log, scene, agent>>  BY DEF FrameRead
  <2> QED
    BY <1>5, <2>1, <2>2, <2>3, <2>4 DEF ToolTurn, Pumping, StartFrame, CallFrame, Frame
<1>7. CASE Ends(f)
  <2>1. ~Holds(s)  BY <1>5 DEF Holds
  <2>2. turn' = s /\ pc' = "done" /\ result' = EndResult(s)  BY <1>5, <1>7, <2>1 DEF FrameRead
  <2>3. UNCHANGED <<log, scene, agent>> /\ conn'.resynced = conn.resynced  BY DEF FrameRead
  <2>4. MyTurn(f.turn) /\ f.turn = Mine /\ EndAt(i, Mine)
    BY <1>1, <1>2, <1>7, EndsIs DEF MyTurn, EndAt
  <2>5. Records(f) = turn.open
    BY <1>1, <1>2, <1>7, <2>4 DEF Records, Frame, EndAt, EndTypes
  <2>6. \A t \in TurnIds : ended'[t] = IF t \in turn.open \cup turn.results THEN 1 ELSE 0
    BY <1>1, <1>2, <2>5 DEF FrameRead
  <2>7. agent.over[Mine] # "no" /\ \A j \in 1 .. Len(log) : log[j] = CallFrame => j < i
    BY <1>1, <2>4 DEF ToolFrame
  <2>8. ~conn.resynced /\ Wrote(CallFrame)' => ended'[Mine] = 1
    <3> SUFFICES ASSUME ~conn.resynced, NEW j \in 1 .. Len(log), log[j] = CallFrame PROVE ended'[Mine] = 1
      BY <2>3 DEF Wrote, CallFrame, Frame
    <3>1. j \in 1 .. i - 1  BY <1>1, <2>7
    <3>2. Mine \in turn.open \cup turn.results  BY <1>r, <3>1
    <3> QED  BY <2>6, <3>2
  <2>9. ~Pumping'  BY <2>2 DEF Pumping
  <2>10. (\A t \in TurnIds : ended'[t] <= 1) /\ s.open = {}
    <3>1. s = TurnEnded(ReasonOf(f))  BY <1>1, <1>4, <1>7, Projects
    <3>2. s.open = {}  BY <1>1, <3>1 DEF TurnEnded, Turns
    <3>3. \A t \in TurnIds : ended'[t] \in {0, 1}  BY <2>6
    <3> QED  BY <3>2, <3>3
  <2> QED  BY <1>5, <2>2, <2>3, <2>7, <2>8, <2>9, <2>10 DEF ToolTurn
<1> QED  BY <1>6, <1>7

LEMMA FrameToolless ==
  ASSUME KInv, NEW f, NEW s, FrameRead(f, s), scene \notin ToolScenes
  PROVE  Toolless'
<1>1. /\ Toolless /\ f \in Frames /\ f.type \notin ToolTypes /\ turn \in Turns /\ s \in Turns
      /\ ended \in [TurnIds -> Nat]
  BY DEF KInv, TurnInv, FrameRead, Toolless, Shapes
<1>2. turn.open = {} /\ turn.results = {}  BY <1>1 DEF Toolless
<1>3. s.open = {} /\ s.results = {}
  <2>1. s = Project(f)  BY DEF FrameRead
  <2>2. CASE f.type = "turn.started"
    BY <1>1, <1>2, <2>1, <2>2, Projects, ZenonT(40) DEF TurnStarted, BeginNotification, Turns
  <2>3. CASE Ends(f)  BY <1>1, <1>2, <2>1, <2>3, Projects, ZenonT(40) DEF TurnEnded, Turns
  <2>4. CASE f.type \in TaskTypes
    <3>1. \A b : /\ TaskTerminated(b).open = turn.open
                 /\ TaskTerminated(b).results = turn.results
      BY <1>1 DEF TaskTerminated, Turns
    <3>2. TaskStarted.open = turn.open /\ TaskStarted.results = turn.results
      BY <1>1 DEF TaskStarted, Turns
    <3>3. TaskNotified.open = turn.open /\ TaskNotified.results = turn.results
      BY <1>1 DEF TaskNotified, Turns
    <3>4. TaskWaited.open = turn.open /\ TaskWaited.results = turn.results
      BY <1>1 DEF TaskWaited, Turns
    <3> QED  BY <1>1, <1>2, <2>1, <2>4, <3>1, <3>2, <3>3, <3>4, Projects DEF TaskTypes
  <2>5. CASE f.type \notin {"turn.started"} \cup TaskTypes /\ ~Ends(f)
    <3>1. s = turn  BY <1>1, <2>1, <2>5, Projects DEF Frames, ToolTypes, TaskTypes
    <3> QED  BY <1>2, <3>1
  <2> QED  BY <2>2, <2>3, <2>4, <2>5
<1>4. turn'.open = {} /\ turn'.results = {}  BY <1>1, <1>3 DEF FrameRead, Held, Turns
<1>5. Records(f) = {}  BY <1>1, <1>2 DEF Records, ToolTypes, Frame
<1>6. \A t \in TurnIds : ended'[t] = ended[t]  BY <1>1, <1>5 DEF FrameRead
<1> QED  BY <1>1, <1>4, <1>6 DEF Toolless, FrameRead

\* What a frame of a session with a detached task makes of the turn, unless it
\* ends it.
TaskKnown(s) ==
  /\ s.task => ~s.gone
  /\ s.notif => s.gone
  /\ Earlier(conn.next + 1, "task.started") => s.task \/ s.gone
  /\ Earlier(conn.next + 1, "task.terminated") \/ Earlier(conn.next + 1, "task.suppressed") => s.gone

LEMMA EarlierNext ==
  ASSUME NEW i \in Nat \ {0}, NEW p
  PROVE  Earlier(i + 1, p) <=> Earlier(i, p) \/ log[i].type = p
BY DEF Earlier

LEMMA TaskProjects ==
  ASSUME KInv, NEW f, NEW s, FrameRead(f, s), scene = "task", ~conn.resynced, ~Ends(f)
  PROVE  /\ TaskKnown(s)
         /\ f.type # "turn.started" =>
              /\ s.prompt = turn.prompt /\ s.active = turn.active /\ s.seen = turn.seen
              /\ s.awaiting = turn.awaiting
              /\ s.gone /\ ~s.notif => agent.task = "told" \/ Tells
              /\ turn.gone => s.gone
              /\ turn.task \/ turn.gone => s.task \/ s.gone
         /\ turn.gone /\ ~turn.notif => ~s.notif
<1> USE DEF Mine, Note, Old, TurnIds
<1> PICK i \in 1 .. Len(log) : i = conn.next  BY DEF FrameRead
<1>1. /\ TaskTurn /\ TaskFrame(i) /\ f = log[i] /\ f \in Frames /\ turn \in Turns /\ s = Project(f)
      /\ i \in Nat \ {0} /\ pc # "done"
  BY DEF KInv, TurnInv, LogInv, TaskLog, FrameRead, Shapes
<1>2. /\ turn.task => ~turn.gone
      /\ turn.notif => turn.gone
      /\ Earlier(i, "task.started") => turn.task \/ turn.gone
      /\ Earlier(i, "task.terminated") \/ Earlier(i, "task.suppressed") => turn.gone
      /\ turn.gone /\ ~turn.notif => Tells \/ agent.task = "told"
      /\ ByPrompt \/ Awaits \/ Tells
  BY <1>1 DEF TaskTurn
<1>3. \A p : Earlier(i + 1, p) <=> Earlier(i, p) \/ f.type = p  BY <1>1, EarlierNext
<1>4. CASE f.type = "turn.started"
  <2>1. s = TurnStarted(f.turn)  BY <1>1, <1>4, Projects
  <2>2. /\ s.task = turn.task /\ s.gone = turn.gone /\ (s.notif => turn.notif)
    BY <1>1, <2>1 DEF TurnStarted, BeginNotification, Turns
  <2> QED  BY <1>1, <1>2, <1>3, <1>4, <2>2 DEF TaskKnown
<1>5. CASE f.type = "task.started"
  <2>1. s = IF turn.gone THEN turn ELSE [turn EXCEPT !.task = TRUE]
    BY <1>1, <1>5, Projects DEF TaskStarted
  <2> QED  BY <1>1, <1>2, <1>3, <1>5, <2>1 DEF TaskKnown, Turns
<1>6. CASE f.type \in {"task.terminated", "task.suppressed"}
  <2>1. PICK b \in BOOLEAN : b = (f.type = "task.terminated")  OBVIOUS
  <2>2. s = TaskTerminated(b)  BY <1>1, <1>6, <2>1, Projects
  <2>3. turn.task \/ turn.gone  BY <1>1, <1>2, <1>6 DEF TaskFrame
  <2>4. ~b => agent.task = "told"  BY <1>1, <1>6, <2>1 DEF TaskFrame
  <2>5. CASE turn.gone
    <3>1. s = turn  BY <2>2, <2>5 DEF TaskTerminated
    <3> QED  BY <1>1, <1>2, <1>3, <1>6, <2>5, <3>1 DEF TaskKnown
  <2>6. CASE ~turn.gone
    <3>1. s = [turn EXCEPT !.gone = TRUE, !.task = FALSE, !.notif = b]
      BY <2>2, <2>3, <2>6 DEF TaskTerminated
    <3> QED  BY <1>1, <1>2, <1>3, <1>6, <2>4, <2>6, <3>1 DEF TaskKnown, Turns
  <2> QED  BY <2>5, <2>6
<1>7. CASE f.type = "task.notified"
  <2>1. turn.gone /\ ~turn.task  BY <1>1, <1>2, <1>7 DEF TaskFrame
  <2>2. s = [turn EXCEPT !.task = FALSE, !.notif = @ /\ ~(turn.seen /\ ~turn.awaiting)]
    BY <1>1, <1>7, <2>1, Projects DEF TaskNotified, Known
  <2>3. /\ ~s.task /\ s.gone /\ (s.notif <=> turn.notif /\ ~(turn.seen /\ ~turn.awaiting))
        /\ s.prompt = turn.prompt /\ s.active = turn.active /\ s.seen = turn.seen
        /\ s.awaiting = turn.awaiting
    BY <1>1, <2>1, <2>2 DEF Turns
  <2>4. ByPrompt /\ turn.seen => agent.task = "told"
    BY <1>1, <1>7 DEF ByPrompt, TaskFrame
  <2>5. ByPrompt => turn.seen  BY <2>1 DEF ByPrompt
  <2>6. ~s.notif => agent.task = "told" \/ Tells
    BY <1>2, <2>1, <2>3, <2>4, <2>5 DEF Awaits
  <2> QED  BY <1>2, <1>3, <1>7, <2>1, <2>3, <2>6 DEF TaskKnown
<1>8. CASE f.type = "task.waitDelivered"
  <2>1. turn.gone /\ agent.task = "told"  BY <1>1, <1>2, <1>8 DEF TaskFrame
  <2>2. s = [turn EXCEPT !.task = FALSE, !.notif = FALSE, !.gone = TRUE]
    BY <1>1, <1>8, <2>1, Projects DEF TaskWaited, Known
  <2> QED  BY <1>1, <1>2, <1>3, <1>8, <2>1, <2>2 DEF TaskKnown, Turns
<1>9. CASE f.type \notin {"turn.started"} \cup TaskTypes
  <2>1. s = turn  BY <1>1, <1>9, Projects DEF Frames, TaskFrame, TaskTypes
  <2> QED  BY <1>1, <1>2, <1>3, <1>9, <2>1 DEF TaskKnown, TaskTypes
<1> QED  BY <1>4, <1>5, <1>6, <1>7, <1>8, <1>9 DEF TaskTypes

\* A turn that ends with its task untold is held; otherwise its success has
\* told of the task, or there was none.
LEMMA FrameEndsTask ==
  ASSUME KInv, NEW f, NEW s, FrameRead(f, s), scene = "task", ~conn.resynced, Ends(f)
  PROVE  TaskTurn' /\ Succeeds'
<1> USE DEF Mine, Note, Old, TurnIds
<1> PICK i \in 1 .. Len(log) : i = conn.next  BY DEF FrameRead
<1>1. /\ TaskTurn /\ TaskAgent /\ TaskFrame(i) /\ f = log[i] /\ f \in Frames /\ turn \in Turns
      /\ i \in Nat \ {0} /\ Len(log) \in Nat /\ pc # "done" /\ (pc = "cancelling" => ctx)
      /\ UNCHANGED <<scene, agent, log, ctx>> /\ conn'.next = i + 1
  BY DEF KInv, TurnInv, LogInv, TaskLog, FrameRead, Shapes
<1>2. /\ turn.task => ~turn.gone
      /\ turn.notif => turn.gone
      /\ Earlier(i, "task.started") => turn.task \/ turn.gone
      /\ Earlier(i, "task.terminated") \/ Earlier(i, "task.suppressed") => turn.gone
      /\ turn.gone /\ ~turn.notif => Tells \/ agent.task = "told"
      /\ ByPrompt \/ Awaits \/ Tells
  BY <1>1 DEF TaskTurn
<1>3. MyTurn(f.turn) /\ f.type \in EndTypes /\ ReasonOf(f) \in Reasoned  BY <1>1, EndsIs
<1>4. s = TurnEnded(ReasonOf(f))  BY <1>1, Projects DEF FrameRead
<1>5. /\ s.task = turn.task /\ s.notif = turn.notif /\ s.gone = turn.gone /\ ~s.seen
      /\ s.active = turn.active /\ s.awaiting = turn.awaiting /\ s.end = ReasonOf(f)
  BY <1>1, <1>4 DEF TurnEnded, Turns
<1>6. ~turn.awaiting /\ turn.active = f.turn  BY <1>2, <1>3 DEF MyTurn, ByPrompt, Awaits, Tells
<1>7. CASE pc # "cancelling" /\ Holds(s)
  <2>1. turn' = Held(s)  BY <1>7 DEF FrameRead
  <2>2. /\ turn'.task = turn.task /\ turn'.notif = turn.notif /\ turn'.gone = turn.gone
        /\ ~turn'.seen /\ turn'.awaiting /\ turn'.active = turn.active
    BY <1>1, <1>5, <2>1, ZenonT(40) DEF Held, Turns, FrameRead
  <2>3. s.task \/ s.notif  BY <1>7 DEF Holds
  <2>4. pc' = pc /\ result' = "none"  BY <1>5, <2>2, <2>3 DEF FrameRead, Finished
  <2>5. turn.active = Mine  BY <1>2, <1>5, <1>6, <2>3 DEF ByPrompt, Awaits, Tells
  <2>6. Awaits'  BY <1>2, <1>5, <2>2, <2>3, <2>5 DEF Awaits
  <2>7. \A p : Earlier(conn.next, p)' => Earlier(i, p) \/ f.type = p
    BY <1>1, EarlierNext DEF Earlier
  <2>8. ~Tells  BY <2>5 DEF Tells
  <2>9. TaskTurn'
    BY <1>1, <1>2, <1>3, <2>2, <2>6, <2>7, <2>8 DEF TaskTurn, EndTypes
  <2> QED  BY <2>4, <2>9 DEF Succeeds
<1>8. CASE ~(pc # "cancelling" /\ Holds(s))
  <2>1. turn' = s /\ pc' = "done" /\ result' = EndResult(s)  BY <1>5, <1>6, <1>8 DEF FrameRead
  <2>2. SUFFICES ASSUME result' = "succeeded"
                 PROVE  agent.task = "told" \/ (agent.task = "none" /\ agent.over[Mine] # "no")
    BY <1>1, <2>1 DEF TaskTurn, Succeeds
  <2>3. ~ctx /\ s.end = "completed"
    BY <1>3, <1>5, <2>1, <2>2 DEF EndResult, Intent, Reasoned
  <2>4. ~turn.task /\ ~turn.notif  BY <1>1, <1>5, <1>8, <2>3 DEF Holds
  <2>5. CASE f.turn = Note  BY <1>1, <1>3, <2>5 DEF TaskFrame, EndAt
  <2>6. CASE f.turn # Note
    <3>1. ByPrompt /\ turn.seen /\ turn.active = Mine
      BY <1>2, <1>3, <1>6, <2>6 DEF MyTurn, ByPrompt, Awaits, Tells
    <3>2. EndAt(i, Mine)  BY <1>1, <1>3, <1>6, <3>1 DEF EndAt
    <3>3. ~Tells  BY <3>1 DEF Tells
    <3>4. CASE agent.task = "none"  BY <1>1, <3>2, <3>4 DEF TaskFrame
    <3>5. CASE agent.task # "none"
      <4>1. PICK j \in 1 .. Len(log) : log[j].type = "task.started"
        BY <1>1, <3>5 DEF TaskAgent, Earlier
      <4>2. j < i  BY <1>1, <3>2, <4>1 DEF TaskFrame
      <4>3. Earlier(i, "task.started")  BY <1>1, <4>1, <4>2 DEF Earlier
      <4> QED  BY <1>2, <2>4, <3>3, <4>3
    <3> QED  BY <3>4, <3>5
  <2> QED  BY <2>5, <2>6
<1> QED  BY <1>7, <1>8

LEMMA FrameInTask ==
  ASSUME KInv, NEW f, NEW s, FrameRead(f, s), scene = "task", ~conn.resynced, ~Ends(f)
  PROVE  TaskTurn' /\ Succeeds'
<1> USE DEF Mine, Note, Old, TurnIds
<1> PICK i \in 1 .. Len(log) : i = conn.next  BY DEF FrameRead
<1>1. /\ TaskTurn /\ TaskAgent /\ TaskFrame(i) /\ f = log[i] /\ f \in Frames /\ turn \in Turns
      /\ i \in Nat \ {0} /\ Len(log) \in Nat /\ pc # "done" /\ Pumping /\ s = Project(f)
      /\ UNCHANGED <<scene, agent, log, ctx>> /\ conn'.next = i + 1 /\ turn' = s
  BY DEF KInv, TurnInv, LogInv, TaskLog, FrameRead, Shapes
<1>2. /\ turn.notif => turn.gone
      /\ turn.gone /\ ~turn.notif => Tells \/ agent.task = "told"
      /\ ByPrompt \/ Awaits \/ Tells
  BY <1>1 DEF TaskTurn
<1>3. /\ s.task => ~s.gone
      /\ s.notif => s.gone
      /\ Earlier(i + 1, "task.started") => s.task \/ s.gone
      /\ Earlier(i + 1, "task.terminated") \/ Earlier(i + 1, "task.suppressed") => s.gone
  BY TaskProjects DEF TaskKnown
<1>4. \A p : Earlier(conn.next, p)' <=> Earlier(i + 1, p)  BY <1>1 DEF Earlier
\* The state the frame leads to.
<1>5. /\ pc' # "done" => ByPrompt' \/ Awaits' \/ Tells'
      /\ s.gone /\ ~s.notif =>
           agent.task = "told" \/ (~s.awaiting /\ (pc' # "done" => Tells'))
      /\ s.awaiting => s.task \/ s.gone
  <2>1. pc' # "done" => pc' = pc /\ Pumping'  BY <1>1 DEF FrameRead, Pumping
  <2>2. CASE f.type # "turn.started"
    <3>1. /\ s.prompt = turn.prompt /\ s.active = turn.active /\ s.seen = turn.seen
          /\ s.awaiting = turn.awaiting /\ (turn.gone => s.gone)
          /\ (s.gone /\ ~s.notif => agent.task = "told" \/ Tells)
          /\ (turn.task \/ turn.gone => s.task \/ s.gone)
          /\ (turn.gone /\ ~turn.notif => ~s.notif)
      BY <2>2, TaskProjects
    <3>2. i # 1 /\ (ByPrompt => turn.seen)
      BY <1>1, <2>2 DEF TaskFrame, StartFrame, Frame, ByPrompt
    <3>3. ByPrompt => ~EndAt(i, Mine)
      BY <1>1, <3>2, EndsIs DEF ByPrompt, EndAt, MyTurn
    <3>4. ByPrompt /\ pc' # "done" => ByPrompt'
      <4> SUFFICES ASSUME ByPrompt, pc' # "done" PROVE ByPrompt'  OBVIOUS
      <4>1. \A j \in 1 .. i : ~EndAt(j, Mine)'  BY <1>1, <3>2, <3>3 DEF ByPrompt, EndAt
      <4>2. conn'.next - 1 = i  BY <1>1
      <4> QED  BY <1>1, <2>1, <3>1, <3>2, <4>1, <4>2 DEF ByPrompt
    <3>5. Awaits => Awaits'  BY <1>1, <3>1 DEF Awaits
    <3>6. Tells /\ pc' # "done" => Tells'  BY <1>1, <2>1, <3>1 DEF Tells
    <3>7. s.awaiting => s.task \/ s.gone  BY <1>2, <3>1 DEF ByPrompt, Awaits, Tells
    <3>8. Tells => ~s.awaiting  BY <3>1 DEF Tells
    <3> QED  BY <1>2, <3>1, <3>4, <3>5, <3>6, <3>7, <3>8
  <2>3. CASE f.type = "turn.started"
    <3>1. s = TurnStarted(f.turn) /\ (f.turn = Mine <=> i = 1) /\ f.turn # Old
      <4>1. s = TurnStarted(f.turn)  BY <1>1, <2>3, Projects
      <4>2. f.turn = Mine <=> f = StartFrame  BY <1>1, <2>3 DEF StartFrame, Frame, Frames
      <4> QED  BY <1>1, <4>1, <4>2 DEF TaskFrame
    <3>2. PromptOf(f.turn) = IF f.turn = Mine THEN "ours" ELSE "none"
      BY <3>1 DEF PromptOf
    <3>3. ~EndAt(i, Mine)  BY <1>1, <2>3 DEF EndAt, EndTypes
    <3>4. CASE ByPrompt
      <4>1. turn.prompt /\ ~turn.awaiting /\ (~turn.seen => i = 1)  BY <1>1, <3>4 DEF ByPrompt
      <4>2. s = IF f.turn = Mine THEN [turn EXCEPT !.active = Mine, !.seen = TRUE] ELSE turn
        BY <3>1, <3>2, <4>1 DEF TurnStarted, Claims
      <4>3. /\ s.seen /\ s.active = Mine /\ s.prompt /\ ~s.awaiting
            /\ s.gone = turn.gone /\ s.notif = turn.notif
        BY <1>1, <3>1, <3>4, <4>1, <4>2 DEF Turns, ByPrompt
      <4>4. \A j \in 1 .. i : ~EndAt(j, Mine)'
        BY <1>1, <3>3, <3>4, <4>1 DEF ByPrompt, EndAt
      <4>5. conn'.next - 1 = i  BY <1>1
      <4>6. ByPrompt'  BY <1>1, <4>3, <4>4, <4>5 DEF ByPrompt
      <4>7. ~Tells  BY <4>1, <3>4 DEF Tells
      <4> QED  BY <1>2, <4>3, <4>6, <4>7
    <3>5. CASE Awaits
      <4>1. CASE f.turn = Note /\ turn.notif
        <5>1. s = BeginNotification(Note)  BY <3>1, <3>5, <4>1 DEF TurnStarted, Awaits
        <5>2. /\ s.seen /\ s.active = Note /\ ~s.awaiting /\ s.gone /\ ~s.notif /\ ~s.prompt
          BY <1>1, <1>2, <4>1, <5>1 DEF BeginNotification, Turns
        <5>3. pc' # "done" => Tells'  BY <1>1, <2>1, <5>2 DEF Tells
        <5> QED  BY <5>2, <5>3
      <4>2. CASE ~(f.turn = Note /\ turn.notif)
        <5>1. s = turn  BY <3>1, <3>5, <4>2 DEF TurnStarted, Awaits
        <5>2. ~Tells /\ Awaits'  BY <1>1, <3>5, <5>1 DEF Awaits, Tells
        <5> QED  BY <1>2, <3>5, <5>1, <5>2 DEF Awaits
      <4> QED  BY <4>1, <4>2
    <3>6. CASE Tells
      <4>1. s = turn  BY <3>1, <3>2, <3>6 DEF TurnStarted, Claims, Tells
      <4>2. pc' # "done" => Tells'  BY <1>1, <2>1, <3>6, <4>1 DEF Tells
      <4> QED  BY <3>6, <4>1, <4>2 DEF Tells
    <3> QED  BY <1>2, <3>4, <3>5, <3>6
  <2> QED  BY <2>2, <2>3
<1>6. TaskTurn'
  <2> SUFFICES ASSUME pc' # "done" PROVE TaskTurn'  BY DEF TaskTurn
  <2>1. /\ turn'.task = s.task /\ turn'.gone = s.gone /\ turn'.notif = s.notif
        /\ agent'.task = agent.task
    BY <1>1
  <2> QED  BY <1>3, <1>4, <1>5, <2>1 DEF TaskTurn
<1>7. Succeeds'
  <2> SUFFICES ASSUME result' = "succeeded" PROVE agent.task = "told"
    BY <1>1 DEF Succeeds
  <2>1. s.awaiting /\ ~s.task /\ ~s.notif  BY <1>1 DEF FrameRead, Finished
  <2> QED  BY <1>5, <2>1
<1> QED  BY <1>6, <1>7

\* A run that succeeds on a frame knows of no task that it should wait for.
LEMMA FrameSettles == ASSUME KInv, NEW f, NEW s, FrameRead(f, s) PROVE Settled'
<1> SUFFICES ASSUME result' = "succeeded" PROVE ~turn'.task /\ ~turn'.notif  BY DEF Settled
<1>1. /\ (Ends(f) /\ ~turn'.awaiting) \/ Finished(turn')
      /\ EndResult(turn') = "succeeded" /\ ctx' = ctx /\ (pc = "cancelling" => ctx)
      /\ turn' = IF Ends(f) /\ pc # "cancelling" /\ Holds(s) THEN Held(s) ELSE s
      /\ turn' \in Turns /\ s \in Turns
  <2>1. s \in Turns /\ Held(s) \in Turns  BY DEF FrameRead, Held, Turns
  <2> QED  BY <2>1 DEF FrameRead, KInv, Shapes
<1>2. CASE Finished(turn')  BY <1>2 DEF Finished
<1>3. CASE Ends(f) /\ ~turn'.awaiting
  <2>1. ~ctx /\ turn'.end \notin {"failed", "cancelled"}  BY <1>1 DEF EndResult, Intent
  <2>2. ~Holds(s) /\ turn' = s  BY <1>1, <1>3, <2>1 DEF Held, Turns
  <2>3. s.end \in Reasoned
    <3>1. f \in Frames /\ s = Project(f) /\ turn \in Turns  BY DEF FrameRead, KInv, Shapes
    <3>2. s = TurnEnded(ReasonOf(f)) /\ ReasonOf(f) \in Reasoned  BY <1>3, <3>1, EndsIs, Projects
    <3> QED  BY <3>1, <3>2 DEF TurnEnded, Turns
  <2> QED  BY <2>1, <2>2, <2>3 DEF Holds, Reasoned
<1> QED  BY <1>1, <1>2, <1>3

LEMMA HandleFrameKeeps == ASSUME KInv, HandleFrame PROVE KInv'
<1>1. PICK f, s : FrameRead(f, s)  BY FrameIsRead
<1>2. Within' /\ Shapes' /\ LogInv' /\ scene' = scene  BY <1>1, FrameIsRead DEF FrameRead
<1>3. CASE scene \in ToolScenes
  <2>1. ToolTurn'  BY <1>1, <1>3, FrameTools
  <2>2. scene # "task" /\ Settled'  BY <1>1, <1>3, FrameSettles DEF ToolScenes
  <2> QED  BY <1>2, <1>3, <2>1, <2>2 DEF KInv, TurnInv, Toolless, TaskTurn, Succeeds
<1>4. CASE scene \notin ToolScenes
  <2>1. Toolless'  BY <1>1, <1>4, FrameToolless
  <2>2. ToolTurn'  BY <1>2, <1>4 DEF ToolTurn
  <2>3. TaskTurn' /\ Succeeds'
    <3>1. CASE scene = "task" /\ ~conn.resynced /\ Ends(f)  BY <1>1, <3>1, FrameEndsTask
    <3>2. CASE scene = "task" /\ ~conn.resynced /\ ~Ends(f)  BY <1>1, <3>2, FrameInTask
    <3>3. CASE scene # "task" \/ conn.resynced
      BY <1>1, <1>2, <3>3 DEF TaskTurn, Succeeds, FrameRead
    <3> QED  BY <3>1, <3>2, <3>3
  <2>4. Settled'  BY <1>1, FrameSettles
  <2> QED  BY <1>2, <1>4, <2>1, <2>2, <2>3, <2>4 DEF KInv, TurnInv
<1> QED  BY <1>3, <1>4

-----------------------------------------------------------------------------
(* The invariant of a turn *)

LEMMA ProviderKeeps == ASSUME KInv, ProviderStep PROVE KInv'
BY OnwardKeeps DEF KInv, TurnInv, ProviderStep

\* The user's cancellation, and a connection that breaks.
LEMMA TroubleKeeps == ASSUME KInv, UserCancels \/ Break PROVE KInv'
<1>1. /\ Shapes /\ Within /\ UNCHANGED <<kap, scene, agent, log, pc, result, turn, cursor, ended>>
      /\ conn \in Conns /\ Len(log) \in Nat
  BY DEF KInv, UserCancels, Break, Shapes, qvars
<1>2. Unwritten  BY <1>1 DEF Unwritten, Shapes, KInv, LogInv, Session
<1>3. CASE UserCancels
  <2>1. ctx' = TRUE /\ conn' = conn /\ pc # "done"  BY <1>3 DEF UserCancels
  <2> QED  BY <1>1, <1>2, <2>1, WithinStill, MovesKeep DEF PumpMoves, Shapes, Pumping
<1>4. CASE Break
  <2>1. PICK last \in {conn.next - 1 + conn.buffered, Len(log)} :
          conn' = [conn EXCEPT !.up = FALSE, !.last = last]
    BY <1>4 DEF Break
  <2>2. last \in Nat /\ last <= Len(log) /\ ctx' = ctx
    BY <1>1, <1>4, <2>1 DEF Within, Break
  <2>3. /\ conn' \in Conns /\ conn'.resynced = conn.resynced
        /\ conn'.next = conn.next /\ conn'.buffered = conn.buffered /\ conn'.last = last
    BY <1>1, <2>1, <2>2
  <2>4. Within'  BY <1>1, <2>2, <2>3 DEF Within
  <2> QED  BY <1>1, <1>2, <2>2, <2>3, <2>4, MovesKeep DEF PumpMoves, Shapes, Pumping
<1> QED  BY <1>3, <1>4

\* What goes on beside the turn, in the service and in the control goroutine.
LEMMA BesideKeeps == ASSUME KInv, UNCHANGED <<turnVars, kap>> PROVE KInv'
<1>1. Shapes /\ Within  BY DEF KInv
<1>2. Unwritten  BY <1>1 DEF Unwritten, turnVars, Shapes, KInv, LogInv, Session
<1>3. Within'  BY <1>1, WithinStill DEF turnVars
<1> QED  BY <1>1, <1>2, <1>3, MovesKeep DEF PumpMoves, turnVars, Shapes, Pumping

LEMMA KInitKeeps == ASSUME TurnAssumption, KInit PROVE KInv
<1> USE DEF Mine, Note, Old, TurnIds
<1>1. /\ scene \in Scenes /\ kap.st = "none" /\ log = <<>> /\ Len(log) = 0
      /\ agent.turn \in {0, Old} /\ agent.prompt = "none" /\ agent.tool = "none"
      /\ agent.task = IF scene = "stray" THEN "ended" ELSE "none"
      /\ agent.over[Mine] = "no" /\ (agent.turn = Old => scene = "older")
  <2>1. scene \in Scenes /\ kap.st = "none"  BY DEF KInit, DInit
  <2>2. log = <<>> /\ Len(log) = 0  BY DEF KInit
  <2>3. agent = [turn |-> IF scene = "older" THEN Old ELSE 0, prompt |-> "none", tool |-> "none",
                 task |-> IF scene = "stray" THEN "ended" ELSE "none", abort |-> FALSE,
                 over |-> [t \in TurnIds |-> "no"]]
    BY DEF KInit
  <2> QED  BY <2>1, <2>2, <2>3
<1>2. /\ pc = "session" /\ result = "none" /\ ctx = FALSE /\ cursor = 0
      /\ conn = [up |-> FALSE, next |-> 1, last |-> 0, buffered |-> 0, resynced |-> FALSE]
      /\ turn = [prompt |-> FALSE, active |-> 0, seen |-> FALSE, end |-> "", open |-> {},
                 results |-> {}, task |-> FALSE, notif |-> FALSE, gone |-> FALSE,
                 awaiting |-> FALSE]
      /\ ended = [t \in TurnIds |-> 0]
  BY DEF KInit
<1>3. agent \in Agents  BY DEF KInit, Agents, Reasons
<1>4. turn \in Turns  BY <1>2 DEF Turns
<1>5. Shapes
  <2>1. log \in Seq(Frames)  BY <1>1
  <2>2. ended \in [TurnIds -> Nat]  BY <1>2
  <2>3. conn \in Conns  BY <1>2
  <2> QED  BY <1>1, <1>2, <1>3, <1>4, <2>1, <2>2, <2>3 DEF Shapes, ToolScenes, Pcs
<1>7. LogInv
  <2>1. \A i \in 1 .. Len(log) : FALSE  BY <1>1
  <2>2. Session  BY <1>1 DEF Session
  <2>3. ToolLog  BY <1>1, <2>1 DEF ToolLog, ToolAgent
  <2>4. TaskLog  BY <1>1, <2>1 DEF TaskLog, TaskAgent
  <2> QED  BY <2>2, <2>3, <2>4 DEF LogInv
<1>8. /\ turn.seen = FALSE /\ turn.open = {} /\ turn.results = {} /\ turn.task = FALSE
      /\ turn.gone = FALSE /\ turn.notif = FALSE /\ turn.awaiting = FALSE /\ conn.next = 1
      /\ conn.buffered = 0 /\ conn.last = 0
      /\ \A i \in 1 .. conn.next - 1 : FALSE
      /\ \A t \in TurnIds : ended[t] = 0
  <2>1. conn = [up |-> FALSE, next |-> 1, last |-> 0, buffered |-> 0, resynced |-> FALSE]  BY <1>2
  <2>2. conn.next = 1 /\ conn.buffered = 0 /\ conn.last = 0  BY <2>1
  <2>3. turn = [prompt |-> FALSE, active |-> 0, seen |-> FALSE, end |-> "", open |-> {},
                results |-> {}, task |-> FALSE, notif |-> FALSE, gone |-> FALSE,
                awaiting |-> FALSE]
    BY <1>2
  <2>4. /\ turn.seen = FALSE /\ turn.open = {} /\ turn.results = {} /\ turn.task = FALSE
        /\ turn.gone = FALSE /\ turn.notif = FALSE /\ turn.awaiting = FALSE
    BY <2>3
  <2>5. \A i \in 1 .. conn.next - 1 : FALSE  BY <2>2
  <2>6. \A t \in TurnIds : ended[t] = 0  BY <1>2
  <2> QED  BY <2>2, <2>4, <2>5, <2>6
<1>6. Within
  <2>1. cursor = 0 /\ Len(log) = 0  BY <1>1, <1>2
  <2> QED  BY <1>8, <2>1 DEF Within
<1>9. ToolTurn /\ Toolless /\ TaskTurn /\ Succeeds /\ Settled
  <2>1. ToolTurn
    <3>1. pc = "session" /\ result = "none"  BY <1>2
    <3> QED  BY <1>8, <3>1 DEF ToolTurn, Pumping
  <2>2. Toolless  BY <1>1, <1>8 DEF Toolless
  <2>3. TaskTurn  BY <1>2, <1>8 DEF TaskTurn, ByPrompt, Pumping, Earlier
  <2>4. Succeeds /\ Settled  BY <1>2 DEF Succeeds, Settled
  <2> QED  BY <2>1, <2>2, <2>3, <2>4
<1> QED  BY <1>5, <1>6, <1>7, <1>9 DEF KInv, TurnInv

LEMMA KNextKeeps == ASSUME KInv, DTypeOK, [KNext]_vars PROVE KInv'
<1>1. CASE AgentStep
  <2>1. CASE Break  BY <2>1, TroubleKeeps
  <2>2. CASE StartTurn \/ CallTool \/ ToolReturns \/ Detach \/ TaskEnds \/ ToldInline
               \/ StartNotification \/ EndTurn \/ KAsks \/ AtKap(SettledElsewhere)
    <3>1. ProviderStep
      BY <2>2, StartTurnKeeps, CallToolKeeps, ToolReturnsKeeps, TaskStepKeeps,
         StartNotificationKeeps, EndTurnKeeps, QuestionFrameKeeps
    <3> QED  BY <3>1, ProviderKeeps
  <2> QED  BY <1>1, <2>1, <2>2 DEF AgentStep
<1>2. CASE PumpStep
  <2>1. CASE OpenSession \/ PromptArrives \/ PromptAnswered \/ HandleFrame
    BY <2>1, OpenKeeps, PromptKeeps, HandleFrameKeeps
  <2>2. CASE Restore \/ Drained \/ StreamLost \/ Reconnect \/ IdleFires \/ Cancelling \/ ForceEnds
    BY <2>2, BetweenKeeps
  <2>3. CASE Beside(MapQuestion)
    BY <2>3, BesideKeeps DEF Beside, MapQuestion, kvars
  <2>4. CASE AtKap(DismissFallback)  BY <2>4, QuestionFrameKeeps, ProviderKeeps
  <2> QED  BY <1>2, <2>1, <2>2, <2>3, <2>4 DEF PumpStep
<1>3. CASE CancelStep  BY <1>3, CancelKeeps, ProviderKeeps
<1>4. CASE ControlStep
  <2>1. CASE AtKap(PostArrives)  BY <2>1, QuestionFrameKeeps, ProviderKeeps
  <2>2. CASE Beside(KTakeControl) \/ Beside(Reply)
    BY <2>2, BesideKeeps DEF Beside, KTakeControl, TakeControl, Reply, kvars
  <2> QED  BY <1>4, <2>1, <2>2 DEF ControlStep
<1>5. CASE Settle
  BY <1>5, BesideKeeps DEF Settle, RecordTerminal, EndedElsewhere, KAdapterReturns, Beside, RunEnds,
                           AdapterReturns, kvars
<1>6. CASE UserStep
  <2>1. CASE UserCancels  BY <2>1, TroubleKeeps
  <2>2. CASE Beside(DismissQuestion)  BY <2>2, BesideKeeps DEF Beside, DismissQuestion, kvars
  <2>3. ASSUME NEW c \in Callers, Beside(Prepare(c)) \/ Beside(Leaves(c)) PROVE KInv'
    BY <2>3, BesideKeeps DEF Beside, Prepare, Leaves, kvars
  <2> QED  BY <1>6, <2>1, <2>2, <2>3 DEF UserStep
<1>7. ASSUME NEW c \in Callers, Beside(Proceeds(c)) PROVE KInv'
  BY <1>7, BesideKeeps DEF Beside, Proceeds, Enter, Send, Acked, TimesOut, Clear, Refuse, Complete, kvars
<1>8. CASE UNCHANGED vars  BY <1>8, BesideKeeps DEF vars, kvars, qvars
<1> QED  BY <1>1, <1>2, <1>3, <1>4, <1>5, <1>6, <1>7, <1>8 DEF KNext

\* The log of a session and what the pump has made of it agree: of all of it
\* as long as the provider serves every cursor, of what was read otherwise.
THEOREM TurnInvariant == KSpec => []KInv
<1>1. KInit => KInv  BY KInitKeeps, TurnAssumption
<1>2. KInv /\ DTypeOK /\ [KNext]_vars => KInv'  BY KNextKeeps
<1>3. QInv => DTypeOK  BY DEF QInv
<1>4. KSpec => []QInv  BY TurnDelivers, DeliveryInvariant, PTL DEF ImplementsDelivery
<1> QED  BY <1>1, <1>2, <1>3, <1>4, PTL DEF KSpec

\* A call to a tool ends once in the timeline, whether frames are read again or
\* lost; a run that succeeded leaves none it has seen start without an end and,
\* without lost frames, none at all (toolResults, closePendingTools).
THEOREM EveryToolPaired == KSpec => []ToolsPaired
<1>1. ASSUME KInv PROVE ToolsPaired
  <2>1. CASE scene \in ToolScenes
    <3>1. ToolTurn /\ \A i \in DOMAIN log : ToolFrame(i)
      BY <1>1, <2>1 DEF KInv, LogInv, ToolLog, TurnInv, Shapes
    <3>2. \A t \in TurnIds \ {Old}, i \in DOMAIN log :
            log[i] = Frame("tool.started", t) => t = Mine
      BY <3>1 DEF ToolFrame, Frame, TurnIds
    <3>3. (\E i \in DOMAIN log : log[i] = Frame("tool.started", Mine)) => Wrote(CallFrame)
      BY <1>1 DEF KInv, Shapes, Wrote, CallFrame
    <3> QED  BY <2>1, <3>1, <3>2, <3>3 DEF ToolsPaired, ToolTurn
  <2>2. CASE scene \notin ToolScenes
    <3>1. \A i \in DOMAIN log : log[i].type # "tool.started"
      BY <1>1, <2>2 DEF KInv, TurnInv, Toolless, Shapes, ToolTypes
    <3>2. turn.open = {} /\ \A t \in TurnIds : ended[t] = 0
      BY <1>1, <2>2 DEF KInv, TurnInv, Toolless
    <3> QED  BY <3>1, <3>2 DEF ToolsPaired, Frame
  <2> QED  BY <2>1, <2>2
<1> QED  BY <1>1, TurnInvariant, PTL

\* A run that succeeded knows of no detached task that is still to be told of
\* and, without lost frames, has left none of its own behind
\* (holdForBackgroundTurn).
THEOREM DetachedHeld == KSpec => []HeldForDetached
<1>1. ASSUME KInv PROVE HeldForDetached
  <2>1. scene # "stray" => scene \in ToolScenes \cup {"question", "task"}
    BY <1>1, TurnAssumption DEF KInv, Shapes, ToolScenes
  <2> QED  BY <1>1, <2>1 DEF KInv, Shapes, TurnInv, Succeeds, Settled, HeldForDetached
<1> QED  BY <1>1, TurnInvariant, PTL
=============================================================================
