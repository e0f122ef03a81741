------------------------ MODULE RunnerProtocolProofs ------------------------
(***************************************************************************)
(* Proofs about a remote Runner and its gateway, for any number of runs,   *)
(* connections, failures, expiries and events: no status of a process that *)
(* has been replaced is applied, and until something restarts a live run   *)
(* without its lease has a goroutine that will end it, unless the last     *)
(* report on a run whose writes may be refused was refused.                *)
(***************************************************************************)
EXTENDS RunnerProtocol, SequenceTheorems, TLAPS

EventRec == [run : Runs, seq : Nat, boot : Nat, kind : Kinds]
EventFrames == [type : {"event"}, event : EventRec, epoch : Conns]
UpFrames == [type : {"hello"}, boot : Nat] \cup [type : {"reject"}, run : Runs] \cup EventFrames
DownFrames == [type : {"offer", "command"}, run : Runs] \cup [type : {"ack"}, run : Runs, seq : Nat]
Joins == [epoch : Epochs, restarted : SUBSET Runs, leases : SUBSET Runs]
Offerings == [step : {"todo", "picked", "leased", "registered", "failing", "none"}, conn : Conns]
Marks == [run : Runs, why : {"disconnect", "restarted", "expired"},
          step : {"read", "reconnect", "reread", "lose", "fail", "last"}]
Progress == {"idle", "accepted", "starting", "running", "succeeding", "ending",
             "refused", "ended", "done", "dropped"}

\* The parts of the state that the argument reads keep their types.
DbTypes ==
  /\ status \in [Runs -> Statuses] /\ lease \in [Runs -> {"none", "active", "released"}]
  /\ applied \in [Runs -> Seq(Nat)] /\ row \in [boot : Nat, epoch : Conns]
GatewayTypes ==
  /\ cur \in Conns /\ active \subseteq Runs /\ joining \subseteq Joins
  /\ offering \in [Runs -> Offerings] /\ forwards \subseteq [run : Runs, target : Statuses]
  /\ marks \subseteq Marks /\ expiring \subseteq Runs /\ alive \subseteq Epochs
RunnerTypes ==
  /\ boot \in Nat \ {0} /\ epoch \in Conns /\ held \subseteq Runs
  /\ said \in [Runs -> Progress] /\ seqs \in [Runs -> Nat]
  /\ pending \subseteq EventRec /\ resend \subseteq EventRec /\ unwritten \subseteq EventFrames
  /\ reboots \in Nat /\ crashes \in Nat /\ stranded \subseteq Runs
Types == DbTypes /\ GatewayTypes /\ RunnerTypes

\* A run that has been leased once: the Runner may have heard of it.
Given(r) == lease[r] # "none"

\* Frames in flight: an event of a process that has been replaced belongs to a
\* run whose lease was taken back.
GoodEvent(f) == Given(f.run) /\ (f.boot < row.boot => lease[f.run] = "released")
GoodUp == {fr \in UpFrames : /\ fr.type = "event" => GoodEvent(fr.event)
                             /\ fr.type = "hello" => fr.boot \in 1 .. boot}
GoodDown == {fr \in DownFrames : fr.type = "offer" => Given(fr.run)}
Queues == up \in [Epochs -> Seq(GoodUp)] /\ down \in [Epochs -> Seq(GoodDown)]

\* What runnerd holds it was given, and its events are those of its process.
Memory ==
  /\ row.boot <= boot /\ boot = reboots + 1
  /\ \A f \in pending \cup resend : Given(f.run) /\ f.boot = boot
  /\ \A fr \in unwritten : Given(fr.event.run) /\ fr.event.boot = boot
  /\ \A r \in Runs : said[r] # "idle" => Given(r)
\* A lease is made by the one dispatch of its run, after a first hello.
Leases ==
  /\ \A r \in Runs : /\ At(r, "todo") \/ At(r, "picked") => ~Given(r)
                     /\ At(r, "leased") \/ At(r, "registered") => Given(r)
  /\ row.boot = 0 => /\ cur = 0 /\ joining = {}
                     /\ \A r \in Runs : ~Given(r) /\ ~At(r, "picked")

\* The invariant behind RestartFences.
FenceInv == Types /\ Queues /\ Memory /\ Leases

\* Who will end a live run without a lease, as long as nothing restarts.
Covered(r) ==
  At(r, "failing") \/ r \in expiring \/ \E m \in marks : m.run = r /\ m.why = "expired"
Attended ==
  /\ reboots = 0 /\ crashes = 0 =>
       \A r \in Runs \ stranded : Live(r) /\ lease[r] = "released" => Covered(r)
  /\ stranded \subseteq Fallible

\* The invariant behind NoStranded.
StrandInv == FenceInv /\ Attended

-----------------------------------------------------------------------------
(* The status machine, queues, and what a step does to leases               *)

LEMMA CanFail == \A s \in Active : CanTransition(s, "failed")
BY DEF CanTransition, Successors, Statuses, Active, Terminal

LEMMA MovesWithin == \A s, t : CanTransition(s, t) /\ s \in Statuses => s \in Active /\ t \in Statuses
BY DEF CanTransition, Successors, Statuses, Active, Terminal

LEMMA EndsOver == \A s \in Terminal : s \notin Active /\ s \in Statuses
BY DEF Statuses, Active, Terminal

LEMMA OrphansEnd == \A s : OrphanEnd(s) \in Terminal
BY DEF OrphanEnd, Terminal

LEMMA PrefixIn ==
  ASSUME NEW S, NEW s \in Seq(S), NEW u \in Prefixes(s)
  PROVE  u \in Seq(S)
<1>1. PICK n \in 0 .. Len(s) : u = SubSeq(s, 1, n)
  BY DEF Prefixes
<1>2. Len(s) \in Nat /\ \A i \in 1 .. Len(s) : s[i] \in S
  BY LenProperties, ElementOfSeq
<1>3. n \in Int /\ 1 \in Int /\ \A i \in 1 .. n : s[i] \in S
  BY <1>2
<1> QED
  BY <1>1, <1>3, SubSeqProperties

\* Leases are granted once and taken back once; a boot id changes in the row
\* only when every lease has been taken back, or none was ever granted.
LeaseStep ==
  /\ \A r \in Runs : \/ lease'[r] = lease[r]
                     \/ lease[r] = "none" /\ lease'[r] = "active"
                     \/ lease[r] = "active" /\ lease'[r] = "released"
  /\ boot <= boot'
  /\ row'.boot = row.boot \/ \A r \in Runs : lease'[r] # "active"

LEMMA GoodKept ==
  ASSUME Types, LeaseStep, DbTypes', boot' \in Nat
  PROVE  GoodUp \subseteq GoodUp' /\ GoodDown \subseteq GoodDown'
<1>1. \A r \in Runs : /\ lease[r] # "none" => lease'[r] # "none"
                      /\ lease[r] = "released" => lease'[r] = "released"
  BY DEF LeaseStep
<1>2. ASSUME NEW fr \in GoodUp PROVE fr \in GoodUp'
  <2>1. fr \in UpFrames /\ (fr.type = "hello" => fr.boot \in 1 .. boot)
    BY DEF GoodUp
  <2>2. fr.type = "hello" => fr.boot \in 1 .. boot'
    BY <2>1 DEF LeaseStep, Types, RunnerTypes
  <2>3. ASSUME fr.type = "event" PROVE GoodEvent(fr.event)'
    <3>1. GoodEvent(fr.event) /\ fr.event \in EventRec
      BY <2>3, <2>1 DEF GoodUp, UpFrames, EventFrames
    <3>2. fr.event.run \in Runs
      BY <3>1 DEF EventRec
    <3>3. lease'[fr.event.run] \in {"none", "active", "released"}
      BY <3>2 DEF DbTypes
    <3> QED
      BY <1>1, <3>1, <3>2, <3>3 DEF GoodEvent, Given, LeaseStep
  <2> QED
    BY <2>1, <2>2, <2>3 DEF GoodUp
<1>3. ASSUME NEW fr \in GoodDown PROVE fr \in GoodDown'
  <2>1. fr \in DownFrames /\ (fr.type = "offer" => Given(fr.run))
    BY DEF GoodDown
  <2>2. fr.run \in Runs
    BY <2>1 DEF DownFrames
  <2> QED
    BY <1>1, <2>1, <2>2 DEF GoodDown, Given
<1> QED
  BY <1>2, <1>3

-----------------------------------------------------------------------------
(* Types                                                                    *)

LEMMA TypesInit == Init => Types
<1> SUFFICES ASSUME Init PROVE Types
  OBVIOUS
<1>1. \A r \in Runs : <<>> \in Seq(Nat)
  BY EmptySeq
<1>2. DbTypes
  BY <1>1 DEF Init, DbTypes, Statuses, Active, Conns
<1>3. GatewayTypes
  BY DEF Init, GatewayTypes, Offerings, Conns
<1>4. RunnerTypes
  BY ProtocolAssumption DEF Init, RunnerTypes, Conns, Progress
<1> QED
  BY <1>2, <1>3, <1>4 DEF Types

\* The moves of a run by its mark.
LEMMA MarkStep ==
  ASSUME Types, NEW m \in marks, Mark(m)
  PROVE  /\ m \in Marks /\ m.run \in Runs
         /\ \/ status' = status
            \/ \E to \in Statuses : /\ CanTransition(status[m.run], to)
                                   /\ status' = [status EXCEPT ![m.run] = to]
         /\ \/ marks' = marks \ {m}
            \/ \E step \in {"reconnect", "reread", "lose", "fail", "last"} :
                 marks' = (marks \ {m}) \cup {[m EXCEPT !.step = step]}
<1>1. m \in Marks /\ m.run \in Runs
  BY DEF Types, GatewayTypes, Marks
<1>2. \A to \in {"reconnecting", "lost", "failed"} : to \in Statuses
  BY DEF Statuses, Active, Terminal
<1>3. CASE MarkRead(m)
  BY <1>1, <1>3 DEF MarkRead, Settled, Onward
<1>4. CASE MarkReconnect(m)
  BY <1>1, <1>2, <1>4 DEF MarkReconnect, Report, Refused, GiveUp, Settled, Onward
<1>5. CASE MarkReread(m)
  BY <1>1, <1>5 DEF MarkReread, Settled, Onward
<1>6. CASE MarkLose(m)
  BY <1>1, <1>2, <1>6 DEF MarkLose, Report, Refused, GiveUp, Settled, Onward
<1>7. CASE MarkFail(m)
  BY <1>1, <1>2, <1>7 DEF MarkFail, Report, Refused, GiveUp, Settled, Onward
<1> QED
  BY <1>3, <1>4, <1>5, <1>6, <1>7 DEF Mark

\* The event at the head of a queue is well typed.
LEMMA HeadUp ==
  ASSUME Queues, NEW e \in Epochs, up[e] # <<>>
  PROVE  Head(up[e]) \in GoodUp /\ Tail(up[e]) \in Seq(GoodUp)
<1>1. up[e] \in Seq(GoodUp)
  BY DEF Queues
<1> QED
  BY <1>1, HeadTailProperties

LEMMA HeadDown ==
  ASSUME Queues, NEW e \in Epochs, down[e] # <<>>
  PROVE  Head(down[e]) \in GoodDown /\ Tail(down[e]) \in Seq(GoodDown)
<1>1. down[e] \in Seq(GoodDown)
  BY DEF Queues
<1> QED
  BY <1>1, HeadTailProperties

LEMMA TheEvent ==
  ASSUME NEW fr \in GoodUp, fr.type = "event"
  PROVE  /\ fr \in EventFrames /\ fr.event \in EventRec /\ fr.event.run \in Runs
         /\ fr.event.seq \in Nat /\ fr.event.kind \in Kinds /\ GoodEvent(fr.event)
<1>1. fr \in EventFrames
  BY DEF GoodUp, UpFrames, EventFrames
<1>2. fr.event \in EventRec
  BY <1>1 DEF EventFrames
<1> QED
  BY <1>1, <1>2 DEF GoodUp, EventRec

LEMMA KindsAreStatuses == \A k \in Kinds : k # "settle" => k \in Statuses
BY DEF Kinds, Statuses, Active, Terminal

LEMMA TypesDispatch ==
  ASSUME Types, NEW r \in Runs, Dispatch(r)
  PROVE  Types'
<1>1. cur \in Conns /\ 0 \in Conns
  BY DEF Types, GatewayTypes, Conns
<1>2. CASE DispatchPick(r)
  BY <1>1, <1>2 DEF DispatchPick, Idle, Types, DbTypes, GatewayTypes, RunnerTypes, Offerings,
                    db, transport, runner, bounds, history
<1>3. CASE DispatchLease(r)
  BY <1>3 DEF DispatchLease, Go, Types, DbTypes, GatewayTypes, RunnerTypes, Offerings,
              transport, runner, bounds, history
<1>4. CASE DispatchRegister(r)
  <2>1. offering' \in [Runs -> Offerings]
    <3>1. Go(r, "registered") \/ Go(r, "failing")
      BY <1>4 DEF DispatchRegister
    <3> QED
      BY <3>1 DEF Go, Types, GatewayTypes, Offerings
  <2>2. \/ active' = active \cup {r} /\ UNCHANGED lease
        \/ lease' = [lease EXCEPT ![r] = "released"] /\ UNCHANGED active
    BY <1>4 DEF DispatchRegister
  <2>3. active' \subseteq Runs /\ lease' \in [Runs -> {"none", "active", "released"}]
    BY <2>2 DEF Types, DbTypes, GatewayTypes
  <2> QED
    BY <1>4, <2>1, <2>3 DEF DispatchRegister, Types, DbTypes, GatewayTypes, RunnerTypes, transport, runner, bounds, history
<1>5. CASE DispatchSend(r)
  <2>1. offering' \in [Runs -> Offerings] /\ active' \subseteq Runs
        /\ lease' \in [Runs -> {"none", "active", "released"}]
    <3>1. CASE offering' = [offering EXCEPT ![r] = Idle] /\ UNCHANGED <<lease, active>>
      BY <1>1, <3>1 DEF Idle, Types, DbTypes, GatewayTypes, Offerings
    <3>2. CASE /\ Go(r, "failing") /\ active' = active \ {r}
               /\ lease' = [lease EXCEPT ![r] = "released"]
      BY <3>2 DEF Go, Types, DbTypes, GatewayTypes, Offerings
    <3> QED
      BY <1>5, <3>1, <3>2 DEF DispatchSend
  <2> QED
    BY <1>5, <2>1 DEF DispatchSend, Types, DbTypes, GatewayTypes, RunnerTypes, runner, bounds, history
<1>6. CASE DispatchFail(r)
  <2>1. status' \in [Runs -> Statuses] /\ stranded' \subseteq Runs
    BY <1>6 DEF DispatchFail, Report, GiveUp, Refused, Types, DbTypes, RunnerTypes, Statuses, Terminal
  <2> QED
    BY <1>1, <1>6, <2>1 DEF DispatchFail, Idle, Types, DbTypes, GatewayTypes, RunnerTypes, Offerings,
                       transport, runner, bounds
<1> QED
  BY <1>2, <1>3, <1>4, <1>5, <1>6 DEF Dispatch

LEMMA TypesConnect ==
  ASSUME Types, Queues,
         \/ \E e \in Epochs : HelloTx(e)
         \/ \E j \in joining : HelloSwap(j)
         \/ Disconnect \/ Heartbeat \/ GatewayCrash
  PROVE  Types'
<1>1. ASSUME NEW e \in Epochs, HelloTx(e) PROVE Types'
  <2>1. Head(up[e]) \in GoodUp /\ Head(up[e]).type = "hello"
    BY <1>1, HeadUp DEF HelloTx
  <2>2. Head(up[e]).boot \in Nat
    BY <2>1 DEF GoodUp, UpFrames
  <2>3. RestartedBy(Head(up[e]).boot) \subseteq Runs /\ Restorable \subseteq Runs /\ e \in Conns
    BY DEF RestartedBy, Restorable, Conns
  <2>4. row' \in [boot : Nat, epoch : Conns] /\ lease' \in [Runs -> {"none", "active", "released"}]
    BY <1>1, <2>2, <2>3 DEF HelloTx, Types, DbTypes
  <2>5. joining' \subseteq Joins
    BY <1>1, <2>3 DEF HelloTx, Types, GatewayTypes, Joins
  <2> QED
    BY <1>1, <2>4, <2>5 DEF HelloTx, Types, DbTypes, GatewayTypes, RunnerTypes, runner, bounds, history
<1>2. ASSUME NEW j \in joining, HelloSwap(j) PROVE Types'
  <2>1. j.epoch \in Epochs /\ j.leases \subseteq Runs /\ j.restarted \subseteq Runs
    BY DEF Types, GatewayTypes, Joins
  <2>2. marks' \subseteq Marks /\ j.epoch \in Conns
    BY <1>2, <2>1 DEF HelloSwap, Types, GatewayTypes, Marks, Conns
  <2> QED
    BY <1>2, <2>1, <2>2 DEF HelloSwap, Types, DbTypes, GatewayTypes, RunnerTypes, db, runner, bounds, history
<1>3. CASE Disconnect
  <2>1. marks' \subseteq Marks /\ 0 \in Conns
    BY <1>3 DEF Disconnect, Types, GatewayTypes, Marks, Conns
  <2> QED
    BY <1>3, <2>1 DEF Disconnect, Types, DbTypes, GatewayTypes, RunnerTypes, db, runner, bounds, history
<1>4. CASE Heartbeat
  BY <1>4 DEF Heartbeat, Types, DbTypes, GatewayTypes, RunnerTypes, gateway, transport, runner, bounds, history
<1>5. CASE GatewayCrash
  <2>1. status' \in [Runs -> Statuses]
    BY <1>5, OrphansEnd, EndsOver DEF GatewayCrash, Types, DbTypes
  <2>2. 0 \in Conns /\ offering' \in [Runs -> Offerings]
    BY <1>5 DEF GatewayCrash, Idle, Offerings, Conns
  <2> QED
    BY <1>5, <2>1, <2>2 DEF GatewayCrash, Types, DbTypes, GatewayTypes, RunnerTypes, runner, history
<1> QED
  BY <1>1, <1>2, <1>3, <1>4, <1>5

LEMMA TypesEvent ==
  ASSUME Types, Queues, HandleEvent
  PROVE  Types'
<1>1. cur \in Epochs /\ up[cur] # <<>> /\ Head(up[cur]).type = "event"
  BY DEF HandleEvent, Types, GatewayTypes, Conns
<1> DEFINE fr == Head(up[cur])
           f == fr.event
<1>2. f.run \in Runs /\ f.seq \in Nat /\ f.kind \in Kinds
  BY <1>1, HeadUp, TheEvent
<1>3. Outcome(f) \in Statuses
  <2>1. status[f.run] \in Statuses /\ "failed" \in Statuses
    BY <1>2 DEF Types, DbTypes, Statuses, Terminal
  <2> QED
    BY <1>2, <2>1, KindsAreStatuses DEF Outcome, LateKind
<1>4. Append(applied[f.run], f.seq) \in Seq(Nat)
  BY <1>2 DEF Types, DbTypes
<1>5. status' \in [Runs -> Statuses] /\ applied' \in [Runs -> Seq(Nat)]
      /\ lease' \in [Runs -> {"none", "active", "released"}] /\ active' \subseteq Runs
  <2>1. CASE UNCHANGED <<status, applied, lease, active>>
    BY <2>1 DEF Types, DbTypes, GatewayTypes
  <2>2. CASE ~UNCHANGED <<status, applied, lease, active>>
    <3>1. /\ status' = [status EXCEPT ![f.run] = Outcome(f)]
          /\ applied' = [applied EXCEPT ![f.run] = Append(@, f.seq)]
          /\ lease' = lease \/ lease' = [lease EXCEPT ![f.run] = "released"]
          /\ active' = active \/ active' = active \ {f.run}
      BY <2>2 DEF HandleEvent, RolledBack
    <3> HIDE DEF fr, f
    <3> QED
      BY <1>2, <1>3, <1>4, <3>1 DEF Types, DbTypes, GatewayTypes
  <2> QED
    BY <2>1, <2>2
<1> QED
  BY <1>5 DEF HandleEvent, Types, DbTypes, GatewayTypes, RunnerTypes, runner, bounds, history

LEMMA TypesReject ==
  ASSUME Types, Queues, HandleReject
  PROVE  Types'
<1>1. "failed" \in Statuses
  BY DEF Statuses, Terminal
<1> DEFINE r == Head(up[cur]).run
<1>2. CASE r \in active
  <2>1. r \in Runs /\ active' \subseteq Runs
    BY <1>2 DEF HandleReject, Types, GatewayTypes
  <2>2. /\ lease' \in [Runs -> {"none", "active", "released"}]
        /\ status' \in [Runs -> Statuses]
    <3>1. CASE lease[r] = "active" /\ Live(r)
      <4>1. /\ status' = status \/ status' = [status EXCEPT ![r] = "failed"]
            /\ lease' = lease \/ lease' = [lease EXCEPT ![r] = "released"]
        BY <1>2, <3>1 DEF HandleReject, Report, Refused
      <4> HIDE DEF r
      <4> QED
        BY <1>1, <4>1 DEF Types, DbTypes
    <3>2. CASE ~(lease[r] = "active" /\ Live(r))
      BY <1>2, <3>2 DEF HandleReject, Types, DbTypes
    <3> QED
      BY <3>1, <3>2
  <2> QED
    BY <2>1, <2>2 DEF HandleReject, Types, DbTypes, GatewayTypes, RunnerTypes, runner, bounds, history
<1>3. CASE r \notin active
  BY <1>3 DEF HandleReject, Types, DbTypes, GatewayTypes, RunnerTypes, runner, bounds, history
<1> QED
  BY <1>2, <1>3

LEMMA TypesControl ==
  ASSUME Types, NEW r \in Runs, Control(r)
  PROVE  Types'
<1>1. \A to \in {"cancelled", "cancelling"} : to \in Statuses
  BY DEF Statuses, Active, Terminal
<1> QED
  BY <1>1 DEF Control, Types, DbTypes, GatewayTypes, RunnerTypes, transport, runner, history

LEMMA TypesGateway ==
  ASSUME Types,
         \/ \E w \in forwards : Forward(w)
         \/ \E r \in Runs : Expire(r)
         \/ SweepSelect \/ SweepRelease
         \/ \E m \in marks : Mark(m)
  PROVE  Types'
<1>1. CASE \E w \in forwards : Forward(w)
  BY <1>1 DEF Forward, Types, DbTypes, GatewayTypes, RunnerTypes, db, runner, bounds, history
<1>2. CASE \E r \in Runs : Expire(r)
  BY <1>2 DEF Expire, Types, DbTypes, GatewayTypes, RunnerTypes, gateway, transport, runner, history
<1>3. CASE SweepSelect
  BY <1>3 DEF SweepSelect, Overdue, Types, DbTypes, GatewayTypes, RunnerTypes, db, transport,
              runner, bounds, history
<1>4. CASE SweepRelease
  <2>1. marks' \subseteq Marks
    BY <1>4 DEF SweepRelease, Types, GatewayTypes, Marks
  <2> QED
    BY <1>4, <2>1 DEF SweepRelease, Types, DbTypes, GatewayTypes, RunnerTypes, transport, runner, bounds, history
<1>5. ASSUME NEW m \in marks, Mark(m) PROVE Types'
  <2>1. marks' \subseteq Marks
    BY <1>5, MarkStep DEF Types, GatewayTypes, Marks
  <2>2. status' \in [Runs -> Statuses] /\ stranded' \subseteq Runs
    <3>1. m.run \in Runs /\ status' \in [Runs -> Statuses]
      <4>1. m.run \in Runs
        BY DEF Types, GatewayTypes, Marks
      <4>2. status' \in [Runs -> Statuses]
        BY <1>5, MarkStep DEF Types, DbTypes
      <4> QED
        BY <4>1, <4>2
    <3>2. stranded' = stranded \/ stranded' = stranded \cup {m.run}
      BY <1>5 DEF Mark, MarkRead, MarkReconnect, MarkReread, MarkLose, MarkFail, GiveUp
    <3> QED
      BY <3>1, <3>2 DEF Types, RunnerTypes
  <2> QED
    BY <1>5, <2>1, <2>2 DEF Mark, Types, DbTypes, GatewayTypes, RunnerTypes, transport, runner, bounds, history
<1> QED
  BY <1>1, <1>2, <1>3, <1>4, <1>5

LEMMA TypesConnection ==
  ASSUME Types, Queues, Connection
  PROVE  Types'
<1>1. CASE Dial
  <2>1. epoch + 1 \in Epochs /\ epoch + 1 \in Conns
    BY <1>1, ProtocolAssumption DEF Dial, Types, RunnerTypes, Conns, Epochs
  <2> QED
    BY <1>1, <2>1 DEF Dial, Types, DbTypes, GatewayTypes, RunnerTypes, db, gateway, bounds, history
<1>2. CASE Resend
  BY <1>2 DEF Resend, Types, DbTypes, GatewayTypes, RunnerTypes, db, gateway, bounds, history
<1>3. CASE TakeOffer
  <2>1. epoch \in Epochs /\ down[epoch] # <<>> /\ Head(down[epoch]).type = "offer"
    BY <1>3 DEF TakeOffer, Reading, Types, RunnerTypes, Conns
  <2>2. Head(down[epoch]).run \in Runs
    BY <2>1, HeadDown DEF GoodDown, DownFrames
  <2>3. held' \subseteq Runs /\ said' \in [Runs -> Progress]
    BY <1>3, <2>2 DEF TakeOffer, Types, RunnerTypes, Progress
  <2> QED
    BY <1>3, <2>3 DEF TakeOffer, Types, DbTypes, GatewayTypes, RunnerTypes, db, gateway, bounds, history
<1>4. CASE RefuseOffer
  BY <1>4 DEF RefuseOffer, Types, DbTypes, GatewayTypes, RunnerTypes, db, gateway, runner, bounds, history
<1>5. CASE TakeCommand
  BY <1>5 DEF TakeCommand, Types, DbTypes, GatewayTypes, RunnerTypes, db, gateway, bounds, history
<1>6. CASE TakeAck
  BY <1>6 DEF TakeAck, Types, DbTypes, GatewayTypes, RunnerTypes, db, gateway, bounds, history
<1> QED
  BY <1>1, <1>2, <1>3, <1>4, <1>5, <1>6 DEF Connection

\* What emitEvent makes of a run.
LEMMA Produced ==
  ASSUME Types, NEW r \in Runs, Emit(r)
  PROVE  \E kind \in Kinds, next \in Progress \ {"idle"} :
           said[r] # "idle" /\ Produce(r, kind, next)
BY DEF Emit, Kinds, Progress

LEMMA TypesExecution ==
  ASSUME Types, NEW r \in Runs, Execution(r)
  PROVE  Types'
<1>1. CASE Emit(r)
  <2>1. PICK kind \in Kinds, next \in Progress : Produce(r, kind, next)
    BY <1>1, Produced
  <2> DEFINE f == [run |-> r, seq |-> seqs[r] + 1, boot |-> boot, kind |-> kind]
  <2>2. f \in EventRec /\ Event(f, epoch) \in EventFrames
    BY DEF Types, RunnerTypes, EventRec, EventFrames, Event
  <2>3. seqs' \in [Runs -> Nat] /\ said' \in [Runs -> Progress]
    BY <2>1 DEF Produce, Types, RunnerTypes
  <2>4. pending' \subseteq EventRec /\ unwritten' \subseteq EventFrames
    BY <2>1, <2>2 DEF Produce, Types, RunnerTypes
  <2> QED
    BY <2>1, <2>3, <2>4 DEF Produce, Types, DbTypes, GatewayTypes, RunnerTypes, db, gateway, transport, bounds, history
<1>2. CASE EmitDropped(r)
  BY <1>2 DEF EmitDropped, Types, DbTypes, GatewayTypes, RunnerTypes, Progress, db, gateway, transport, bounds, history
<1>3. ASSUME NEW fr \in unwritten, fr.event.run = r, Write(fr) PROVE Types'
  BY <1>3 DEF Write, Types, DbTypes, GatewayTypes, RunnerTypes, Progress, db, gateway, bounds, history
<1> QED
  BY <1>1, <1>2, <1>3 DEF Execution

LEMMA TypesFailures ==
  ASSUME Types, Reboot \/ \E e \in Epochs : Break(e)
  PROVE  Types'
<1>1. CASE Reboot
  BY <1>1 DEF Reboot, Types, DbTypes, GatewayTypes, RunnerTypes, Progress, db, gateway, history
<1>2. CASE \E e \in Epochs : Break(e)
  BY <1>2 DEF Break, Types, DbTypes, GatewayTypes, RunnerTypes, db, gateway, runner, history
<1> QED
  BY <1>1, <1>2

LEMMA TypesStep ==
  ASSUME Types, Queues, [Next]_vars
  PROVE  Types'
<1>1. CASE UNCHANGED vars
  BY <1>1 DEF vars, db, gateway, transport, runner, bounds, Types, DbTypes, GatewayTypes, RunnerTypes, history
<1>2. CASE Next
  BY <1>2, TypesDispatch, TypesConnect, TypesEvent, TypesReject, TypesControl, TypesGateway,
     TypesConnection, TypesExecution, TypesFailures DEF Next, Gateway
<1> QED
  BY <1>1, <1>2

-----------------------------------------------------------------------------
(* Leases                                                                   *)

\* An event that is applied: its run is live or stays as it is, and its lease
\* is active unless it is a late observation.
LEMMA Applied ==
  ASSUME NEW fr \in GoodUp, fr.type = "event", Authorised(fr)
  PROVE  /\ ~LateKind(fr.event.kind) => lease[fr.event.run] = "active"
         /\ Poison(fr.event) \/ fr.event.kind \in Terminal => lease[fr.event.run] = "active"
BY DEF Authorised, Poison, LateKind, Terminal

LEMMA LeaseMoves ==
  ASSUME FenceInv, [Next]_vars
  PROVE  LeaseStep
<1> DEFINE Still == lease' = lease /\ boot' = boot /\ row' = row
           Only(r) == /\ boot' = boot /\ row' = row
                      /\ \/ lease' = lease
                         \/ lease[r] = "none" /\ lease' = [lease EXCEPT ![r] = "active"]
                         \/ lease[r] \in {"active", "released"} /\ lease' = [lease EXCEPT ![r] = "released"]
<1>1. /\ Types /\ Queues /\ Memory /\ Leases /\ boot \in Nat /\ boot <= boot
      /\ lease \in [Runs -> {"none", "active", "released"}]
  BY DEF FenceInv, Types, DbTypes, RunnerTypes
<1>2. ASSUME Still PROVE LeaseStep
  BY <1>1, <1>2 DEF LeaseStep
<1>3. ASSUME NEW r \in Runs, Only(r) PROVE LeaseStep
  BY <1>1, <1>3 DEF LeaseStep
<1>4. ASSUME NEW r \in Runs, Dispatch(r) PROVE Only(r)
  <2>1. CASE DispatchPick(r)
    BY <2>1 DEF DispatchPick, db, runner
  <2>2. CASE DispatchLease(r)
    <3>1. lease[r] = "none"
      BY <1>1, <2>2 DEF DispatchLease, Leases, Given, At
    <3> QED
      BY <2>2, <3>1 DEF DispatchLease, runner
  <2>3. CASE DispatchRegister(r)
    <3>1. lease[r] \in {"active", "released"}
      BY <1>1, <2>3 DEF DispatchRegister, Leases, Given, At
    <3> QED
      BY <2>3, <3>1 DEF DispatchRegister, runner
  <2>4. CASE DispatchSend(r)
    <3>1. lease[r] \in {"active", "released"}
      BY <1>1, <2>4 DEF DispatchSend, Leases, Given, At
    <3> QED
      BY <2>4, <3>1 DEF DispatchSend, runner
  <2>5. CASE DispatchFail(r)
    BY <2>5 DEF DispatchFail, runner
  <2> QED
    BY <1>4, <2>1, <2>2, <2>3, <2>4, <2>5 DEF Dispatch
<1>5. ASSUME NEW e \in Epochs, HelloTx(e) PROVE LeaseStep
  <2> DEFINE b == Head(up[e]).boot
  <2>1. /\ lease' = [r \in Runs |-> IF r \in RestartedBy(b) THEN "released" ELSE lease[r]]
        /\ row'.boot = b /\ boot' = boot
    BY <1>5 DEF HelloTx, runner
  <2>2. CASE row.boot = b
    BY <1>1, <2>1, <2>2 DEF RestartedBy, LeaseStep
  <2>3. CASE row.boot = 0
    <3>1. \A r \in Runs : lease[r] = "none"
      BY <1>1, <2>3 DEF Leases, Given
    <3> QED
      BY <1>1, <2>1, <2>3, <3>1 DEF RestartedBy, LeaseStep
  <2>4. CASE row.boot \notin {0, b}
    BY <1>1, <2>1, <2>4 DEF RestartedBy, LeaseStep
  <2> QED
    BY <2>2, <2>3, <2>4
<1>6. CASE \/ \E j \in joining : HelloSwap(j)
           \/ Disconnect \/ SweepSelect
           \/ \E w \in forwards : Forward(w)
           \/ \E m \in marks : Mark(m)
           \/ \E r \in Runs : Control(r) \/ Expire(r)
           \/ GatewayCrash
  <2>1. Still
    BY <1>6 DEF HelloSwap, Disconnect, SweepSelect, Forward, Mark, Control, Expire, GatewayCrash, db, runner
  <2> QED
    BY <2>1, <1>2
<1>7. CASE Heartbeat
  BY <1>1, <1>7 DEF Heartbeat, LeaseStep, runner
<1>8. CASE SweepRelease
  BY <1>1, <1>8 DEF SweepRelease, Overdue, LeaseStep, runner
<1>9. CASE HandleEvent
  <2>1. cur \in Epochs /\ up[cur] # <<>> /\ Head(up[cur]).type = "event"
    BY <1>1, <1>9 DEF HandleEvent, Types, GatewayTypes, Conns
  <2> DEFINE fr == Head(up[cur])
             r == fr.event.run
  <2>2. fr \in GoodUp /\ r \in Runs
    BY <1>1, <2>1, HeadUp, TheEvent
  <2>3. Only(r)
    <3>1. boot' = boot /\ row' = row
      BY <1>9 DEF HandleEvent, runner
    <3>2. CASE lease' # lease
      <4>1. /\ Authorised(fr) /\ (Poison(fr.event) \/ fr.event.kind \in Terminal)
            /\ lease' = [lease EXCEPT ![r] = "released"]
        BY <1>9, <3>2 DEF HandleEvent, RolledBack
      <4> QED
        BY <2>1, <2>2, <3>1, <4>1, Applied
    <3>3. CASE lease' = lease
      BY <3>1, <3>3
    <3> QED
      BY <3>2, <3>3
  <2> QED
    BY <1>3, <2>2, <2>3
<1>10. CASE HandleReject
  <2> DEFINE r == Head(up[cur]).run
  <2>1. boot' = boot /\ row' = row
    BY <1>10 DEF HandleReject, runner
  <2>2. CASE r \in active /\ lease[r] = "active" /\ Live(r)
    <3>1. r \in Runs /\ (lease' = [lease EXCEPT ![r] = "released"] \/ lease' = lease)
      BY <1>1, <1>10, <2>2 DEF HandleReject, Types, GatewayTypes
    <3> QED
      BY <1>3, <2>1, <2>2, <3>1
  <2>3. CASE ~(r \in active /\ lease[r] = "active" /\ Live(r))
    <3>1. lease' = lease
      BY <1>10, <2>3 DEF HandleReject
    <3> QED
      BY <1>2, <2>1, <3>1
  <2> QED
    BY <2>2, <2>3
<1>11. CASE Connection \/ (\E r \in Runs : Execution(r)) \/ \E e \in Epochs : Break(e)
  <2>1. Still
    BY <1>11 DEF Connection, Dial, Resend, TakeOffer, RefuseOffer, TakeCommand, TakeAck, Execution, Emit,
                 Produce, EmitDropped, Write, Break, db, runner
  <2> QED
    BY <2>1, <1>2
<1>12. CASE Reboot
  <2>1. lease' = lease /\ row' = row /\ boot' = boot + 1
    BY <1>12 DEF Reboot, db
  <2> QED
    BY <1>1, <2>1 DEF LeaseStep
<1>13. CASE UNCHANGED vars
  BY <1>2, <1>13 DEF vars, db, runner
<1> QED
  BY <1>3, <1>4, <1>5, <1>6, <1>7, <1>8, <1>9, <1>10, <1>11, <1>12, <1>13 DEF Next, Gateway

-----------------------------------------------------------------------------
(* Frames in flight                                                         *)

LEMMA QueuePut ==
  ASSUME NEW S, NEW q \in [Epochs -> Seq(S)], NEW e, NEW f \in S
  PROVE  /\ [q EXCEPT ![e] = Append(@, f)] \in [Epochs -> Seq(S)]
         /\ [q EXCEPT ![e] = @ \o <<f>>] \in [Epochs -> Seq(S)]
<1>1. CASE e \in Epochs
  <2>1. q[e] \in Seq(S) /\ <<f>> \in Seq(S)
    BY <1>1
  <2>2. Append(q[e], f) \in Seq(S) /\ q[e] \o <<f>> \in Seq(S)
    BY <2>1, ConcatProperties
  <2> QED
    BY <2>2
<1>2. CASE e \notin Epochs
  BY <1>2
<1> QED
  BY <1>1, <1>2

LEMMA QueueTake ==
  ASSUME NEW S, NEW q \in [Epochs -> Seq(S)], NEW e, e \in Epochs => q[e] # <<>>
  PROVE  [q EXCEPT ![e] = Tail(@)] \in [Epochs -> Seq(S)]
<1>1. CASE e \in Epochs
  <2>1. Tail(q[e]) \in Seq(S)
    BY <1>1, HeadTailProperties
  <2> QED
    BY <2>1
<1>2. CASE e \notin Epochs
  BY <1>2
<1> QED
  BY <1>1, <1>2

LEMMA QueueDrop ==
  ASSUME NEW S, NEW q \in [Epochs -> Seq(S)], NEW e
  PROVE  [q EXCEPT ![e] = <<>>] \in [Epochs -> Seq(S)]
<1>1. <<>> \in Seq(S)
  BY EmptySeq
<1> QED
  BY <1>1

LEMMA QueueCut ==
  ASSUME NEW S, NEW q \in [Epochs -> Seq(S)], NEW e \in Epochs, NEW u \in Prefixes(q[e])
  PROVE  [q EXCEPT ![e] = u] \in [Epochs -> Seq(S)]
<1>1. u \in Seq(S)
  BY PrefixIn
<1> QED
  BY <1>1

LEMMA QueueMono ==
  ASSUME NEW S, NEW T, S \subseteq T, NEW q \in [Epochs -> Seq(S)]
  PROVE  q \in [Epochs -> Seq(T)]
<1>1. ASSUME NEW e \in Epochs PROVE q[e] \in Seq(T)
  BY SeqMonotonic
<1> QED
  BY <1>1

LEMMA QueuesInit == Init => Queues
<1> SUFFICES ASSUME Init PROVE Queues
  OBVIOUS
<1>1. <<>> \in Seq(GoodUp) /\ <<>> \in Seq(GoodDown)
  BY EmptySeq
<1> QED
  BY <1>1 DEF Init, Queues

\* What runnerd writes is a frame of its process about a run it was given.
LEMMA SentUp ==
  ASSUME FenceInv
  PROVE  /\ \A f \in pending \cup resend : Event(f, epoch) \in GoodUp
         /\ unwritten \subseteq GoodUp
         /\ Hello \in GoodUp
         /\ \A r \in Runs : Reject(r) \in GoodUp
<1>1. Types /\ Memory /\ boot \in Nat \ {0} /\ row.boot \in Nat /\ epoch \in Conns
  BY DEF FenceInv, Types, DbTypes, RunnerTypes
<1>2. ASSUME NEW f \in pending \cup resend PROVE Event(f, epoch) \in GoodUp
  BY <1>1, <1>2 DEF Event, GoodUp, UpFrames, EventFrames, GoodEvent, Memory, Types, RunnerTypes
<1>3. ASSUME NEW fr \in unwritten PROVE fr \in GoodUp
  BY <1>1, <1>3 DEF GoodUp, UpFrames, EventFrames, GoodEvent, Memory, Types, RunnerTypes
<1>4. Hello \in GoodUp
  BY <1>1 DEF Hello, GoodUp, UpFrames
<1>5. ASSUME NEW r \in Runs PROVE Reject(r) \in GoodUp
  BY DEF Reject, GoodUp, UpFrames
<1> QED
  BY <1>2, <1>3, <1>4, <1>5

\* A frame on its way down that is about a run, and no offer.
LEMMA SentDown ==
  ASSUME NEW r \in Runs
  PROVE  Command(r) \in GoodDown /\ (Given(r) => Offer(r) \in GoodDown)
BY DEF Command, Offer, GoodDown, DownFrames

LEMMA QueuesStep ==
  ASSUME FenceInv, [Next]_vars
  PROVE  Queues'
<1> DEFINE U == GoodUp'
           D == GoodDown'
<1>1. /\ Types /\ Queues /\ Memory /\ Leases /\ Types' /\ LeaseStep
      /\ cur \in Conns /\ epoch \in Conns
  BY TypesStep, LeaseMoves DEF FenceInv, Types, GatewayTypes, RunnerTypes
<1>2. GoodUp \subseteq U /\ GoodDown \subseteq D
  BY <1>1, GoodKept DEF Types, RunnerTypes
<1>3. up \in [Epochs -> Seq(U)] /\ down \in [Epochs -> Seq(D)]
  BY <1>1, <1>2, QueueMono DEF Queues
<1> HIDE DEF U, D
<1>4. ASSUME NEW f \in GoodUp, SendUp(f) PROVE up' \in [Epochs -> Seq(U)]
  BY <1>2, <1>3, <1>4, QueuePut DEF SendUp
<1>5. ASSUME NEW f \in GoodDown, NEW e, SendDown(e, f) PROVE down' \in [Epochs -> Seq(D)]
  BY <1>2, <1>3, <1>5, QueuePut DEF SendDown
<1>6. ASSUME up' \in [Epochs -> Seq(U)], down' \in [Epochs -> Seq(D)] PROVE Queues'
  BY <1>6 DEF Queues, U, D
<1>7. ASSUME NEW r \in Runs, Dispatch(r) PROVE Queues'
  <2>1. CASE DispatchSend(r)
    <3>1. Given(r) /\ up' = up
      BY <1>1, <2>1 DEF DispatchSend, Leases
    <3>2. SendDown(cur, Offer(r)) \/ down' = down
      BY <2>1 DEF DispatchSend
    <3> QED
      BY <1>3, <1>5, <1>6, <3>1, <3>2, SentDown
  <2>2. CASE ~DispatchSend(r)
    <3>1. up' = up /\ down' = down
      BY <1>7, <2>2 DEF Dispatch, DispatchPick, DispatchLease, DispatchRegister, DispatchFail, transport
    <3> QED
      BY <1>3, <1>6, <3>1
  <2> QED
    BY <2>1, <2>2
<1>8. ASSUME NEW e \in Epochs, HelloTx(e) PROVE Queues'
  <2>1. up' \in [Epochs -> Seq(U)] /\ down' = down
    BY <1>3, <1>8, QueueTake DEF HelloTx
  <2> QED
    BY <1>3, <1>6, <2>1
<1>9. ASSUME NEW j \in joining, HelloSwap(j) PROVE Queues'
  <2>1. up' \in [Epochs -> Seq(U)] /\ down' \in [Epochs -> Seq(D)]
    BY <1>3, <1>9, QueueDrop DEF HelloSwap
  <2> QED
    BY <1>6, <2>1
<1>10. CASE Disconnect
  <2>1. up' \in [Epochs -> Seq(U)] /\ down' = down
    BY <1>3, <1>10, QueueDrop DEF Disconnect
  <2> QED
    BY <1>3, <1>6, <2>1
<1>11. CASE HandleEvent
  <2>1. cur \in Epochs /\ up[cur] # <<>> /\ Head(up[cur]).type = "event"
    BY <1>1, <1>11 DEF HandleEvent, Conns
  <2> DEFINE fr == Head(up[cur])
  <2>2. Ack(fr.event) \in D
    <3>1. fr.event.run \in Runs /\ fr.event.seq \in Nat
      BY <1>1, <2>1, HeadUp, TheEvent
    <3> HIDE DEF fr
    <3> QED
      BY <1>2, <3>1 DEF Ack, GoodDown, DownFrames
  <2>3. up' \in [Epochs -> Seq(U)]
    BY <1>3, <1>11, <2>1, QueueTake DEF HandleEvent
  <2>4. down' = [down EXCEPT ![cur] = @ \o <<Ack(fr.event)>>] \/ down' = down
    BY <1>11 DEF HandleEvent, RolledBack, Answer
  <2> HIDE DEF fr
  <2>5. [down EXCEPT ![cur] = @ \o <<Ack(fr.event)>>] \in [Epochs -> Seq(D)]
    BY <1>3, <2>2, QueuePut
  <2>6. down' \in [Epochs -> Seq(D)]
    BY <1>3, <2>4, <2>5
  <2> QED
    BY <1>6, <2>3, <2>6
<1>12. CASE HandleReject
  <2>1. up' \in [Epochs -> Seq(U)] /\ down' = down
    BY <1>3, <1>12, QueueTake DEF HandleReject
  <2> QED
    BY <1>3, <1>6, <2>1
<1>13. ASSUME NEW w \in forwards, Forward(w) PROVE Queues'
  <2>1. w.run \in Runs
    BY <1>1 DEF Types, GatewayTypes
  <2>2. up' = up /\ (SendDown(cur, Command(w.run)) \/ down' = down)
    BY <1>13 DEF Forward
  <2> QED
    BY <1>3, <1>5, <1>6, <2>1, <2>2, SentDown
<1>14. CASE GatewayCrash
  <2>1. <<>> \in Seq(U)
    BY EmptySeq
  <2>2. up' \in [Epochs -> Seq(U)] /\ down' = down
    BY <1>14, <2>1 DEF GatewayCrash
  <2> QED
    BY <1>3, <1>6, <2>2
<1>15. ASSUME NEW e \in Epochs, Break(e) PROVE Queues'
  <2>1. up' \in [Epochs -> Seq(U)] /\ down' \in [Epochs -> Seq(D)]
    BY <1>3, <1>15, QueueCut, SMTT(30) DEF Break
  <2> QED
    BY <1>6, <2>1
<1>16. CASE Dial
  <2>1. <<Hello>> \in Seq(U)
    BY <1>2, SentUp
  <2>2. up' \in [Epochs -> Seq(U)]
    BY <1>3, <1>16, <2>1 DEF Dial
  <2>3. down' \in [Epochs -> Seq(D)]
    BY <1>3, <1>16, QueueDrop DEF Dial
  <2> QED
    BY <1>6, <2>2, <2>3
<1>17. CASE Resend
  <2>1. PICK f \in resend : SendUp(Event(f, epoch))
    BY <1>17 DEF Resend
  <2>2. down' = down
    BY <1>17 DEF Resend
  <2> QED
    BY <1>3, <1>4, <1>6, <2>1, <2>2, SentUp
<1>18. CASE TakeOffer \/ TakeCommand \/ TakeAck
  <2>1. up' = up /\ down[epoch] # <<>> /\ down' = [down EXCEPT ![epoch] = Tail(@)]
    BY <1>18 DEF TakeOffer, TakeCommand, TakeAck, Reading
  <2>2. down' \in [Epochs -> Seq(D)]
    BY <1>3, <2>1, QueueTake
  <2> QED
    BY <1>3, <1>6, <2>1, <2>2
<1>19. CASE RefuseOffer
  <2>1. /\ down[epoch] # <<>> /\ down' = [down EXCEPT ![epoch] = Tail(@)]
        /\ epoch \in Epochs /\ Head(down[epoch]).type = "offer"
        /\ SendUp(Reject(Head(down[epoch]).run))
    BY <1>1, <1>19 DEF RefuseOffer, Reading, Conns
  <2>2. Head(down[epoch]).run \in Runs
    BY <1>1, <2>1, HeadDown DEF GoodDown, DownFrames
  <2>3. down' \in [Epochs -> Seq(D)]
    BY <1>3, <2>1, QueueTake
  <2> QED
    BY <1>4, <1>6, <2>1, <2>2, <2>3, SentUp
<1>20. ASSUME NEW fr \in unwritten, Write(fr) PROVE Queues'
  BY <1>3, <1>4, <1>6, <1>20, SentUp DEF Write
<1>21. CASE Reboot
  <2>1. up' = up /\ down' \in [Epochs -> Seq(D)]
    BY <1>3, <1>21, QueueDrop DEF Reboot
  <2> QED
    BY <1>3, <1>6, <2>1
<1>22. CASE \/ Heartbeat \/ SweepSelect \/ SweepRelease
            \/ \E m \in marks : Mark(m)
            \/ \E r \in Runs : Control(r) \/ Expire(r) \/ Emit(r) \/ EmitDropped(r)
            \/ UNCHANGED vars
  <2>1. up' = up /\ down' = down
    BY <1>22 DEF Heartbeat, SweepSelect, SweepRelease, Mark, Control, Expire, Emit, Produce, EmitDropped,
                 vars, transport
  <2> QED
    BY <1>3, <1>6, <2>1
<1> QED
  BY <1>7, <1>8, <1>9, <1>10, <1>11, <1>12, <1>13, <1>14, <1>15, <1>16, <1>17, <1>18, <1>19, <1>20,
     <1>21, <1>22 DEF Next, Gateway, Connection, Execution

-----------------------------------------------------------------------------
(* What runnerd remembers, and which dispatch granted what                  *)

LEMMA MemoryStep ==
  ASSUME FenceInv, [Next]_vars
  PROVE  Memory'
<1>1. /\ Types /\ Queues /\ Memory /\ Types' /\ LeaseStep
      /\ epoch \in Conns /\ boot \in Nat \ {0} /\ reboots \in Nat
  BY TypesStep, LeaseMoves DEF FenceInv, Types, RunnerTypes
<1>2. \A r \in Runs : Given(r) => Given(r)'
  BY <1>1 DEF LeaseStep, Given
<1>3. /\ \A f \in pending \cup resend : f.run \in Runs
      /\ \A fr \in unwritten : fr.event.run \in Runs
  BY <1>1 DEF Types, RunnerTypes, EventRec, EventFrames
<1>4. ASSUME row'.boot <= boot', UNCHANGED <<boot, reboots, pending, resend, unwritten, said>>
      PROVE  Memory'
  BY <1>1, <1>2, <1>3, <1>4 DEF Memory, Given
<1>5. row.boot <= boot
  BY <1>1 DEF Memory
<1>6. CASE \E r \in Runs : Dispatch(r) \/ Control(r) \/ Expire(r)
  BY <1>4, <1>5, <1>6 DEF Dispatch, DispatchPick, DispatchLease, DispatchRegister, DispatchSend, DispatchFail,
                          Control, Expire, db, runner, bounds
<1>7. ASSUME NEW e \in Epochs, HelloTx(e) PROVE Memory'
  <2>1. Head(up[e]) \in GoodUp /\ Head(up[e]).type = "hello"
    BY <1>1, <1>7, HeadUp DEF HelloTx
  <2>2. Head(up[e]).boot <= boot /\ boot' = boot /\ row'.boot = Head(up[e]).boot
    BY <1>1, <1>7, <2>1 DEF HelloTx, GoodUp, runner
  <2> QED
    BY <1>4, <1>7, <2>2 DEF HelloTx, runner, bounds
<1>8. CASE \/ \E j \in joining : HelloSwap(j)
           \/ Disconnect \/ HandleEvent \/ HandleReject \/ SweepSelect \/ SweepRelease \/ Heartbeat
           \/ \E w \in forwards : Forward(w)
           \/ \E m \in marks : Mark(m)
           \/ GatewayCrash \/ RefuseOffer \/ TakeCommand \/ UNCHANGED vars
           \/ \E e \in Epochs : Break(e)
  <2>1. row' = row /\ UNCHANGED <<boot, reboots, pending, resend, unwritten, said>>
    BY <1>8 DEF HelloSwap, Disconnect, HandleEvent, HandleReject, SweepSelect, SweepRelease, Heartbeat,
                Forward, Mark, GatewayCrash, RefuseOffer, TakeCommand, Break, vars, db, runner, bounds
  <2> QED
    BY <1>4, <1>5, <2>1
<1>9. CASE Dial \/ Resend \/ TakeAck
  <2>1. /\ UNCHANGED <<row, boot, reboots, unwritten, said>> /\ pending' \subseteq pending
        /\ resend' \subseteq pending \cup resend
    BY <1>9 DEF Dial, Resend, TakeAck, db, bounds
  <2> QED
    BY <1>1, <1>2, <1>3, <2>1 DEF Memory, Given
<1>10. CASE TakeOffer
  <2>1. epoch \in Epochs /\ down[epoch] # <<>> /\ Head(down[epoch]).type = "offer"
    BY <1>1, <1>10 DEF TakeOffer, Reading, Conns
  <2>2. Given(Head(down[epoch]).run)
    BY <1>1, <2>1, HeadDown DEF GoodDown
  <2>3. UNCHANGED <<row, boot, reboots, pending, resend, unwritten, lease>>
    BY <1>10 DEF TakeOffer, db, bounds
  <2>4. \A r \in Runs : said'[r] # "idle" => said[r] # "idle" \/ r = Head(down[epoch]).run
    BY <1>1, <1>10 DEF TakeOffer, Types, RunnerTypes
  <2> QED
    BY <1>1, <2>2, <2>3, <2>4 DEF Memory, Given
<1>11. ASSUME NEW r \in Runs, Emit(r) PROVE Memory'
  <2>1. PICK kind \in Kinds, next \in Progress \ {"idle"} : said[r] # "idle" /\ Produce(r, kind, next)
    BY <1>1, <1>11, Produced
  <2> DEFINE f == [run |-> r, seq |-> seqs[r] + 1, boot |-> boot, kind |-> kind]
  <2>2. /\ UNCHANGED <<row, boot, reboots, resend, lease>>
        /\ pending' = pending \cup {f} /\ unwritten' = unwritten \cup {Event(f, epoch)}
        /\ said' = [said EXCEPT ![r] = next]
    BY <2>1 DEF Produce, db, bounds
  <2>3. Given(r) /\ f.run = r /\ f.boot = boot /\ Event(f, epoch).event = f
    BY <1>1, <2>1 DEF Memory, Event
  <2> HIDE DEF f
  <2>4. /\ \A g \in pending' \cup resend' : Given(g.run) /\ g.boot = boot
        /\ \A fr \in unwritten' : Given(fr.event.run) /\ fr.event.boot = boot
    BY <1>1, <2>2, <2>3 DEF Memory
  <2>5. \A q \in Runs : said'[q] # "idle" => Given(q)
    BY <1>1, <2>2, <2>3 DEF Memory, Types, RunnerTypes
  <2> QED
    BY <1>1, <2>2, <2>4, <2>5 DEF Memory, Given
<1>12. ASSUME NEW r \in Runs, EmitDropped(r) PROVE Memory'
  <2>1. /\ UNCHANGED <<row, boot, reboots, pending, resend, unwritten, lease>>
        /\ \A q \in Runs : said'[q] # "idle" => said[q] # "idle"
    BY <1>1, <1>12 DEF EmitDropped, Types, RunnerTypes, db, bounds
  <2> QED
    BY <1>1, <2>1 DEF Memory, Given
<1>13. ASSUME NEW fr \in unwritten, Write(fr) PROVE Memory'
  <2>1. /\ UNCHANGED <<row, boot, reboots, pending, resend, lease>> /\ unwritten' \subseteq unwritten
        /\ \A q \in Runs : said'[q] # "idle" => said[q] # "idle"
    BY <1>1, <1>13 DEF Write, Types, RunnerTypes, db, bounds
  <2> QED
    BY <1>1, <2>1 DEF Memory, Given
<1>14. CASE Reboot
  <2>1. /\ boot' = boot + 1 /\ reboots' = reboots + 1 /\ row' = row
        /\ pending' = {} /\ resend' = {} /\ unwritten' = {} /\ \A r \in Runs : said'[r] = "idle"
    BY <1>14 DEF Reboot, db
  <2>2. row'.boot <= boot'
    BY <1>1, <1>5, <2>1 DEF Types, DbTypes
  <2> QED
    BY <1>1, <2>1, <2>2 DEF Memory
<1> QED
  BY <1>6, <1>7, <1>8, <1>9, <1>10, <1>11, <1>12, <1>13, <1>14 DEF Next, Gateway, Connection, Execution

LEMMA LeasesStep ==
  ASSUME FenceInv, [Next]_vars
  PROVE  Leases'
<1>1. /\ Types /\ Queues /\ Leases /\ LeaseStep
      /\ cur \in Conns /\ offering \in [Runs -> Offerings]
      /\ lease \in [Runs -> {"none", "active", "released"}]
  BY LeaseMoves DEF FenceInv, Types, DbTypes, GatewayTypes
<1>2. ASSUME offering' = offering, \A r \in Runs : lease'[r] = "active" => lease[r] = "active",
             \/ row' = row /\ (row.boot # 0 \/ (cur' = 0 /\ joining' = {}))
             \/ row'.boot # 0
      PROVE  Leases'
  <2>1. \A r \in Runs : Given(r)' <=> Given(r)
    BY <1>1, <1>2 DEF LeaseStep, Given
  <2> QED
    BY <1>1, <1>2, <2>1 DEF Leases, At
<1>3. row.boot # 0 \/ (cur = 0 /\ joining = {})
  BY <1>1 DEF Leases
<1>4. ASSUME NEW r \in Runs, Dispatch(r) PROVE Leases'
  <2>1. row' = row /\ cur' = cur /\ joining' = joining
    BY <1>4 DEF Dispatch, DispatchPick, DispatchLease, DispatchRegister, DispatchSend, DispatchFail, db
  <2>2. ASSUME NEW q \in Runs, q # r
        PROVE  offering'[q] = offering[q] /\ lease'[q] = lease[q]
    BY <1>1, <1>4, <2>2 DEF Dispatch, DispatchPick, DispatchLease, DispatchRegister, DispatchSend,
                           DispatchFail, Go, db
  <2>3. /\ offering'[r].step # "todo"
        /\ At(r, "picked")' => ~Given(r)' /\ row.boot # 0
        /\ At(r, "leased")' \/ At(r, "registered")' => Given(r)'
        /\ Given(r)' => Given(r) \/ row.boot # 0
    <3>1. CASE DispatchPick(r)
      BY <1>1, <3>1 DEF DispatchPick, Idle, Leases, At, Given, db
    <3>2. CASE DispatchLease(r)
      BY <1>1, <3>2 DEF DispatchLease, Go, Leases, At, Given, Offerings
    <3>3. CASE DispatchRegister(r)
      <4>1. CASE Go(r, "registered") /\ UNCHANGED lease
        BY <1>1, <3>3, <4>1 DEF DispatchRegister, Go, Leases, At, Given, Offerings
      <4>2. CASE Go(r, "failing")
        BY <1>1, <3>3, <4>2 DEF DispatchRegister, Go, Leases, At, Given, Offerings
      <4> QED
        BY <3>3, <4>1, <4>2 DEF DispatchRegister
    <3>4. CASE DispatchSend(r)
      <4>1. CASE offering' = [offering EXCEPT ![r] = Idle]
        BY <1>1, <3>4, <4>1 DEF DispatchSend, Idle, Leases, At, Given
      <4>2. CASE Go(r, "failing")
        BY <1>1, <3>4, <4>2 DEF DispatchSend, Go, Leases, At, Given, Offerings
      <4> QED
        BY <3>4, <4>1, <4>2 DEF DispatchSend
    <3>5. CASE DispatchFail(r)
      BY <1>1, <3>5 DEF DispatchFail, Idle, At, Given
    <3> QED
      BY <1>4, <3>1, <3>2, <3>3, <3>4, <3>5 DEF Dispatch
  <2> QED
    BY <1>1, <2>1, <2>2, <2>3 DEF Leases, At, Given
<1>5. ASSUME NEW e \in Epochs, HelloTx(e) PROVE Leases'
  <2>1. Head(up[e]) \in GoodUp /\ Head(up[e]).type = "hello"
    BY <1>1, <1>5, HeadUp DEF HelloTx
  <2>2. row'.boot # 0
    BY <1>1, <1>5, <2>1 DEF HelloTx, GoodUp, Types, RunnerTypes
  <2> QED
    BY <1>1, <1>2, <1>5, <2>2 DEF HelloTx
<1>6. CASE HandleEvent
  <2>1. cur \in Epochs /\ up[cur] # <<>> /\ Head(up[cur]).type = "event"
    BY <1>1, <1>6 DEF HandleEvent, Conns
  <2>2. Head(up[cur]).event.run \in Runs
    BY <1>1, <2>1, HeadUp, TheEvent
  <2>3. \/ lease' = lease
        \/ lease' = [lease EXCEPT ![Head(up[cur]).event.run] = "released"]
    BY <1>6 DEF HandleEvent, RolledBack
  <2>4. UNCHANGED <<offering, row, cur, joining>>
    BY <1>6 DEF HandleEvent
  <2> QED
    BY <1>1, <1>2, <1>3, <2>2, <2>3, <2>4
<1>7. CASE HandleReject
  <2>1. lease' = lease \/ lease' = [lease EXCEPT ![Head(up[cur]).run] = "released"]
    BY <1>7 DEF HandleReject
  <2>2. UNCHANGED <<offering, row, cur, joining>>
    BY <1>7 DEF HandleReject
  <2> QED
    BY <1>1, <1>2, <1>3, <2>1, <2>2
<1>8. CASE Heartbeat \/ SweepRelease
  <2>1. UNCHANGED <<offering, row, cur, joining>> /\ \A r \in Runs : lease'[r] = "active" => lease[r] = "active"
    BY <1>8 DEF Heartbeat, SweepRelease, gateway
  <2> QED
    BY <1>2, <1>3, <2>1
<1>9. CASE GatewayCrash
  <2>1. /\ UNCHANGED <<lease, row>> /\ cur' = 0 /\ joining' = {}
        /\ \A r \in Runs : offering'[r].step = "none"
    BY <1>9 DEF GatewayCrash, Idle
  <2> QED
    BY <1>1, <2>1 DEF Leases, At, Given
<1>10. ASSUME NEW j \in joining, HelloSwap(j) PROVE Leases'
  <2>1. UNCHANGED <<offering, row, lease>>
    BY <1>10 DEF HelloSwap, db
  <2> QED
    BY <1>2, <1>3, <2>1
<1>11. CASE \/ Disconnect \/ SweepSelect \/ Connection \/ Reboot \/ UNCHANGED vars
            \/ \E w \in forwards : Forward(w)
            \/ \E m \in marks : Mark(m)
            \/ \E r \in Runs : Control(r) \/ Expire(r) \/ Execution(r)
            \/ \E e \in Epochs : Break(e)
  <2>1. UNCHANGED <<offering, row, lease, joining>> /\ cur' \in {0, cur}
    BY <1>11 DEF Disconnect, SweepSelect, Connection, Dial, Resend, TakeOffer, RefuseOffer, TakeCommand, TakeAck,
                 Reboot, Forward, Mark, Control, Expire, Execution, Emit, Produce, EmitDropped, Write, Break,
                 vars, db, gateway
  <2> QED
    BY <1>2, <1>3, <2>1
<1> QED
  BY <1>4, <1>5, <1>6, <1>7, <1>8, <1>9, <1>10, <1>11 DEF Next, Gateway

LEMMA FenceInit == Init => FenceInv
<1> SUFFICES ASSUME Init PROVE FenceInv
  OBVIOUS
<1>1. Types /\ Queues
  BY TypesInit, QueuesInit
<1>2. Memory
  BY DEF Init, Memory
<1>3. Leases
  BY DEF Init, Leases, At, Given
<1> QED
  BY <1>1, <1>2, <1>3 DEF FenceInv

\* The invariant: frames in flight, the memory of runnerd and the dispatches
\* under way agree with the leases and the boot id in the database.
THEOREM FenceInvariant == Spec => []FenceInv
<1>1. FenceInv /\ [Next]_vars => FenceInv'
  BY TypesStep, QueuesStep, MemoryStep, LeasesStep DEF FenceInv
<1> QED
  BY FenceInit, <1>1, PTL DEF Spec

-----------------------------------------------------------------------------
(* What a step does to a status                                             *)

\* Only handleRunEvent applies an event.
LEMMA OnlyEventsApply ==
  ASSUME [Next]_vars
  PROVE  applied' = applied \/ HandleEvent
BY ZenonT(40) DEF Next, Dispatch, DispatchPick, DispatchLease, DispatchRegister, DispatchSend, DispatchFail, Execution,
       Emit, EmitDropped, Produce, Write, Control, Expire, Gateway, HelloTx, HelloSwap, Disconnect, HandleReject,
       Forward, SweepSelect, SweepRelease, Mark, Heartbeat, Connection, Dial, Resend, TakeOffer, RefuseOffer,
       TakeCommand, TakeAck, GatewayCrash, Reboot, Break, db, vars

\* An event of a process that has been replaced: the lease of its run was taken
\* back, and such an event leaves the status alone.
LEMMA FencedStep ==
  ASSUME FenceInv, HandleEvent, NEW r \in Runs, status'[r] # status[r]
  PROVE  Head(up[cur]).event.boot >= row.boot
<1>1. Types /\ Queues /\ cur \in Epochs /\ up[cur] # <<>> /\ Head(up[cur]).type = "event"
  BY DEF FenceInv, HandleEvent, Types, GatewayTypes, Conns
<1> DEFINE fr == Head(up[cur])
<1>2. /\ fr \in GoodUp /\ fr.event \in EventRec /\ fr.event.run \in Runs /\ GoodEvent(fr.event)
  BY <1>1, HeadUp, TheEvent
<1>3. /\ Authorised(fr) /\ ~Already(fr.event)
      /\ status' = [status EXCEPT ![fr.event.run] = Outcome(fr.event)]
  BY DEF HandleEvent, RolledBack
<1>4. Outcome(fr.event) # status[fr.event.run]
  BY <1>1, <1>2, <1>3 DEF Types, DbTypes
<1>5. ~LateKind(fr.event.kind)
  BY <1>4 DEF Outcome
<1>6. lease[fr.event.run] = "active"
  BY <1>1, <1>2, <1>3, <1>5, Applied
<1>7. ~(fr.event.boot < row.boot)
  BY <1>2, <1>6 DEF GoodEvent
<1>8. fr.event.boot \in Nat /\ row.boot \in Nat
  BY <1>1, <1>2 DEF EventRec, Types, DbTypes
<1> QED
  BY <1>7, <1>8

\* No status of a process that has been replaced is applied once its successor
\* has said hello (settleRestartedRuns, registerRunner): for any number of runs,
\* connections and restarts, frames of the old process that are still being read
\* change no status.
THEOREM RestartFenced == Spec => RestartFences
<1>1. ASSUME FenceInv, [Next]_vars
      PROVE  [\A r \in Runs : status'[r] # status[r] /\ applied'[r] # applied[r]
                => Head(up[cur]).event.boot >= row.boot]_vars
  BY <1>1, OnlyEventsApply, FencedStep
<1> QED
  BY FenceInvariant, <1>1, PTL DEF Spec, RestartFences

-----------------------------------------------------------------------------
(* Nobody is stranded until something restarts                              *)

\* What is over stays over, and a control plane that fails a run ends it.
LEMMA LiveEnds ==
  ASSUME Types, Queues, [Next]_vars, NEW r \in Runs, Live(r)'
  PROVE  Live(r)
<1>1. status \in [Runs -> Statuses]
  BY DEF Types, DbTypes
<1>2. ASSUME NEW q \in Runs, NEW to, Report(q, to) \/ Refused(q, to) PROVE Live(r)
  BY <1>1, <1>2 DEF Report, Refused, Live, CanTransition
<1>3. CASE HandleEvent
  <2>1. cur \in Epochs /\ up[cur] # <<>> /\ Head(up[cur]).type = "event"
    BY <1>3 DEF HandleEvent, Types, GatewayTypes, Conns
  <2> DEFINE fr == Head(up[cur])
  <2>2. fr.event.run \in Runs
    BY <2>1, HeadUp, TheEvent
  <2>3. status' = status \/ status' = [status EXCEPT ![fr.event.run] = Outcome(fr.event)]
    BY <1>3 DEF HandleEvent, RolledBack
  <2> QED
    BY <1>1, <2>2, <2>3 DEF Outcome, Live
<1>4. CASE HandleReject
  <2>1. CASE Head(up[cur]).run \in active
    <3>1. Head(up[cur]).run \in Runs
      BY <2>1 DEF Types, GatewayTypes
    <3> QED
      BY <1>2, <1>4, <2>1, <3>1 DEF HandleReject, Live
  <2>2. CASE Head(up[cur]).run \notin active
    BY <1>4, <2>2 DEF HandleReject, Live
  <2> QED
    BY <2>1, <2>2
<1>5. ASSUME NEW q \in Runs, DispatchFail(q) PROVE Live(r)
  BY <1>2, <1>5 DEF DispatchFail, GiveUp
<1>6. ASSUME NEW q \in Runs, Control(q) PROVE Live(r)
  BY <1>1, <1>6 DEF Control, Live, CanTransition
<1>7. ASSUME NEW m \in marks, Mark(m) PROVE Live(r)
  BY <1>1, <1>7, MarkStep DEF Live, CanTransition
<1>8. CASE GatewayCrash
  <2>1. ~(OrphanEnd(status[r]) \in Active)
    BY OrphansEnd, EndsOver
  <2> QED
    BY <1>8, <2>1 DEF GatewayCrash, Live
<1>9. CASE status' = status
  BY <1>9 DEF Live
<1>10. CASE \/ \E q \in Runs : \/ DispatchPick(q) \/ DispatchLease(q) \/ DispatchRegister(q)
                              \/ DispatchSend(q) \/ Expire(q) \/ Execution(q)
            \/ \E e \in Epochs : HelloTx(e) \/ Break(e)
            \/ \E j \in joining : HelloSwap(j)
            \/ \E w \in forwards : Forward(w)
            \/ Disconnect \/ SweepSelect \/ SweepRelease \/ Heartbeat \/ Connection \/ Reboot
            \/ UNCHANGED vars
  <2>1. status' = status
    BY <1>10, ZenonT(40) DEF DispatchPick, DispatchLease, DispatchRegister, DispatchSend, Expire, Execution, Emit, Produce,
                 EmitDropped, Write, HelloTx, Break, HelloSwap, Forward, Disconnect, SweepSelect, SweepRelease,
                 Heartbeat, Connection, Dial, Resend, TakeOffer, RefuseOffer, TakeCommand, TakeAck, Reboot, db, vars
  <2> QED
    BY <1>9, <2>1
<1> QED
  BY <1>3, <1>4, <1>5, <1>6, <1>7, <1>8, <1>10 DEF Next, Gateway, Dispatch

\* Who gives up on a live run without its lease has been refused for more than
\* the transition table.
LEMMA StrandedGrows ==
  ASSUME Types, [Next]_vars
  PROVE  /\ stranded \subseteq stranded'
         /\ stranded \subseteq Fallible => stranded' \subseteq Fallible
<1>1. ASSUME NEW r, NEW to, GiveUp(r, to)
      PROVE  /\ stranded \subseteq stranded'
             /\ stranded \subseteq Fallible => stranded' \subseteq Fallible
  BY <1>1 DEF GiveUp, Refused
<1>2. ASSUME NEW r \in Runs, DispatchFail(r)
      PROVE  stranded' = stranded \/ \E to : GiveUp(r, to)
  BY <1>2 DEF DispatchFail
<1>3. ASSUME NEW m \in marks, Mark(m)
      PROVE  stranded' = stranded \/ \E to : GiveUp(m.run, to)
  BY <1>3 DEF Mark, MarkRead, MarkReconnect, MarkReread, MarkLose, MarkFail
<1>4. CASE \/ \E r \in Runs : \/ DispatchPick(r) \/ DispatchLease(r) \/ DispatchRegister(r)
                              \/ DispatchSend(r) \/ Control(r) \/ Expire(r) \/ Execution(r)
           \/ \E e \in Epochs : HelloTx(e) \/ Break(e)
           \/ \E j \in joining : HelloSwap(j)
           \/ \E w \in forwards : Forward(w)
           \/ Disconnect \/ HandleEvent \/ HandleReject \/ SweepSelect \/ SweepRelease
           \/ Heartbeat \/ Connection \/ Reboot \/ GatewayCrash
           \/ UNCHANGED vars
  <2>1. stranded' = stranded
    BY <1>4, ZenonT(40) DEF DispatchPick, DispatchLease, DispatchRegister, DispatchSend, Control, Expire,
         Execution, Emit, Produce, EmitDropped, Write, HelloTx, Break, HelloSwap, Forward, Disconnect,
         HandleEvent, HandleReject, SweepSelect, SweepRelease, Heartbeat, Connection, Dial, Resend,
         TakeOffer, RefuseOffer, TakeCommand, TakeAck, Reboot, GatewayCrash, history, vars
  <2> QED
    BY <2>1
<1> QED
  BY <1>1, <1>2, <1>3, <1>4 DEF Next, Gateway, Dispatch

\* The mark of an expired lease ends its run, goes on, or gives up on it.
LEMMA ExpiredMarkStep ==
  ASSUME Types, NEW m \in marks, m.why = "expired", Mark(m), Live(m.run)',
         lease[m.run] = "released", m.run \notin stranded'
  PROVE  \E n \in marks' : n.run = m.run /\ n.why = "expired"
<1>1. status \in [Runs -> Statuses] /\ m \in Marks /\ m.run \in Runs
  BY MarkStep DEF Types, DbTypes
<1>2. ASSUME NEW step, Onward(m, step) PROVE \E n \in marks' : n.run = m.run /\ n.why = "expired"
  <2>1. [m EXCEPT !.step = step].run = m.run /\ [m EXCEPT !.step = step].why = m.why
    BY <1>1 DEF Marks
  <2> QED
    BY <1>2, <2>1 DEF Onward
<1>3. \A to \in {"lost", "failed"} : to \notin Active
  BY EndsOver DEF Terminal
<1>4. CASE MarkRead(m)
  <2>1. status' = status
    BY <1>4 DEF MarkRead
  <2> QED
    BY <1>2, <1>4, <2>1 DEF MarkRead, Live
<1>5. CASE MarkReconnect(m)
  BY <1>2, <1>5 DEF MarkReconnect
<1>6. CASE MarkReread(m)
  <2>1. status' = status
    BY <1>6 DEF MarkReread
  <2> QED
    BY <1>2, <1>6, <2>1 DEF MarkReread, Live
<1>7. CASE MarkLose(m)
  <2>1. ~Report(m.run, "lost")
    BY <1>1, <1>3 DEF Report, Live
  <2> QED
    BY <1>2, <1>7, <2>1 DEF MarkLose
<1>8. CASE MarkFail(m)
  <2>1. ~Report(m.run, "failed")
    BY <1>1, <1>3 DEF Report, Live
  <2>2. ~GiveUp(m.run, "failed")
    <3> SUFFICES ASSUME GiveUp(m.run, "failed") PROVE FALSE
      OBVIOUS
    <3>1. status' = status
      BY DEF GiveUp, Refused
    <3>2. CanTransition(status[m.run], "failed")
      BY <3>1, CanFail DEF Live
    <3> QED
      BY <3>2 DEF GiveUp
  <2> QED
    BY <1>2, <1>8, <2>1, <2>2 DEF MarkFail
<1> QED
  BY <1>4, <1>5, <1>6, <1>7, <1>8 DEF Mark

LEMMA CoveredStep ==
  ASSUME FenceInv, [Next]_vars, crashes' = 0, NEW r \in Runs, Live(r)', Covered(r),
         lease[r] = "released", r \notin stranded'
  PROVE  Covered(r)'
<1>1. Types /\ Queues /\ Live(r) /\ status \in [Runs -> Statuses] /\ offering \in [Runs -> Offerings]
      /\ crashes \in Nat /\ crashes + 1 # 0
  BY LiveEnds DEF FenceInv, Types, DbTypes, GatewayTypes, RunnerTypes
<1> DEFINE Owed(q) == \E m \in marks : m.run = q /\ m.why = "expired"
<1>2. ASSUME UNCHANGED <<offering, expiring>>, marks \subseteq marks' PROVE Covered(r)'
  BY <1>2 DEF Covered, At
<1>3. ASSUME NEW q \in Runs, Dispatch(q) PROVE Covered(r)'
  <2>1. expiring' = expiring /\ marks' = marks
    BY <1>3 DEF Dispatch, DispatchPick, DispatchLease, DispatchRegister, DispatchSend, DispatchFail
  <2>2. CASE r \in expiring \/ Owed(r)
    BY <2>1, <2>2 DEF Covered
  <2>3. CASE At(r, "failing")
    <3>1. CASE q # r
      <4>1. offering'[r] = offering[r]
        BY <1>1, <1>3, <3>1 DEF Dispatch, DispatchPick, DispatchLease, DispatchRegister, DispatchSend,
                                DispatchFail, Go
      <4> QED
        BY <2>3, <4>1 DEF Covered, At
    <3>2. CASE q = r
      <4>1. DispatchFail(r)
        BY <1>3, <2>3, <3>2 DEF Dispatch, DispatchPick, DispatchLease, DispatchRegister, DispatchSend, At
      <4>2. CanTransition(status[r], "failed") /\ "failed" \notin Active
        BY <1>1, CanFail, EndsOver DEF Live, Terminal
      <4>3. ~GiveUp(r, "failed")
        BY <4>2 DEF GiveUp
      <4>4. status'[r] = "failed"
        BY <1>1, <4>1, <4>3 DEF DispatchFail, Report
      <4> QED
        BY <4>2, <4>4 DEF Live
    <3> QED
      BY <3>1, <3>2
  <2> QED
    BY <2>2, <2>3 DEF Covered
<1>4. CASE SweepSelect
  <2>1. r \notin expiring /\ offering' = offering /\ marks' = marks
    BY <1>4 DEF SweepSelect
  <2> QED
    BY <2>1 DEF Covered, At
<1>5. CASE SweepRelease
  <2>1. offering' = offering /\ marks \subseteq marks'
        /\ \A q \in expiring : [run |-> q, why |-> "expired", step |-> "read"] \in marks'
    BY <1>5 DEF SweepRelease
  <2>2. r \in expiring => Owed(r)'
    BY <2>1
  <2> QED
    BY <2>1, <2>2 DEF Covered, At
<1>6. ASSUME NEW m \in marks, Mark(m) PROVE Covered(r)'
  <2>1. UNCHANGED <<offering, expiring>>
    BY <1>6 DEF Mark
  <2>2. CASE ~Owed(r)
    BY <2>1, <2>2 DEF Covered, At
  <2>3. ASSUME NEW n \in marks, n.run = r, n.why = "expired" PROVE Owed(r)'
    <3>1. CASE n = m
      BY <1>1, <1>6, <2>3, <3>1, ExpiredMarkStep
    <3>2. CASE n # m
      <4>1. n \in marks'
        BY <1>1, <1>6, <3>2, MarkStep
      <4> QED
        BY <2>3, <4>1
    <3> QED
      BY <3>1, <3>2
  <2> QED
    BY <2>2, <2>3 DEF Covered
<1>7. ~GatewayCrash
  BY <1>1 DEF GatewayCrash
<1>8. CASE \/ \E q \in Runs : Execution(q) \/ Control(q) \/ Expire(q)
           \/ \E e \in Epochs : HelloTx(e) \/ Break(e)
           \/ \E j \in joining : HelloSwap(j)
           \/ \E w \in forwards : Forward(w)
           \/ Disconnect \/ HandleEvent \/ HandleReject \/ Heartbeat \/ Connection \/ Reboot
           \/ UNCHANGED vars
  <2>1. UNCHANGED <<offering, expiring>> /\ marks \subseteq marks'
    BY <1>8, ZenonT(40) DEF Execution, Emit, Produce, EmitDropped, Write, Control, Expire, HelloTx, Break, HelloSwap, Forward,
                Disconnect, HandleEvent, HandleReject, Heartbeat, Connection, Dial, Resend, TakeOffer, RefuseOffer,
                TakeCommand, TakeAck, Reboot, gateway, vars
  <2> QED
    BY <1>2, <2>1
<1> QED
  BY <1>3, <1>4, <1>5, <1>6, <1>7, <1>8 DEF Next, Gateway

\* Whoever takes the lease of a live run back owes it its end.
LEMMA TakenBack ==
  ASSUME FenceInv, [Next]_vars, reboots = 0, NEW r \in Runs, Live(r)',
         lease[r] # "released", lease'[r] = "released"
  PROVE  Covered(r)'
<1>1. /\ Types /\ Queues /\ Memory /\ Live(r) /\ status \in [Runs -> Statuses]
      /\ offering \in [Runs -> Offerings] /\ lease \in [Runs -> {"none", "active", "released"}]
  BY LiveEnds DEF FenceInv, Types, DbTypes, GatewayTypes
<1>2. "failed" \notin Active /\ \A s \in Terminal : s \notin Active
  BY EndsOver DEF Terminal
<1>3. ASSUME NEW q \in Runs, Dispatch(q) PROVE Covered(r)'
  <2>1. Go(q, "failing") /\ q = r
    <3>1. CASE DispatchRegister(q)
      BY <1>1, <3>1 DEF DispatchRegister
    <3>2. CASE DispatchSend(q)
      BY <1>1, <3>2 DEF DispatchSend
    <3>3. CASE DispatchPick(q) \/ DispatchLease(q) \/ DispatchFail(q)
      BY <1>1, <3>3 DEF DispatchPick, DispatchLease, DispatchFail, db
    <3> QED
      BY <1>3, <3>1, <3>2, <3>3 DEF Dispatch
  <2> QED
    BY <1>1, <2>1 DEF Go, Covered, At, Offerings
<1>4. ASSUME NEW e \in Epochs, HelloTx(e) PROVE FALSE
  <2>1. Head(up[e]) \in GoodUp /\ Head(up[e]).type = "hello"
    BY <1>1, <1>4, HeadUp DEF HelloTx
  <2>2. Head(up[e]).boot = 1 /\ row.boot \in {0, 1}
    BY <1>1, <2>1 DEF GoodUp, Memory, Types, DbTypes
  <2>3. RestartedBy(Head(up[e]).boot) = {}
    BY <2>2 DEF RestartedBy
  <2> QED
    BY <1>1, <1>4, <2>3 DEF HelloTx
<1>5. CASE SweepRelease
  <2>1. r \in expiring /\ \A q \in expiring : [run |-> q, why |-> "expired", step |-> "read"] \in marks'
    BY <1>1, <1>5 DEF SweepRelease
  <2> QED
    BY <2>1 DEF Covered
<1>6. ~Heartbeat
  BY <1>1 DEF Heartbeat
<1>7. ~HandleEvent
  <2> SUFFICES ASSUME HandleEvent PROVE FALSE
    OBVIOUS
  <2>1. cur \in Epochs /\ up[cur] # <<>> /\ Head(up[cur]).type = "event"
    BY <1>1 DEF HandleEvent, Types, GatewayTypes, Conns
  <2> DEFINE f == Head(up[cur]).event
  <2>2. f.run \in Runs
    BY <1>1, <2>1, HeadUp, TheEvent
  <2>3. lease' = lease \/ /\ lease' = [lease EXCEPT ![f.run] = "released"]
                          /\ Poison(f) \/ f.kind \in Terminal
                          /\ status' = [status EXCEPT ![f.run] = Outcome(f)]
    BY DEF HandleEvent, RolledBack
  <2>4. f.run = r /\ (Poison(f) \/ f.kind \in Terminal) /\ status'[r] = Outcome(f)
    BY <1>1, <2>2, <2>3
  <2>5. ~LateKind(f.kind)
    BY <2>4 DEF Poison, LateKind, Terminal
  <2>6. Outcome(f) \notin Active
    BY <1>1, <1>2, <2>4, <2>5 DEF Outcome
  <2> QED
    BY <2>4, <2>6 DEF Live
<1>8. ~HandleReject
  <2> SUFFICES ASSUME HandleReject PROVE FALSE
    OBVIOUS
  <2> DEFINE q == Head(up[cur]).run
  <2>1. lease' = lease \/ (/\ q \in active /\ Live(q) /\ Report(q, "failed")
                           /\ lease' = [lease EXCEPT ![q] = "released"])
    BY DEF HandleReject
  <2>2. q = r /\ Report(r, "failed")
    BY <1>1, <2>1 DEF Types, GatewayTypes
  <2>3. status'[r] = "failed"
    BY <1>1, <2>2 DEF Report
  <2> QED
    BY <1>2, <2>3 DEF Live
<1>9. CASE \/ \E q \in Runs : Execution(q) \/ Control(q) \/ Expire(q)
           \/ \E e \in Epochs : Break(e)
           \/ \E j \in joining : HelloSwap(j)
           \/ \E w \in forwards : Forward(w)
           \/ \E m \in marks : Mark(m)
           \/ Disconnect \/ SweepSelect \/ Connection \/ Reboot \/ GatewayCrash
           \/ UNCHANGED vars
  <2>1. lease' = lease
    BY <1>9 DEF Execution, Emit, Produce, EmitDropped, Write, Control, Expire, Break, HelloSwap, Forward, Mark,
                Disconnect, SweepSelect, Connection, Dial, Resend, TakeOffer, RefuseOffer, TakeCommand, TakeAck,
                Reboot, GatewayCrash, db, vars
  <2> QED
    BY <2>1
<1> QED
  BY <1>3, <1>4, <1>5, <1>6, <1>7, <1>8, <1>9 DEF Next, Gateway

\* Restarts are only counted upwards.
LEMMA RestartsCount ==
  ASSUME Types, [Next]_vars
  PROVE  reboots <= reboots' /\ crashes <= crashes'
<1>1. reboots \in Nat /\ crashes \in Nat
  BY DEF Types, RunnerTypes
<1>2. CASE Reboot
  BY <1>1, <1>2 DEF Reboot
<1>3. CASE GatewayCrash
  BY <1>1, <1>3 DEF GatewayCrash
<1>4. CASE ~Reboot /\ ~GatewayCrash
  <2>1. reboots' = reboots /\ crashes' = crashes
    BY <1>4, ZenonT(40) DEF Next, Dispatch, DispatchPick, DispatchLease, DispatchRegister, DispatchSend, DispatchFail,
                Execution, Emit, EmitDropped, Produce, Write, Control, Expire, Gateway, HelloTx, HelloSwap, Disconnect,
                HandleEvent, HandleReject, Forward, SweepSelect, SweepRelease, Mark, Heartbeat, Connection, Dial,
                Resend, TakeOffer, RefuseOffer, TakeCommand, TakeAck, Break, bounds, vars
  <2> QED
    BY <1>1, <2>1
<1> QED
  BY <1>2, <1>3, <1>4

LEMMA AttendedStep ==
  ASSUME StrandInv, [Next]_vars
  PROVE  Attended'
<1>1. FenceInv /\ Types /\ Queues /\ Attended /\ reboots \in Nat /\ crashes \in Nat
  BY DEF StrandInv, FenceInv, Types, RunnerTypes
<1>2. stranded \subseteq stranded' /\ stranded' \subseteq Fallible
  BY <1>1, StrandedGrows DEF Attended
<1>3. ASSUME reboots' = 0, crashes' = 0, NEW r \in Runs, r \notin stranded',
             Live(r)', lease'[r] = "released"
      PROVE  Covered(r)'
  <2>1. reboots = 0 /\ crashes = 0
    BY <1>1, <1>3, RestartsCount, ProtocolAssumption DEF Types, RunnerTypes
  <2>2. Live(r)
    BY <1>1, <1>3, LiveEnds
  <2>3. CASE lease[r] = "released"
    <3>1. Covered(r)
      BY <1>1, <1>2, <1>3, <2>1, <2>2, <2>3 DEF Attended
    <3> QED
      BY <1>1, <1>3, <2>3, <3>1, CoveredStep
  <2>4. CASE lease[r] # "released"
    BY <1>1, <1>3, <2>1, <2>4, TakenBack
  <2> QED
    BY <2>3, <2>4
<1> QED
  BY <1>2, <1>3 DEF Attended

\* As long as neither runnerd nor the control plane restarts, a live run whose
\* lease was taken back is about to be failed by its dispatch, or is in the
\* hands of the sweeper that took it, or its last report was refused; and that
\* happens only to a run whose writes may be refused by more than the table.
THEOREM StrandInvariant == Spec => []StrandInv
<1>1. Init => StrandInv
  BY FenceInit DEF StrandInv, Init, Attended
<1>2. StrandInv /\ [Next]_vars => StrandInv'
  BY TypesStep, QueuesStep, MemoryStep, LeasesStep, AttendedStep DEF StrandInv, FenceInv
<1> QED
  BY <1>1, <1>2, PTL DEF Spec

\* Until runnerd or the control plane restarts, a live run without its lease has
\* somebody in the gateway that will move it (gateway.go:591-592), unless the
\* fence or the database refused the last report on it: for any number of runs,
\* connections, breaks, expiries and cancels, and whichever writes are refused.
THEOREM NobodyStranded == Spec => []NoStranded
<1>1. StrandInv => NoStranded
  BY DEF StrandInv, Attended, Covered, NoStranded, Handled, At
<1> QED
  BY StrandInvariant, <1>1, PTL
=============================================================================
