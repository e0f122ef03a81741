--------------------------- MODULE RunnerProtocol ---------------------------
(***************************************************************************)
(* A remote Runner and the control plane's gateway, over connections that  *)
(* break: run.offer, run.reject, run.command, run.event, ack, heartbeat,   *)
(* leases and their sweeper, reconnection by epoch and restart by boot id. *)
(*   runnergateway/gateway.go, ingress.go, application/runner_events.go,   *)
(*   sqlstore/runners.go, cmd/runnerd/main.go                              *)
(* One Runner.  A run is dispatched once, so it has at most one lease and  *)
(* its fencing token needs no variable.  run.accept, which only leaves an  *)
(* audit record, and approvals are left out.                               *)
(***************************************************************************)
EXTENDS RunStatus, FiniteSets, SequencesExt

CONSTANTS
  Runs,          \* runs created for this Runner's host
  Slots,         \* runs the Runner executes at a time
  Cancels,       \* runs that the user may cancel, once
  Fallible,      \* the runs whose status writes may be refused by more than the
                 \* transition table: those of a delegated Coordinator, by the fence
                 \* on its Todo claim, and any run's by a database that fails
  MaxPending,    \* bound on events that wait for an acknowledgement
  MaxExpiries,   \* bound on leases whose TTL passes
  MaxEpoch,      \* bound on connections
  MaxBreaks,     \* bound on transport failures
  MaxReboots,    \* bound on restarts of runnerd
  MaxCrashes     \* bound on restarts of the control plane

ASSUME ProtocolAssumption ==
  /\ Slots \in Nat \ {0}
  /\ Cancels \subseteq Runs /\ Fallible \subseteq Runs
  /\ {MaxPending, MaxExpiries, MaxEpoch, MaxBreaks, MaxReboots, MaxCrashes} \subseteq Nat

Epochs == 1 .. MaxEpoch

VARIABLES
  \* the database
  status,        \* execution_runs.status
  lease,         \* run_leases: none, active or released
  fresh,         \* runs whose lease has renewed_until in the future
  applied,       \* runner_event_dedup: the producer_seqs, in the order applied
  row,           \* runners: boot_id and connection_epoch
  \* the memory of the gateway
  cur,           \* epoch of the current connection, 0 when there is none
  active,        \* activeRuns of the current connection
  joining,       \* connections between registerRunner's transaction and g.conns
  offering,      \* Dispatch calls under way, with the connection they picked
  forwards,      \* committed ControlRun calls that have not forwarded yet
  marks,         \* the runs that the gateway is about to move, why and how far
  expiring,      \* what ExpireLeases has selected and not released yet
  \* the transport
  up, down,      \* frames in flight, per connection and direction
  alive,         \* connections that still carry frames
  \* the memory of runnerd
  boot, epoch,   \* boot_id and the epoch of the connection last dialled
  held,          \* runs: accepted and not finalized
  framed,        \* leases: runs whose events can still be framed
  said,          \* how far the execution of a run has got
  asked,         \* runs that were told to stop
  seqs,          \* producer_seq last used
  pending,       \* events that are not acknowledged
  unwritten,     \* frames between eventPayloadOf and their write
  resend,        \* what resendPending still has to write
  \* history
  rolled,        \* events whose application was rolled back, and not made since
  stranded,      \* runs that lived when the gateway's last report on them was refused
  \* bounds
  breaks, reboots, crashes, expiries, controlled

db == <<status, lease, fresh, applied, row>>
gateway == <<cur, active, joining, offering, forwards, marks, expiring>>
transport == <<up, down, alive>>
runner == <<boot, epoch, held, framed, said, asked, seqs, pending, unwritten, resend>>
history == <<rolled, stranded>>
bounds == <<breaks, reboots, crashes, expiries, controlled>>
vars == <<db, gateway, transport, runner, history, bounds>>

Live(r) == status[r] \in Active

Idle == [step |-> "none", conn |-> 0]

Init ==
  /\ status = [r \in Runs |-> "queued"]
  /\ lease = [r \in Runs |-> "none"]
  /\ fresh = {}
  /\ applied = [r \in Runs |-> <<>>]
  /\ row = [boot |-> 0, epoch |-> 0]
  /\ cur = 0 /\ active = {} /\ joining = {} /\ forwards = {} /\ marks = {} /\ expiring = {}
  /\ offering = [r \in Runs |-> [step |-> "todo", conn |-> 0]]
  /\ up = [e \in Epochs |-> <<>>] /\ down = [e \in Epochs |-> <<>>] /\ alive = {}
  /\ boot = 1 /\ epoch = 0 /\ held = {} /\ framed = {} /\ asked = {}
  /\ said = [r \in Runs |-> "idle"]
  /\ seqs = [r \in Runs |-> 0]
  /\ pending = {} /\ resend = {} /\ unwritten = {}
  /\ rolled = {} /\ stranded = {}
  /\ breaks = 0 /\ reboots = 0 /\ crashes = 0 /\ expiries = 0 /\ controlled = {}

-----------------------------------------------------------------------------
(* Frames and transactions                                                  *)

Offer(r) == [type |-> "offer", run |-> r]
Command(r) == [type |-> "command", run |-> r]
Ack(f) == [type |-> "ack", run |-> f.run, seq |-> f.seq]
Reject(r) == [type |-> "reject", run |-> r]
\* A run.event carries the epoch that was read when its payload was built.
Event(f, e) == [type |-> "event", event |-> f, epoch |-> e]
Hello == [type |-> "hello", boot |-> boot]

\* A frame for the Runner: queued, and lost when the connection is dead.
SendDown(e, f) == down' = IF e \in alive THEN [down EXCEPT ![e] = Append(@, f)] ELSE down
\* A frame for the gateway, on the connection last dialled.
Online == epoch \in alive
SendUp(f) == up' = IF Online THEN [up EXCEPT ![epoch] = Append(@, f)] ELSE up

\* transitionRunLocked may answer with an error: the table does not allow the
\* move, the Todo claim of a delegated Coordinator run is lost while its Goal is
\* active (renewDelegatedCoordinatorClaimForRun), or the database fails.  Whether
\* the claim is lost by now is left open at every write.
Report(r, to) == CanTransition(status[r], to) /\ status' = [status EXCEPT ![r] = to]
Refused(r, to) == (~CanTransition(status[r], to) \/ r \in Fallible) /\ UNCHANGED status

\* The caller has nothing left to try.
GiveUp(r, to) ==
  /\ Refused(r, to)
  /\ stranded' = IF CanTransition(status[r], to) /\ lease[r] = "released"
                 THEN stranded \cup {r} ELSE stranded

-----------------------------------------------------------------------------
(* The gateway: dispatch                                                    *)

At(r, step) == offering[r].step = step
Go(r, step) == offering' = [offering EXCEPT ![r].step = step]

\* The fresh read of dispatchCommittedRun and the choice of a connection with
\* capacity.  Without one the run fails.
DispatchPick(r) ==
  /\ At(r, "todo")
  /\ offering' = [offering EXCEPT ![r] =
       IF status[r] # "queued" THEN Idle
       ELSE IF cur # 0 /\ Cardinality(active) < Slots THEN [step |-> "picked", conn |-> cur]
       ELSE [step |-> "failing", conn |-> 0]]
  /\ UNCHANGED <<db, cur, active, joining, forwards, marks, expiring, transport, runner, bounds, history>>

DispatchLease(r) ==
  /\ At(r, "picked")
  /\ lease' = [lease EXCEPT ![r] = "active"]
  /\ fresh' = fresh \cup {r}
  /\ Go(r, "leased")
  /\ UNCHANGED <<status, applied, row, cur, active, joining, forwards, marks, expiring,
                 transport, runner, bounds, history>>

\* The lease enters activeRuns, unless the connection was replaced meanwhile.
DispatchRegister(r) ==
  /\ At(r, "leased")
  /\ IF cur = offering[r].conn
     THEN active' = active \cup {r} /\ Go(r, "registered") /\ UNCHANGED lease
     ELSE lease' = [lease EXCEPT ![r] = "released"] /\ Go(r, "failing") /\ UNCHANGED active
  /\ UNCHANGED <<status, fresh, applied, row, cur, joining, forwards, marks, expiring,
                 transport, runner, bounds, history>>

\* run.offer is queued; on a closed connection the lease is taken back, and its
\* Disconnect follows when it is still the current one.
DispatchSend(r) ==
  /\ At(r, "registered")
  /\ \/ /\ cur = offering[r].conn
        /\ SendDown(cur, Offer(r))
        /\ offering' = [offering EXCEPT ![r] = Idle]
        /\ UNCHANGED <<lease, active>>
     \/ /\ offering[r].conn \notin {cur} \cap alive
        /\ lease' = [lease EXCEPT ![r] = "released"]
        /\ active' = active \ {r}
        /\ Go(r, "failing")
        /\ UNCHANGED down
  /\ UNCHANGED <<status, fresh, applied, row, cur, joining, forwards, marks, expiring,
                 up, alive, runner, bounds, history>>

\* failed(execution_host_unavailable)
DispatchFail(r) ==
  /\ At(r, "failing")
  /\ (Report(r, "failed") /\ UNCHANGED stranded) \/ GiveUp(r, "failed")
  /\ offering' = [offering EXCEPT ![r] = Idle]
  /\ UNCHANGED <<lease, fresh, applied, row, cur, active, joining, forwards, marks, expiring,
                 transport, runner, rolled, bounds>>

-----------------------------------------------------------------------------
(* The gateway: connections                                                 *)

\* Mutant: a reconnecting run is not taken for one that its Runner holds.
RestorableSettled ==
  {r \in Runs : lease[r] = "active" /\ Live(r) /\ status[r] # "reconnecting"}

\* ListActiveLeasesByRunner
Restorable == {r \in Runs : lease[r] = "active" /\ Live(r)}

\* Mutant: a restart is taken for a reconnection.
NotRestarted(b) == {}

\* ReleaseActiveLeasesByRunner, for a hello with another boot_id.
RestartedBy(b) ==
  IF row.boot \notin {0, b} THEN {r \in Runs : lease[r] = "active"} ELSE {}

\* registerRunner's transaction: a new boot id takes every lease back; the same
\* boot id gets the leases of its live runs.
HelloTx(e) ==
  /\ up[e] # <<>> /\ Head(up[e]).type = "hello"
  /\ up' = [up EXCEPT ![e] = Tail(@)]
  /\ LET b == Head(up[e]).boot
         stale == RestartedBy(b)
     IN /\ lease' = [r \in Runs |-> IF r \in stale THEN "released" ELSE lease[r]]
        /\ joining' = joining \cup {[epoch |-> e, restarted |-> stale,
                                     leases |-> IF stale = {} THEN Restorable ELSE {}]}
        /\ row' = [boot |-> b, epoch |-> e]
  /\ UNCHANGED <<status, fresh, applied, cur, active, offering, forwards, marks, expiring,
                 down, alive, runner, bounds, history>>

\* The connection becomes the current one and closes the one it replaces, whose
\* frames are ignored from now on; settleRestartedRuns comes next.
HelloSwap(j) ==
  /\ j \in joining
  /\ joining' = joining \ {j}
  /\ cur' = j.epoch
  /\ active' = j.leases
  /\ alive' = alive \ {cur}
  /\ up' = IF cur = 0 THEN up ELSE [up EXCEPT ![cur] = <<>>]
  /\ down' = IF cur = 0 THEN down ELSE [down EXCEPT ![cur] = <<>>]
  /\ marks' = marks \cup {[run |-> r, why |-> "restarted", step |-> "read"] : r \in j.restarted}
  /\ UNCHANGED <<db, offering, forwards, expiring, runner, bounds, history>>

\* handleDisconnect of the current connection.
Disconnect ==
  /\ cur # 0 /\ cur \notin alive
  /\ up' = [up EXCEPT ![cur] = <<>>]
  /\ marks' = marks \cup {[run |-> r, why |-> "disconnect", step |-> "read"] : r \in active}
  /\ cur' = 0 /\ active' = {}
  /\ UNCHANGED <<db, joining, offering, forwards, expiring, down, alive, runner, bounds, history>>

\* RenewLeasesByRunnerIfEpoch, on a heartbeat of the current connection.
Heartbeat ==
  /\ cur # 0 /\ cur \in alive /\ cur = epoch
  /\ row = [boot |-> boot, epoch |-> cur]
  /\ lease' = [r \in Runs |-> IF lease[r] = "active" /\ ~Live(r) THEN "released" ELSE lease[r]]
  /\ fresh' = fresh \cup Restorable
  /\ UNCHANGED <<status, applied, row, gateway, transport, runner, bounds, history>>

\* RunnerEventDedupV2
Already(f) == Contains(applied[f.run], f.seq)

\* LateTerminalObservationKind
LateKind(kind) == kind = "settle"

\* The checks of the transport and of ApplyRunnerEvent: the frame is of the
\* current connection and its lease is active, or released by the end of the
\* run and the event a late observation.
Authorised(fr) ==
  LET f == fr.event
      r == f.run
  IN /\ fr.epoch = cur
     /\ \/ r \in active /\ lease[r] = "active"
        \/ r \notin active /\ LateKind(f.kind) /\ lease[r] = "active"
        \/ LateKind(f.kind) /\ lease[r] = "released" /\ ~Live(r)

\* An event that the state machine refuses is poison: it fails the run.
Poison(f) == ~LateKind(f.kind) /\ ~CanTransition(status[f.run], f.kind)

Outcome(f) ==
  IF LateKind(f.kind) \/ ~Live(f.run) THEN status[f.run]
  ELSE IF Poison(f) THEN "failed" ELSE f.kind

\* Stale and duplicate events are acknowledged as well.
Answer(fr) == <<Ack(fr.event)>>

\* An application that fails is rolled back whole and not acknowledged: the
\* event waits in runnerd's memory for the next connection.
RolledBack(fr) ==
  /\ rolled' = rolled \cup {fr.event}
  /\ UNCHANGED <<status, applied, lease, active, down>>

\* handleRunEvent: ApplyRunnerEvent in one transaction, then the ack.
HandleEvent ==
  /\ cur # 0 /\ up[cur] # <<>> /\ Head(up[cur]).type = "event"
  /\ up' = [up EXCEPT ![cur] = Tail(@)]
  /\ LET fr == Head(up[cur])
         f == fr.event
         r == f.run
     IN \/ Authorised(fr) /\ ~Already(f) /\ r \in Fallible /\ RolledBack(fr)
        \/ /\ down' = IF cur \in alive THEN [down EXCEPT ![cur] = @ \o Answer(fr)] ELSE down
           /\ IF Authorised(fr) /\ ~Already(f)
              THEN /\ rolled' = rolled \ {f}
                   /\ status' = [status EXCEPT ![r] = Outcome(f)]
                   /\ applied' = [applied EXCEPT ![r] = Append(@, f.seq)]
                   /\ lease' = IF Poison(f) \/ f.kind \in Terminal
                               THEN [lease EXCEPT ![r] = "released"] ELSE lease
                   /\ active' = IF f.kind \in Terminal THEN active \ {r} ELSE active
              ELSE UNCHANGED <<rolled, status, applied, lease, active>>
  /\ UNCHANGED <<fresh, row, cur, joining, offering, forwards, marks, expiring, alive,
                 runner, stranded, bounds>>

\* handleReject: ApplyRunnerReject in one transaction, then activeRuns.  When
\* failed is refused to a live run the whole is rolled back, and the lease is
\* left to the sweeper.
HandleReject ==
  /\ cur # 0 /\ up[cur] # <<>> /\ Head(up[cur]).type = "reject"
  /\ up' = [up EXCEPT ![cur] = Tail(@)]
  /\ LET r == Head(up[cur]).run
     IN \/ /\ r \in active /\ lease[r] = "active" /\ Live(r)
           /\ Report(r, "failed")
           /\ lease' = [lease EXCEPT ![r] = "released"]
           /\ active' = active \ {r}
        \/ /\ r \in active /\ lease[r] = "active" /\ Live(r)
           /\ Refused(r, "failed")
           /\ UNCHANGED <<lease, active>>
        \/ /\ r \notin active \/ lease[r] # "active" \/ ~Live(r)
           /\ active' = active \ {r}
           /\ UNCHANGED <<lease, status>>
  /\ UNCHANGED <<fresh, applied, row, cur, joining, offering, forwards, marks, expiring,
                 down, alive, runner, history, bounds>>

-----------------------------------------------------------------------------
(* The gateway: the user's cancel, the sweeper and the moves it owes        *)

\* ControlRun(cancel): where nobody can confirm the stop the run ends at once.
Control(r) ==
  LET to == IF status[r] \in {"queued", "starting", "reconnecting", "succeeding"}
            THEN "cancelled" ELSE "cancelling"
  IN /\ r \in Cancels \ controlled
     /\ CanTransition(status[r], to)
     /\ status' = [status EXCEPT ![r] = to]
     /\ forwards' = forwards \cup {[run |-> r, target |-> to]}
     /\ controlled' = controlled \cup {r}
     /\ UNCHANGED <<lease, fresh, applied, row, cur, active, joining, offering, marks,
                    expiring, transport, runner, breaks, reboots, crashes, expiries, history>>

\* ForwardControl: a run.command for the connection whose activeRuns has the
\* run, and nothing when there is none.
Forward(w) ==
  /\ w \in forwards
  /\ forwards' = forwards \ {w}
  /\ IF status[w.run] = w.target /\ w.run \in active
     THEN SendDown(cur, Command(w.run)) ELSE UNCHANGED down
  /\ UNCHANGED <<db, cur, active, joining, offering, marks, expiring, up, alive,
                 runner, bounds, history>>

\* The lease's TTL passes.
Expire(r) ==
  /\ lease[r] = "active" /\ r \in fresh
  /\ expiries < MaxExpiries
  /\ expiries' = expiries + 1
  /\ fresh' = fresh \ {r}
  /\ UNCHANGED <<status, lease, applied, row, gateway, transport, runner, breaks, reboots,
                 crashes, controlled, history>>

Overdue == {r \in Runs : lease[r] = "active" /\ r \notin fresh}

\* ExpireLeases, outside any transaction: first the select ...
SweepSelect ==
  /\ expiring = {} /\ Overdue # {}
  /\ expiring' = Overdue
  /\ UNCHANGED <<db, cur, active, joining, offering, forwards, marks, transport, runner,
                 bounds, history>>

\* ... then the update, with the same condition and the same now, and
\* markExpiredLeaseTerminal for every run that was selected.
SweepRelease ==
  /\ expiring # {}
  /\ expiring' = {}
  /\ lease' = [r \in Runs |-> IF r \in Overdue \cap expiring THEN "released" ELSE lease[r]]
  /\ marks' = marks \cup {[run |-> r, why |-> "expired", step |-> "read"] : r \in expiring}
  /\ UNCHANGED <<status, fresh, applied, row, cur, active, joining, offering, forwards,
                 transport, runner, bounds, history>>

\* A mark goes on with its next step, or is settled.
Settled(m) == marks' = marks \ {m}
Onward(m, step) == marks' = (marks \ {m}) \cup {[m EXCEPT !.step = step]}

\* The run is read.  Restarted, only a running or a reconnecting one becomes
\* lost; a reconnecting one needs nothing after a disconnect.
MarkRead(m) ==
  /\ m.step = "read"
  /\ IF ~Live(m.run) \/ (status[m.run] = "reconnecting" /\ m.why = "disconnect")
     THEN Settled(m)
     ELSE Onward(m, IF status[m.run] = "reconnecting"
                    THEN IF m.why = "expired" THEN "reread" ELSE "lose"
                    ELSE IF m.why = "restarted" /\ status[m.run] # "running" THEN "fail"
                    ELSE "reconnect")
  /\ UNCHANGED <<status, stranded>>

\* reconnecting is written on what was read.  Refused, the restart gives up and
\* the others fall back to failed.
MarkReconnect(m) ==
  /\ m.step = "reconnect"
  /\ \/ /\ Report(m.run, "reconnecting") /\ UNCHANGED stranded
        /\ IF m.why = "disconnect" THEN Settled(m)
           ELSE Onward(m, IF m.why = "expired" THEN "reread" ELSE "lose")
     \/ m.why = "restarted" /\ GiveUp(m.run, "reconnecting") /\ Settled(m)
     \/ /\ m.why # "restarted" /\ Refused(m.run, "reconnecting") /\ UNCHANGED stranded
        /\ Onward(m, "fail")

\* Mutant: what is reconnecting is left to reconnect.
MarkRereadWaiting(m) ==
  /\ m.step = "reread"
  /\ IF Live(m.run) /\ status[m.run] # "reconnecting" THEN Onward(m, "last") ELSE Settled(m)
  /\ UNCHANGED <<status, stranded>>

\* markExpiredLeaseTerminal reads the run again.
MarkReread(m) ==
  /\ m.step = "reread"
  /\ IF ~Live(m.run) THEN Settled(m)
     ELSE Onward(m, IF status[m.run] = "reconnecting" THEN "lose" ELSE "last")
  /\ UNCHANGED <<status, stranded>>

\* recordLost; refused, only the expiry falls back to failed.
MarkLose(m) ==
  /\ m.step = "lose"
  /\ \/ Report(m.run, "lost") /\ UNCHANGED stranded /\ Settled(m)
     \/ m.why = "restarted" /\ GiveUp(m.run, "lost") /\ Settled(m)
     \/ /\ m.why # "restarted" /\ Refused(m.run, "lost") /\ UNCHANGED stranded
        /\ Onward(m, "last")

\* failed; refused in markRunReconnecting, the expiry still reads the run again.
MarkFail(m) ==
  /\ m.step \in {"fail", "last"}
  /\ \/ Report(m.run, "failed") /\ UNCHANGED stranded /\ Settled(m)
     \/ /\ m.why = "expired" /\ m.step = "fail"
        /\ Refused(m.run, "failed") /\ UNCHANGED stranded
        /\ Onward(m, "reread")
     \/ /\ m.why # "expired" \/ m.step = "last"
        /\ GiveUp(m.run, "failed") /\ Settled(m)

Mark(m) ==
  /\ m \in marks
  /\ MarkRead(m) \/ MarkReconnect(m) \/ MarkReread(m) \/ MarkLose(m) \/ MarkFail(m)
  /\ UNCHANGED <<lease, fresh, applied, row, cur, active, joining, offering, forwards,
                 expiring, transport, runner, rolled, bounds>>

\* The control plane dies and boots: ReconcileOrphanRuns ends what has no lease
\* row and the database lets it end, and the sweeper is to end the rest.
GatewayCrash ==
  /\ crashes < MaxCrashes
  /\ crashes' = crashes + 1
  /\ \E spared \in SUBSET Fallible :
       status' = [r \in Runs |-> IF Live(r) /\ lease[r] = "none" /\ r \notin spared
                                 THEN OrphanEnd(status[r]) ELSE status[r]]
  /\ cur' = 0 /\ active' = {} /\ joining' = {} /\ forwards' = {} /\ marks' = {}
  /\ expiring' = {}
  /\ offering' = [r \in Runs |-> Idle]
  /\ up' = [e \in Epochs |-> <<>>] /\ alive' = {}
  /\ UNCHANGED <<lease, fresh, applied, row, down, runner, breaks, reboots, expiries, controlled, history>>

-----------------------------------------------------------------------------
(* The transport                                                            *)

\* A connection dies: of the frames in flight only a prefix arrives.
Break(e) ==
  /\ breaks < MaxBreaks
  /\ e \in alive
  /\ breaks' = breaks + 1
  /\ alive' = alive \ {e}
  /\ \E u \in Prefixes(up[e]), d \in Prefixes(down[e]) :
       up' = [up EXCEPT ![e] = u] /\ down' = [down EXCEPT ![e] = d]
  /\ UNCHANGED <<db, gateway, runner, reboots, crashes, expiries, controlled, history>>

-----------------------------------------------------------------------------
(* runnerd                                                                  *)

\* connectOnce: a new epoch, hello, and the snapshot that resendPending will
\* write.
Dial ==
  /\ ~Online /\ epoch < MaxEpoch
  /\ epoch' = epoch + 1
  /\ alive' = alive \cup {epoch + 1}
  /\ up' = [up EXCEPT ![epoch + 1] = <<Hello>>]
  /\ down' = IF epoch = 0 THEN down ELSE [down EXCEPT ![epoch] = <<>>]
  /\ resend' = pending
  /\ UNCHANGED <<db, gateway, boot, held, framed, said, asked, seqs, pending, unwritten,
                 bounds, history>>

\* The events of a run are written in the order of their producer_seqs; which
\* run comes first is left open.
Resend ==
  /\ Online
  /\ \E f \in resend :
       /\ \A g \in resend : g.run = f.run => f.seq <= g.seq
       /\ SendUp(Event(f, epoch))
       /\ resend' = resend \ {f}
  /\ UNCHANGED <<db, gateway, down, alive, boot, epoch, held, framed, said, asked, seqs,
                 pending, unwritten, bounds, history>>

\* readLoop, which starts when everything has been resent.
Reading(type) ==
  /\ resend = {}
  /\ epoch # 0 /\ down[epoch] # <<>> /\ Head(down[epoch]).type = type
  /\ down' = [down EXCEPT ![epoch] = Tail(@)]

\* handleOffer with a free slot and a checkout that can be had.
TakeOffer ==
  /\ Reading("offer")
  /\ Cardinality(held) < Slots
  /\ LET r == Head(down[epoch]).run
     IN /\ held' = held \cup {r}
        /\ framed' = framed \cup {r}
        /\ said' = [said EXCEPT ![r] = "accepted"]
  /\ UNCHANGED <<db, gateway, up, alive, boot, epoch, asked, seqs, pending, unwritten,
                 resend, bounds, history>>

\* handleOffer without one of them.
RefuseOffer ==
  /\ Reading("offer")
  /\ SendUp(Reject(Head(down[epoch]).run))
  /\ UNCHANGED <<db, gateway, alive, runner, bounds, history>>

\* handleCommand of a run that is held: its context is cancelled.
TakeCommand ==
  /\ Reading("command")
  /\ asked' = IF Head(down[epoch]).run \in held
              THEN asked \cup {Head(down[epoch]).run} ELSE asked
  /\ UNCHANGED <<db, gateway, up, alive, boot, epoch, held, framed, said, seqs, pending,
                 unwritten, resend, bounds, history>>

\* terminalPending
Ending(r) == said[r] \in {"ending", "refused", "ended", "done"}

\* handleAck, with cleanupTerminalStateLocked.
TakeAck ==
  /\ Reading("ack")
  /\ LET a == Head(down[epoch])
     IN /\ pending' = {f \in pending : f.run # a.run \/ f.seq # a.seq}
        /\ framed' = IF pending' # pending /\ Ending(a.run) /\ \A f \in pending' : f.run # a.run
                     THEN framed \ {a.run} ELSE framed
  /\ UNCHANGED <<db, gateway, up, alive, boot, epoch, held, said, asked, seqs, unwritten,
                 resend, bounds, history>>

\* The first half of emitEvent: a producer_seq, a place in pending, a payload.
Produce(r, kind, next) ==
  LET f == [run |-> r, seq |-> seqs[r] + 1, boot |-> boot, kind |-> kind]
  IN /\ seqs' = [seqs EXCEPT ![r] = @ + 1]
     /\ pending' = pending \cup {f}
     /\ unwritten' = unwritten \cup {Event(f, epoch)}
     /\ said' = [said EXCEPT ![r] = next]
     /\ UNCHANGED <<db, gateway, transport, boot, epoch, held, framed, asked, resend, bounds, history>>

\* The statuses that ModuleRunner records for a run, one after the other: it
\* reads the run as queued, so that a stop has no intermediate status.
Emit(r) ==
  /\ \A fr \in unwritten : fr.event.run # r
  /\ Cardinality(pending) < MaxPending
  /\ \/ said[r] = "accepted" /\ Produce(r, "starting", "starting")
     \/ said[r] = "starting" /\ Produce(r, "running", "running")
     \/ said[r] = "running" /\ Produce(r, "succeeding", "succeeding")
     \/ said[r] = "running" /\ Produce(r, "failed", "ending")
     \/ said[r] \in {"starting", "running"} /\ r \in asked /\ Produce(r, "cancelled", "ending")
     \/ said[r] = "succeeding" /\ Produce(r, "succeeded", "ending")
     \/ said[r] = "refused" /\ r \in framed /\ Produce(r, "failed", "ended")
     \/ said[r] = "ended" /\ r \in framed /\ Produce(r, "settle", "done")

\* emitEvent without the framing of the lease: the evidence is dropped.
EmitDropped(r) ==
  /\ said[r] \in {"refused", "ended"}
  /\ r \notin framed
  /\ said' = [said EXCEPT ![r] = IF @ = "refused" THEN "ended" ELSE "dropped"]
  /\ UNCHANGED <<db, gateway, transport, boot, epoch, held, framed, asked, seqs, pending,
                 unwritten, resend, bounds, history>>

\* The second half: the write on whatever connection there is, and finalize
\* after a terminal status.  A terminal status whose write failed is followed
\* by failed.
Write(fr) ==
  LET r == fr.event.run
      over == said[r] = "ending"
  IN /\ fr \in unwritten
     /\ unwritten' = unwritten \ {fr}
     /\ SendUp(fr)
     /\ held' = IF over THEN held \ {r} ELSE held
     /\ said' = IF ~over THEN said ELSE [said EXCEPT ![r] =
                  IF Online THEN "ended" ELSE "refused"]
     /\ UNCHANGED <<db, gateway, down, alive, boot, epoch, framed, asked, seqs, pending,
                    resend, bounds, history>>

\* runnerd restarts with a new boot_id and an empty memory.
Reboot ==
  /\ reboots < MaxReboots
  /\ reboots' = reboots + 1
  /\ boot' = boot + 1
  /\ held' = {} /\ framed' = {} /\ asked' = {} /\ pending' = {} /\ resend' = {}
  /\ unwritten' = {}
  /\ said' = [r \in Runs |-> "idle"] /\ seqs' = [r \in Runs |-> 0]
  /\ alive' = alive \ {epoch}
  /\ down' = IF epoch = 0 THEN down ELSE [down EXCEPT ![epoch] = <<>>]
  /\ UNCHANGED <<db, gateway, up, epoch, breaks, crashes, expiries, controlled, history>>

-----------------------------------------------------------------------------
Dispatch(r) ==
  DispatchPick(r) \/ DispatchLease(r) \/ DispatchRegister(r) \/ DispatchSend(r) \/ DispatchFail(r)

\* What the gateway's goroutines do without waiting for anybody.
Gateway ==
  \/ \E e \in Epochs : HelloTx(e)
  \/ \E j \in joining : HelloSwap(j)
  \/ Disconnect \/ HandleEvent \/ HandleReject
  \/ \E w \in forwards : Forward(w)
  \/ SweepSelect \/ SweepRelease
  \/ \E m \in marks : Mark(m)

\* runnerd's connection, and the goroutine that executes a run.
Connection == Dial \/ Resend \/ TakeOffer \/ RefuseOffer \/ TakeCommand \/ TakeAck
Execution(r) == Emit(r) \/ EmitDropped(r) \/ \E fr \in unwritten : fr.event.run = r /\ Write(fr)

Next ==
  \/ \E r \in Runs : Dispatch(r) \/ Execution(r) \/ Control(r) \/ Expire(r)
  \/ Gateway \/ Heartbeat \/ Connection
  \/ GatewayCrash \/ Reboot
  \/ \E e \in Epochs : Break(e)

Spec == Init /\ [][Next]_vars

\* Goroutines run on, the adapter finishes its work and runnerd redials.  The
\* user, the clock and the failures are not promised to do anything.
Fairness ==
  /\ \A r \in Runs : WF_vars(Dispatch(r)) /\ WF_vars(Execution(r))
  /\ \A e \in Epochs : WF_vars(HelloTx(e))
  /\ WF_vars(\E j \in joining : HelloSwap(j))
  /\ WF_vars(Disconnect) /\ WF_vars(HandleEvent) /\ WF_vars(HandleReject)
  /\ WF_vars(\E w \in forwards : Forward(w))
  /\ WF_vars(SweepSelect) /\ WF_vars(SweepRelease)
  /\ WF_vars(\E m \in marks : Mark(m))
  /\ WF_vars(Heartbeat) /\ WF_vars(Connection)

FairSpec == Spec /\ Fairness

-----------------------------------------------------------------------------
(* Properties                                                               *)

Kinds == {"starting", "running", "succeeding", "succeeded", "failed", "cancelled", "settle"}
Events == [run : Runs, seq : 1 .. 8, boot : 1 .. MaxReboots + 1, kind : Kinds]
Conns == {0} \cup Epochs

PTypeOK ==
  /\ status \in [Runs -> Statuses]
  /\ lease \in [Runs -> {"none", "active", "released"}]
  /\ fresh \cup active \cup held \cup framed \cup asked \cup expiring \cup controlled \subseteq Runs
  /\ \A r \in Runs : ToSet(applied[r]) \subseteq 1 .. 8
  /\ cur \in Conns /\ epoch \in Conns /\ alive \subseteq Epochs
  /\ offering \in [Runs -> [step : {"todo", "picked", "leased", "registered", "failing", "none"},
                            conn : Conns]]
  /\ forwards \subseteq [run : Runs, target : Statuses]
  /\ marks \subseteq [run : Runs, why : {"disconnect", "restarted", "expired"},
                      step : {"read", "reconnect", "reread", "lose", "fail", "last"}]
  /\ rolled \subseteq Events /\ stranded \subseteq Runs
  /\ pending \cup resend \subseteq Events
  /\ \A fr \in unwritten : fr.event \in Events /\ fr.epoch \in Conns
  /\ said \in [Runs -> {"idle", "accepted", "starting", "running", "succeeding", "ending",
                        "refused", "ended", "done", "dropped"}]

\* Until runnerd or the control plane restarts, a live run whose lease was taken
\* back has somebody in the gateway that will move it, whatever disconnections,
\* sweeps and dispatches overlap (gateway.go:591-592).  The one way out is a last
\* report that the fence or the database refused, and a run whose writes they do
\* not refuse never takes it.
Handled(r) ==
  \/ offering[r].step = "failing"
  \/ r \in expiring
  \/ \E m \in marks : m.run = r
  \/ \E j \in joining : r \in j.restarted

NoStranded ==
  /\ reboots = 0 /\ crashes = 0 =>
       \A r \in Runs \ stranded : Live(r) /\ lease[r] = "released" => Handled(r)
  /\ stranded \subseteq Fallible

\* gateway.go:591-592 says that a run without a lease is never left hanging,
\* whatever restarts.
NeverStranded ==
  \A r \in Runs : Live(r) /\ lease[r] = "released" => Handled(r)

\* No status of a process that has been replaced is applied once its successor
\* has said hello, though frames of the old connection are still being read
\* (settleRestartedRuns, registerRunner).
RestartFences ==
  [][\A r \in Runs : status'[r] # status[r] /\ applied'[r] # applied[r]
       => Head(up[cur]).event.boot >= row.boot]_vars

\* A run that the Runner has accepted ends, with a failure of the transport at
\* any point and a second one where an old hello arrives late (main.go:337-339).
\* What may keep it from ending is an event whose application was rolled back and
\* that is never applied: runnerd keeps it for a reconnection that does not come
\* (ingress.go:447-450), or drops it because a copy of it with an older epoch is
\* acknowledged as stale.
AcceptedEnds ==
  \A r \in Runs :
    (r \in held) ~> (~Live(r) \/ [](\E f \in rolled : f.run = r))

\* main.go:337-339 promises that what is not acknowledged is resent on every
\* reconnection: an event is waiting to be resent, on its way, or applied,
\* unless the control plane has taken the lease back.
OnItsWay(r, n) ==
  \/ \E f \in pending \cup resend : f.run = r /\ f.seq = n
  \/ \E e \in Epochs : \E i \in DOMAIN up[e] :
       LET fr == up[e][i]
       IN fr.type = "event" /\ fr.epoch = e /\ fr.event.run = r /\ fr.event.seq = n

NoSilentLoss ==
  \A r \in framed : lease[r] = "active" =>
    \A n \in 1 .. seqs[r] : OnItsWay(r, n) \/ Contains(applied[r], n)

\* main.go:843-845 promises that resending in the order of the producer_seqs
\* keeps the order in which events are applied.
InOrder == \A r \in Runs : \A i, j \in DOMAIN applied[r] : i < j => applied[r][i] < applied[r][j]

\* ingress.go:88-90 says that Dispatch never leaves an offer hanging.
OfferedEnds == \A r \in Runs : (lease[r] = "active") ~> ~Live(r)

\* gateway.go:433-436 says that a reset connection loses no run.command: what
\* was queued for a run that executes is read by the Runner, or the run is over.
CommandQueued(r) == r \in held /\ \E e \in Epochs : Contains(down[e], Command(r))

CommandsKept ==
  [][\A r \in Runs : CommandQueued(r) => CommandQueued(r)' \/ (r \in asked)' \/ (r \notin held)']_vars

\* main.go:633-635 keeps the framing of the lease for the evidence that follows
\* the end of the run.
EvidenceFramed == \A r \in Runs : said[r] # "dropped"

\* gateway.go:625 says that a run is expired after its lease was released.
ExpiredWereReleased ==
  \A m \in marks : m.why = "expired" => lease[m.run] = "released"
=============================================================================
