--------------------------- MODULE HarnessBridge ---------------------------
(***************************************************************************)
(* The delegation of a task to an external harness: HarnessTaskBridge      *)
(* (harnessBridge.ts) over the Codex app-server adapter (harnessClient.ts),*)
(* the task row it shares with the built-in coordinator, and the events    *)
(* recovery reads.                                                         *)
(*                                                                         *)
(* There is one task.  A delegation is a loop, consume(), with a cursor; a *)
(* process remembers at most one as active, but a loop that was replaced   *)
(* or aborted still works on the event it holds.  Store and sidecar calls  *)
(* are awaited, so each is an action of its own.  The sidecar is a child   *)
(* of the process and dies with it; any process can resume its threads.    *)
(* Of an event only its number and what the bridge does with it are kept:  *)
(* everything that is merely persisted is an "item".  Requests for         *)
(* permission and the decisions on them are left out.                      *)
(***************************************************************************)
EXTENDS Integers, Sequences, SequencesExt, FiniteSetsExt, Processes

CONSTANTS
    Thread,       \* threads the sidecar may start for the task
    NoThread,
    MaxLoops,     \* bound: delegation objects alive at the same time
    MaxCommands,  \* bound: start, resume, interrupt and cancel calls
    MaxFaults     \* bound: crashes, sidecar exits and failed calls

ASSUME HarnessAssumption ==
    /\ NoThread \notin Thread
    /\ MaxLoops \in Nat \ {0} /\ MaxCommands \in Nat /\ MaxFaults \in Nat

\* Which object a delegation is has no meaning; a new one gets the next number.
Delegation == 1 .. MaxLoops
NoDelegation == 0

VARIABLES
    \* the task: its row and its events
    status,
    leased,      \* the built-in coordinator holds the lease
    connected,   \* thread of the last harness.connected event
    log,         \* numbers of the external events persisted, per thread
    \* the bridge and the adapter, per process
    active,      \* the delegation in the active map
    queue,       \* the adapter's event queue of each thread
    turn,        \* threads with a turn under way in the sidecar
    cmd,         \* a start or resume call
    stop,        \* an interrupt call
    sweep,       \* recover()
    \* all delegations, and the bounds
    del, commands, faults, started

rowVars == <<status, leased, connected, log>>
bounds == <<commands, faults, started>>
vars == <<rowVars, active, queue, turn, cmd, stop, sweep, del, bounds>>

\* Whether a task that is over completed, failed or was cancelled makes no
\* difference to the bridge, nor do a completed and a failed turn.
Status == {"over", "paused", "running"}
Outcome == {"turn.ended", "turn.interrupted"}
Kind == {"item"} \cup Outcome

Event == [thread : Thread, seq : Nat, kind : Kind]
Queue == [closed : BOOLEAN, events : Seq(Event), seq : Nat]
NoQueue == [closed |-> TRUE, events |-> <<>>, seq |-> 0]

\* "event" is the event in hand.
Loop == [pc : {"new", "wait", "append", "settle", "write", "lost", "pause"},
         proc : Process, thread : Thread, aborted : BOOLEAN, after : Nat,
         event : Event]
NoLoop == [pc |-> "free"]

Cmd == [pc : {"idle", "thread", "events", "run", "connect", "send"},
        kind : {"start", "resume"}, thread : Thread \cup {NoThread},
        del : Delegation \cup {NoDelegation}]
NoCmd == [pc |-> "idle", kind |-> "start", thread |-> NoThread,
          del |-> NoDelegation]

Sweep == [pc : {"idle", "events", "take", "resume"}, status : Status, after : Nat,
          thread : Thread \cup {NoThread}, del : Delegation \cup {NoDelegation}]
NoSweep == [pc |-> "idle", status |-> "paused", after |-> 0,
            thread |-> NoThread, del |-> NoDelegation]

TypeOK ==
    /\ status \in Status /\ leased \in BOOLEAN
    /\ connected \in Thread \cup {NoThread}
    /\ log \in [Thread -> SUBSET Nat]
    /\ active \in [Process -> Delegation \cup {NoDelegation}]
    /\ queue \in [Process -> [Thread -> Queue]]
    /\ turn \in [Process -> SUBSET Thread]
    /\ cmd \in [Process -> Cmd]
    /\ stop \in [Process -> {"idle", "read", "write"}]
    /\ sweep \in [Process -> Sweep]
    /\ \A p \in Process :
         sweep[p].pc \in {"take", "resume"} => sweep[p].thread \in Thread
    /\ del \in [Delegation -> Loop \cup {NoLoop}]
    /\ commands \in 0 .. MaxCommands /\ faults \in 0 .. MaxFaults
    /\ started \in SUBSET Thread

\* A paused task that was never delegated.
Init ==
    /\ status = "paused" /\ leased = FALSE
    /\ connected = NoThread /\ log = [t \in Thread |-> {}]
    /\ active = [p \in Process |-> NoDelegation]
    /\ queue = [p \in Process |-> [t \in Thread |-> NoQueue]]
    /\ turn = [p \in Process |-> {}]
    /\ cmd = [p \in Process |-> NoCmd]
    /\ stop = [p \in Process |-> "idle"]
    /\ sweep = [p \in Process |-> NoSweep]
    /\ del = [d \in Delegation |-> NoLoop]
    /\ commands = 0 /\ faults = 0 /\ started = {}

-----------------------------------------------------------------------------
(* Helpers.                                                                *)

Command == /\ commands < MaxCommands /\ commands' = commands + 1
           /\ UNCHANGED <<faults, started>>
Fault == /\ faults < MaxFaults /\ faults' = faults + 1
         /\ UNCHANGED <<commands, started>>

\* A new delegation object is one that no loop is and no call refers to.
Unused == {d \in Delegation : /\ del[d] = NoLoop
                              /\ \A p \in Process : cmd[p].del # d /\ sweep[p].del # d}
Fresh(d) == Unused # {} /\ d = Min(Unused)

NewLoop(p, t, after) ==
    [pc |-> "new", proc |-> p, thread |-> t, aborted |-> FALSE, after |-> after,
     event |-> [thread |-> t, seq |-> 0, kind |-> "item"]]

\* Mistake: the bridge's own event of the connection is counted as well.
LastSequence == Max({0} \cup UNION {log[t] : t \in Thread}) + 1

\* The largest externalSequence of the task's events, whatever their thread.
LastExternalSequence == Max({0} \cup UNION {log[t] : t \in Thread})

Hold(r, e) == [r EXCEPT !.pc = "append", !.event = e, !.after = e.seq]

\* controller.abort: a loop waiting for its next event ends.
Abort(r) == IF r.pc \in {"free", "wait"} THEN NoLoop
            ELSE [r EXCEPT !.aborted = TRUE]

\* publish on the queues qs, then abort the delegations of ds: a waiting loop
\* is handed the event, otherwise it is queued.
Publish(qs, p, t, kind, ds) ==
    LET e == [thread |-> t, seq |-> qs[p][t].seq + 1, kind |-> kind]
        numbered == [qs EXCEPT ![p][t].seq = e.seq]
        waiting == {d \in Delegation : /\ del[d].pc = "wait" /\ del[d].proc = p
                                       /\ del[d].thread = t}
        After(r, d) == IF d \in ds THEN Abort(r) ELSE r
    IN \/ /\ waiting = {}
          /\ queue' = [numbered EXCEPT ![p][t].events = Append(@, e)]
          /\ del' = [d \in Delegation |-> After(del[d], d)]
       \/ \E w \in waiting :
            /\ queue' = numbered
            /\ del' = [d \in Delegation |->
                        After(IF d = w THEN Hold(del[d], e) ELSE del[d], d)]

\* Mistake: the adapter goes on with its own count, 0 after a restart.
ReopenedAsIs(p, t, after) == [queue EXCEPT ![p][t].closed = FALSE]

\* resume: the queue is reopened and numbering goes on after the cursor.
Reopened(p, t, after) ==
    [queue EXCEPT ![p][t].closed = FALSE, ![p][t].seq = Max({@, after})]

Later(r) == {i \in DOMAIN queue[r.proc][r.thread].events :
                queue[r.proc][r.thread].events[i].seq > r.after}

Forget(act, d) ==
    [p \in Process |-> IF act[p] = d THEN NoDelegation ELSE act[p]]

\* Loop d, as r, asks subscribe for its next event: the first after its cursor.
\* Without one, a closed queue or an abort ends the loop, which then leaves the
\* active map act.
Pull(d, r, act) ==
    IF Later(r) # {}
    THEN /\ del' = [del EXCEPT ![d] =
                Hold(r, queue[r.proc][r.thread].events[Min(Later(r))])]
         /\ queue' = [queue EXCEPT ![r.proc][r.thread].events =
                        RemoveAt(@, Min(Later(r)))]
         /\ active' = act
    ELSE /\ UNCHANGED queue
         /\ IF queue[r.proc][r.thread].closed \/ r.aborted
            THEN del' = [del EXCEPT ![d] = NoLoop] /\ active' = Forget(act, d)
            ELSE del' = [del EXCEPT ![d] = [r EXCEPT !.pc = "wait"]] /\ active' = act

End(d) ==
    /\ del' = [del EXCEPT ![d] = NoLoop]
    /\ active' = Forget(active, d)
    /\ UNCHANGED queue

-----------------------------------------------------------------------------
(* start() and resume(), one call at a time in a process.                  *)

\* The API read a paused row and this process has no delegation of the task.
StartBegin(p) ==
    /\ cmd[p].pc = "idle" /\ status = "paused" /\ active[p] = NoDelegation
    /\ started # Thread
    /\ Command
    /\ cmd' = [cmd EXCEPT ![p].pc = "thread"]
    /\ UNCHANGED <<rowVars, active, queue, turn, stop, sweep, del>>

\* thread/start answers with a new thread; the map is not looked at again.
StartThread(p, d, t) ==
    /\ cmd[p].pc = "thread" /\ Fresh(d) /\ t \notin started
    /\ started' = started \cup {t}
    /\ queue' = [queue EXCEPT ![p][t].closed = FALSE]
    /\ active' = [active EXCEPT ![p] = d]
    /\ del' = [del EXCEPT ![d] = NewLoop(p, t, 0)]
    /\ cmd' = [cmd EXCEPT ![p] = [pc |-> "run", kind |-> "start", thread |-> t,
                                  del |-> d]]
    /\ UNCHANGED <<rowVars, turn, stop, sweep, commands, faults>>

\* The operator resumes the thread the task is bound to.
ResumeBegin(p) ==
    /\ cmd[p].pc = "idle" /\ status = "paused" /\ active[p] = NoDelegation
    /\ connected # NoThread
    /\ Command
    /\ cmd' = [cmd EXCEPT ![p].pc = "events"]
    /\ UNCHANGED <<rowVars, active, queue, turn, stop, sweep, del>>

\* getEvents shows that the thread is the task's; again the map is not looked at.
ResumeThread(p, d) ==
    /\ cmd[p].pc = "events" /\ Fresh(d)
    /\ active' = [active EXCEPT ![p] = d]
    /\ del' = [del EXCEPT ![d] = NewLoop(p, connected, LastExternalSequence)]
    /\ cmd' = [cmd EXCEPT ![p] = [pc |-> "run", kind |-> "resume",
                                  thread |-> connected, del |-> d]]
    /\ UNCHANGED <<rowVars, queue, turn, stop, sweep, bounds>>

\* updateTask: the row runs; no lease is taken and no revision compared.
CmdRun(p) ==
    /\ cmd[p].pc = "run"
    /\ status' = "running"
    /\ cmd' = [cmd EXCEPT ![p].pc = "connect"]
    /\ UNCHANGED <<leased, connected, log, active, queue, turn, stop,
                   sweep, del, bounds>>

\* harness.connected is persisted and consume() starts.
CmdConnect(p) ==
    LET d == cmd[p].del IN
    /\ cmd[p].pc = "connect"
    /\ connected' = cmd[p].thread
    /\ Pull(d, del[d], active)
    /\ cmd' = [cmd EXCEPT ![p].pc = "send"]
    /\ UNCHANGED <<status, leased, log, turn, stop, sweep, bounds>>

\* startTurn publishes turn.started before the sidecar gets the turn.
CmdTurn(p) ==
    /\ cmd[p].pc = "send" /\ cmd[p].kind = "start"
    /\ Publish(queue, p, cmd[p].thread, "item", {})
    /\ turn' = [turn EXCEPT ![p] = @ \cup {cmd[p].thread}]
    /\ cmd' = [cmd EXCEPT ![p] = NoCmd]
    /\ UNCHANGED <<rowVars, active, stop, sweep, bounds>>

\* adapter.resume ends by publishing thread.resumed.
CmdResume(p) ==
    /\ cmd[p].pc = "send" /\ cmd[p].kind = "resume"
    /\ Publish(Reopened(p, cmd[p].thread, LastExternalSequence), p,
               cmd[p].thread, "item", {})
    /\ cmd' = [cmd EXCEPT ![p] = NoCmd]
    /\ UNCHANGED <<rowVars, active, turn, stop, sweep, bounds>>

\* A call of start or resume rejects: stop() aborts what is active; a loop that
\* was never started is dropped with the call.
CmdFails(p) ==
    /\ cmd[p].pc # "idle"
    /\ Fault
    /\ del' = [d \in Delegation |->
            IF del[d].pc = "new" /\ cmd[p].del = d THEN NoLoop
            ELSE IF d = active[p] /\ cmd[p].pc \notin {"thread", "events"} THEN Abort(del[d])
            ELSE del[d]]
    /\ active' = IF cmd[p].pc \in {"thread", "events"} THEN active
                 ELSE [active EXCEPT ![p] = NoDelegation]
    /\ cmd' = [cmd EXCEPT ![p] = NoCmd]
    /\ UNCHANGED <<rowVars, queue, turn, stop, sweep>>

CmdStep(p) ==
    \/ \E d \in Delegation : ResumeThread(p, d) \/ \E t \in Thread : StartThread(p, d, t)
    \/ CmdRun(p) \/ CmdConnect(p) \/ CmdTurn(p) \/ CmdResume(p)

-----------------------------------------------------------------------------
(* interrupt().                                                            *)

\* turn/interrupt is accepted: the event is published, the delegation aborted
\* and forgotten.  The sidecar ends the turn in its own time.
Interrupt(p) ==
    /\ stop[p] = "idle" /\ active[p] # NoDelegation
    /\ del[active[p]].pc # "new"
    /\ Command
    /\ Publish(queue, p, del[active[p]].thread, "turn.interrupted", {active[p]})
    /\ active' = [active EXCEPT ![p] = NoDelegation]
    /\ stop' = [stop EXCEPT ![p] = "read"]
    /\ UNCHANGED <<rowVars, turn, cmd, sweep>>

InterruptRead(p) ==
    /\ stop[p] = "read"
    /\ stop' = [stop EXCEPT ![p] = IF status = "over" THEN "idle" ELSE "write"]
    /\ UNCHANGED <<rowVars, active, queue, turn, cmd, sweep, del, bounds>>

InterruptWrite(p) ==
    /\ stop[p] = "write"
    /\ status' = "paused"
    /\ stop' = [stop EXCEPT ![p] = "idle"]
    /\ UNCHANGED <<leased, connected, log, active, queue, turn, cmd, sweep,
                   del, bounds>>

-----------------------------------------------------------------------------
(* consume().                                                              *)

\* appendEvent; an item needs nothing else.
ConsumeAppend(d) ==
    LET r == del[d] IN
    /\ r.pc = "append"
    /\ log' = [log EXCEPT ![r.thread] = @ \cup {r.event.seq}]
    /\ IF r.event.kind = "item" THEN Pull(d, r, active)
       ELSE del' = [del EXCEPT ![d].pc = "settle"] /\ UNCHANGED <<active, queue>>
    /\ UNCHANGED <<status, leased, connected, turn, cmd, stop, sweep, bounds>>

\* applyTerminalState reads the row; a settled task is left alone ...
ConsumeSettle(d) ==
    /\ del[d].pc = "settle"
    /\ IF status = "over" THEN Pull(d, del[d], active)
       ELSE del' = [del EXCEPT ![d].pc = "write"] /\ UNCHANGED <<active, queue>>
    /\ UNCHANGED <<rowVars, turn, cmd, stop, sweep, bounds>>

\* ... otherwise the outcome is written, and the delegation is over.
ConsumeOutcome(d) ==
    /\ del[d].pc = "write"
    /\ status' = IF del[d].event.kind = "turn.ended" THEN "over" ELSE "paused"
    /\ Pull(d, [del[d] EXCEPT !.aborted = TRUE], Forget(active, d))
    /\ UNCHANGED <<leased, connected, log, turn, cmd, stop, sweep, bounds>>

\* A store call rejects: the event in hand is not handled any further.
ConsumeFails(d) ==
    /\ del[d].pc \in {"append", "settle", "write"}
    /\ Fault
    /\ IF del[d].aborted THEN End(d)
       ELSE del' = [del EXCEPT ![d].pc = "lost"] /\ UNCHANGED <<active, queue>>
    /\ UNCHANGED <<rowVars, turn, cmd, stop, sweep>>

\* harness.disconnected is emitted and the row read ...
ConsumeLost(d) ==
    /\ del[d].pc = "lost"
    /\ IF status = "over" THEN End(d)
       ELSE del' = [del EXCEPT ![d].pc = "pause"] /\ UNCHANGED <<active, queue>>
    /\ UNCHANGED <<rowVars, turn, cmd, stop, sweep, bounds>>

\* ... and the task is paused for recovery.
ConsumePause(d) ==
    /\ del[d].pc = "pause"
    /\ status' = "paused"
    /\ End(d)
    /\ UNCHANGED <<leased, connected, log, turn, cmd, stop, sweep, bounds>>

ConsumeStep(d) ==
    \/ ConsumeAppend(d) \/ ConsumeSettle(d) \/ ConsumeOutcome(d)
    \/ ConsumeLost(d) \/ ConsumePause(d)

-----------------------------------------------------------------------------
(* recover(), one sweep at a time in a process.                            *)

\* Mistake: only paused tasks are recovered.
SweepListPaused(p) ==
    /\ sweep[p].pc = "idle"
    /\ status = "paused" /\ connected # NoThread /\ active[p] = NoDelegation
    /\ sweep' = [sweep EXCEPT ![p] =
            [NoSweep EXCEPT !.pc = "events", !.status = status]]
    /\ UNCHANGED <<rowVars, active, queue, turn, cmd, stop, del, bounds>>

\* listRecoverableHarnessTasks: a bound task at work, not delegated here.
SweepList(p) ==
    /\ sweep[p].pc = "idle"
    /\ status # "over" /\ connected # NoThread /\ active[p] = NoDelegation
    /\ sweep' = [sweep EXCEPT ![p] =
            [NoSweep EXCEPT !.pc = "events", !.status = status]]
    /\ UNCHANGED <<rowVars, active, queue, turn, cmd, stop, del, bounds>>

\* getEvents: the thread and the cursor.
SweepEvents(p) ==
    /\ sweep[p].pc = "events"
    /\ sweep' = [sweep EXCEPT ![p] =
            [pc |-> "take", status |-> sweep[p].status, del |-> NoDelegation,
             after |-> LastExternalSequence, thread |-> connected]]
    /\ UNCHANGED <<rowVars, active, queue, turn, cmd, stop, del, bounds>>

\* The delegation is registered and consume() looks for events at once.
SweepTake(p, d) ==
    /\ sweep[p].pc = "take" /\ Fresh(d)
    /\ Pull(d, NewLoop(p, sweep[p].thread, sweep[p].after),
            [active EXCEPT ![p] = d])
    /\ sweep' = [sweep EXCEPT ![p] = [@ EXCEPT !.pc = "resume", !.del = d]]
    /\ UNCHANGED <<rowVars, turn, cmd, stop, bounds>>

SweepResume(p) ==
    /\ sweep[p].pc = "resume"
    /\ Publish(Reopened(p, sweep[p].thread, sweep[p].after), p, sweep[p].thread,
               "item", {})
    /\ sweep' = [sweep EXCEPT ![p] = NoSweep]
    /\ UNCHANGED <<rowVars, active, turn, cmd, stop, bounds>>

\* A call of the sweep rejects; a refused resume of a task that was paused
\* drops the delegation.
SweepFails(p) ==
    /\ sweep[p].pc \in {"events", "resume"}
    /\ Fault
    /\ IF sweep[p].pc = "resume" /\ sweep[p].status = "paused"
       THEN /\ active' = [active EXCEPT ![p] = NoDelegation]
            /\ del' = [del EXCEPT ![sweep[p].del] = Abort(@)]
       ELSE UNCHANGED <<active, del>>
    /\ sweep' = [sweep EXCEPT ![p] = NoSweep]
    /\ UNCHANGED <<rowVars, queue, turn, cmd, stop>>

SweepStep(p) ==
    \/ SweepList(p) \/ SweepEvents(p) \/ SweepResume(p)
    \/ \E d \in Delegation : SweepTake(p, d)

-----------------------------------------------------------------------------
(* The sidecar, the coordinator, the operator and crashes.                 *)

\* The turn ends.
SidecarEnds(p, t, kind) ==
    /\ t \in turn[p]
    /\ turn' = [turn EXCEPT ![p] = @ \ {t}]
    /\ Publish(queue, p, t, kind, {})
    /\ UNCHANGED <<rowVars, active, cmd, stop, sweep, bounds>>

\* onClose: every queue of the process is closed, which ends waiting loops.
SidecarExits(p) ==
    /\ \E t \in Thread : ~queue[p][t].closed
    /\ Fault
    /\ queue' = [queue EXCEPT ![p] =
            [t \in Thread |-> [queue[p][t] EXCEPT !.closed = TRUE]]]
    /\ turn' = [turn EXCEPT ![p] = {}]
    /\ LET over == {d \in Delegation : del[d].pc = "wait" /\ del[d].proc = p} IN
       /\ del' = [d \in Delegation |-> IF d \in over THEN NoLoop ELSE del[d]]
       /\ active' = [active EXCEPT ![p] = IF @ \in over THEN NoDelegation ELSE @]
    /\ UNCHANGED <<rowVars, cmd, stop, sweep>>

Crash(p) ==
    /\ Fault
    /\ active' = [active EXCEPT ![p] = NoDelegation]
    /\ queue' = [queue EXCEPT ![p] = [t \in Thread |-> NoQueue]]
    /\ turn' = [turn EXCEPT ![p] = {}]
    /\ cmd' = [cmd EXCEPT ![p] = NoCmd]
    /\ stop' = [stop EXCEPT ![p] = "idle"]
    /\ sweep' = [sweep EXCEPT ![p] = NoSweep]
    /\ del' = [d \in Delegation |->
            IF del[d] # NoLoop /\ del[d].proc = p THEN NoLoop ELSE del[d]]
    /\ UNCHANGED rowVars

\* claimNextTask takes any running task without a lease.
CoordinatorClaims ==
    /\ status = "running" /\ ~leased
    /\ leased' = TRUE
    /\ UNCHANGED <<status, connected, log, active, queue, turn, cmd, stop,
                   sweep, del, bounds>>

\* The orchestrator's run of the claimed task comes to rest.
CoordinatorEnds(s) ==
    /\ leased
    /\ leased' = FALSE
    /\ status' = s
    /\ UNCHANGED <<connected, log, active, queue, turn, cmd, stop, sweep,
                   del, bounds>>

\* requestCancel: a task at rest is cancelled; the flag it leaves on a running
\* row is nothing the bridge looks at.
Cancel ==
    /\ status = "paused"
    /\ Command
    /\ status' = "over"
    /\ UNCHANGED <<leased, connected, log, active, queue, turn, cmd, stop,
                   sweep, del>>

Next ==
    \/ \E p \in Process :
         \/ StartBegin(p) \/ ResumeBegin(p)
         \/ CmdStep(p) \/ CmdFails(p)
         \/ Interrupt(p) \/ InterruptRead(p) \/ InterruptWrite(p)
         \/ SweepStep(p) \/ SweepFails(p)
         \/ SidecarExits(p) \/ Crash(p)
         \/ \E t \in Thread, kind \in Outcome : SidecarEnds(p, t, kind)
    \/ \E d \in Delegation : ConsumeStep(d) \/ ConsumeFails(d)
    \/ CoordinatorClaims \/ (\E s \in {"over", "paused"} : CoordinatorEnds(s))
    \/ Cancel

\* Calls that were begun go on, and every process sweeps on its timer; neither
\* the sidecar nor an operator has to do anything.
Fairness ==
    /\ \A p \in Process : /\ WF_vars(CmdStep(p)) /\ WF_vars(SweepStep(p))
                          /\ WF_vars(InterruptRead(p) \/ InterruptWrite(p))
    /\ WF_vars(\E d \in Delegation : ConsumeStep(d))

Spec == Init /\ [][Next]_vars
FairSpec == Spec /\ Fairness

-----------------------------------------------------------------------------
(* Properties.                                                             *)

\* Where one process has the bridge, an external event is persisted once: neither
\* a reconnect, nor two loops that drain one queue after an interrupt, nor a
\* restart of the process, which numbers the thread's events anew, brings a number
\* of a thread back.  (The sweep of a second process takes up a thread that the
\* first is at work on, and both then give the same numbers.)
EventsPersistedOnce ==
    [][\A d \in Delegation :
        ConsumeAppend(d) => del[d].event.seq \notin log[del[d].thread]]_vars

\* While a task has one thread and one process has the bridge, the cursor of the
\* active loop never passes an event that is still queued: it would not be delivered,
\* and the outcome of a turn would be lost while the task goes on "running".
\* (Every thread is numbered from 1, but recover takes the largest number of all
\* threads: a second thread may be taken up behind its own events.)
NoEventIsStranded ==
    \A p \in Process : active[p] # NoDelegation /\ Cardinality(started) <= 1 =>
        LET r == del[active[p]]
        IN Later(r) = DOMAIN queue[p][r.thread].events

\* A delegated task that is not settled gets a loop on an open stream again,
\* whatever ended the last one: a rejected call, an exit, a restart.
ThreadIsTakenUp ==
    []<>(\/ status = "over" \/ connected = NoThread
         \/ \E p \in Process : active[p] # NoDelegation /\ del[active[p]].pc = "wait")

\* A delegated task is worked on by its harness or by the built-in runtime.
OneExecutor ==
    ~(leased /\ \E p \in Process : turn[p] # {})
-----------------------------------------------------------------------------
(* Why they hold, where one process has the bridge.  A step may do several  *)
(* things at once, such as abort a loop and hand another one an event: so   *)
(* that they can be looked at one by one, the parts of the invariant are    *)
(* about any log L, queues Q, delegations D, turns T, commands C and sweeps *)
(* S, and not only about those of a state.                                 *)

\* A loop that ended or is the process's own.
Owned(d, p) == del[d] # NoLoop => del[d].proc = p

\* What the map, a call and a sweep of a process refer to is there.
ActiveRefers(p) ==
    active[p] # NoDelegation => del[active[p]] # NoLoop /\ del[active[p]].proc = p
CmdRefers(p) ==
    /\ cmd[p].pc \in {"run", "connect"} =>
         /\ cmd[p].del \in Delegation /\ del[cmd[p].del].pc = "new"
         /\ del[cmd[p].del].proc = p /\ del[cmd[p].del].thread = cmd[p].thread
    /\ cmd[p].pc \in {"run", "connect", "send"} => cmd[p].thread \in Thread
    /\ cmd[p].pc \in {"idle", "thread", "events"} => cmd[p].del = NoDelegation
    /\ cmd[p].pc = "events" => connected \in Thread
    /\ cmd[p].del # NoDelegation => Owned(cmd[p].del, p)
    /\ cmd[p].thread \in started \cup {NoThread}
SweepRefers(p) ==
    /\ sweep[p].pc = "events" => connected \in Thread
    /\ sweep[p].pc = "resume" => sweep[p].del \in Delegation
    /\ sweep[p].del # NoDelegation => Owned(sweep[p].del, p)
    /\ sweep[p].thread \in started \cup {NoThread}
ReferInv == \A p \in Process : ActiveRefers(p) /\ CmdRefers(p) /\ SweepRefers(p)

\* What is persisted, delegated or bound is of a thread that was started.
StartedInv ==
    /\ IsFiniteSet(UNION {log[t] : t \in Thread}) /\ IsFiniteSet(started)
    /\ connected \in started \cup {NoThread}
    /\ \A t \in Thread : log[t] # {} => t \in started
    /\ \A d \in Delegation : del[d] # NoLoop => del[d].thread \in started

\* The event in a loop's hand is still to be persisted, was counted by the adapter
\* and is in no other hand.
Holds(r, t) == r.pc = "append" /\ r.thread = t
HeldIn(L, Q, D) ==
    \A t \in Thread, d \in Delegation : Holds(D[d], t) =>
        /\ D[d].event.seq \notin L[t] /\ D[d].event.seq = D[d].after
        /\ \A p \in Process : D[d].event.seq <= Q[p][t].seq
        /\ \A e \in Delegation :
             Holds(D[e], t) /\ D[e].event.seq = D[d].event.seq => d = e

\* A queue is in order, and has neither what is persisted nor what is in hand.
QueueIn(L, Q, D) ==
    \A p \in Process, t \in Thread :
        LET events == Q[p][t].events IN
        \A i \in DOMAIN events :
            /\ events[i].seq \notin L[t]
            /\ 0 < events[i].seq /\ events[i].seq <= Q[p][t].seq
            /\ \A d \in Delegation : Holds(D[d], t) => D[d].event.seq # events[i].seq
            /\ \A j \in DOMAIN events : i < j => events[i].seq < events[j].seq

\* A loop waits only when there is nothing for it in the queue.
WaitIn(Q, D) ==
    \A d \in Delegation : D[d].pc = "wait" =>
        LET events == Q[D[d].proc][D[d].thread].events IN
        \A i \in DOMAIN events : events[i].seq <= D[d].after

\* The adapter has counted past what is persisted, or nothing is done with the
\* thread since it forgot its count, and a sweep makes up for it.
Starts(c, t) ==
    c.pc \in {"run", "connect", "send"} /\ c.kind = "start" /\ c.thread = t
Reads(s, t) == s.pc \in {"take", "resume"} /\ s.thread = t
Counted(L, Q, p, t) == \A n \in L[t] : n <= Q[p][t].seq
Forgotten(L, Q, D, T, C, S, p, t) ==
    /\ Q[p][t].closed /\ Q[p][t].events = <<>>
    /\ \A d \in Delegation : D[d] # NoLoop /\ D[d].thread = t => D[d].pc = "new"
    /\ t \notin T[p] /\ ~Starts(C[p], t)
    /\ Reads(S[p], t) => \A n \in L[t] : n <= S[p].after
CountIn(L, Q, D, T, C, S) ==
    \A p \in Process, t \in Thread :
        Counted(L, Q, p, t) \/ Forgotten(L, Q, D, T, C, S, p, t)

\* A cursor of a thread is below what is queued, and the adapter has counted past
\* it or will.
Clear(L, Q, p, t, after) ==
    /\ \A i \in DOMAIN Q[p][t].events : after < Q[p][t].events[i].seq
    /\ after <= Q[p][t].seq \/ \E n \in L[t] : after <= n

\* While the task has one thread, all cursors are clear, and so is what is persisted.
CursorIn(L, Q, D, S) ==
    \A p \in Process :
        /\ \A d \in Delegation : D[d] # NoLoop => Clear(L, Q, p, D[d].thread, D[d].after)
        /\ \A t \in Thread : Reads(S[p], t) => Clear(L, Q, p, t, S[p].after)
        /\ \A t \in Thread : \A n \in L[t] : Clear(L, Q, p, t, n)

SoundIn(L, Q, D, T, C, S, one) ==
    /\ HeldIn(L, Q, D) /\ QueueIn(L, Q, D) /\ WaitIn(Q, D)
    /\ CountIn(L, Q, D, T, C, S)
    /\ one => CursorIn(L, Q, D, S)

BridgeInv ==
    /\ TypeOK /\ ReferInv /\ StartedInv
    /\ SoundIn(log, queue, del, turn, cmd, sweep, Cardinality(started) <= 1)
=============================================================================
