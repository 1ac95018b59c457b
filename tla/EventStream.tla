---------------------------- MODULE EventStream ----------------------------
(***************************************************************************)
(* How the events of a task reach a browser: appendEvent and the hub of    *)
(* the process that appended (postgresTaskStore.ts, eventHub.ts), the SSE  *)
(* endpoint GET /tasks/:taskId/events (taskApi.ts) and the reader          *)
(* streamWorkflowEvents (src/lib/taskRuntime.ts).                          *)
(*                                                                         *)
(* There is one task and one reader; an event is its sequence number, and  *)
(* of its type only matters whether the task is over, rests for a human,   *)
(* or neither.  Most writers change the row first and append the event     *)
(* that says so later; a step that pauses for a human does it the other    *)
(* way round, and some rests are announced by no event at all.  What a     *)
(* process does without awaiting is one action.                            *)
(***************************************************************************)
EXTENDS Integers, Sequences, FiniteSets, Processes

CONSTANTS
    MaxEvents,      \* bound: events of the task
    MaxReconnects,  \* streams the reader opens again (8 in the code)
    MaxBreaks       \* bound: connections that break

ASSUME StreamAssumption ==
    MaxEvents \in Nat /\ MaxReconnects \in Nat /\ MaxBreaks \in Nat

VARIABLES
    row,         \* what the status of the task amounts to; at rest it is
                 \* "quiet" when no event says so after the change
    appended,         \* the types of the events, in sequence
    announcing,  \* a row change whose event is not appended yet
    committed,   \* Process -> events appended but not yet published
    \* the endpoint
    stream, proc, last, replay, pending, timer, pipe,
    \* the reader; terminal: what the last event it read says, "work" when none
    reader, cursor, terminal, reconnects,
    breaks

taskVars == <<row, appended, announcing, committed>>
streamVars == <<stream, proc, last, replay, pending, timer, pipe>>
readerVars == <<reader, cursor, terminal, reconnects>>
eventVars == <<taskVars, streamVars, readerVars, breaks>>

Type == {"work", "rest", "end"}
RowOf(type) == CASE type = "work" -> "active" [] type = "rest" -> "resting"
                 [] type = "end" -> "over"
Boundary == {"rest", "end"}
Sequence == 1 .. MaxEvents

StreamTypeOK ==
    /\ row \in {"active", "resting", "quiet", "over"}
    /\ appended \in Seq(Type) /\ Len(appended) <= MaxEvents
    /\ announcing \in Type \cup {"nothing"}
    /\ committed \in [Process -> Seq(Sequence)]
    /\ stream \in {"none", "subscribed", "read", "checking", "open", "closed"}
    /\ proc \in Process
    /\ last \in 0 .. MaxEvents /\ replay \in 0 .. MaxEvents
    /\ pending \in SUBSET Sequence /\ timer \in BOOLEAN
    /\ pipe \in Seq(Sequence)
    /\ reader \in {"connect", "reading", "reread", "done", "failed"}
    /\ cursor \in 0 .. MaxEvents /\ terminal \in Type
    /\ reconnects \in 0 .. MaxReconnects
    /\ breaks \in 0 .. MaxBreaks

StreamInit ==
    /\ row = "active" /\ appended = <<>> /\ announcing = "nothing"
    /\ committed = [p \in Process |-> <<>>]
    /\ stream = "none" /\ proc \in Process
    /\ last = 0 /\ replay = 0 /\ pending = {} /\ timer = FALSE
    /\ pipe = <<>>
    /\ reader = "connect" /\ cursor = 0 /\ terminal = "work" /\ reconnects = 0
    /\ breaks = 0

-----------------------------------------------------------------------------
(* The task: rows and events.                                              *)

\* The row is updated; a task that is over stays so.  Waking a task that rests
\* is announced by an ordinary event.
UpdateRow(type) ==
    /\ announcing = "nothing" /\ Len(appended) < MaxEvents
    /\ row # "over" /\ row # RowOf(type)
    /\ row' = RowOf(type)
    /\ announcing' = type
    /\ UNCHANGED <<appended, committed, streamVars, readerVars, breaks>>

\* A task comes to rest and no event follows: a step's pause that was announced
\* before, a plan whose approval was requested before, an approval the bridge
\* takes over, a node paused while the task waits.
RestQuietly ==
    /\ row = "active" /\ row' = "quiet"
    /\ UNCHANGED <<appended, announcing, committed, streamVars, readerVars, breaks>>

\* appendEvent commits the next sequence number: of the row change that is due,
\* or of something else that happens in a running task, such as the "task.paused"
\* of a failed step while the rest of its wave is still to be written.
AppendEvent(p, type) ==
    /\ Len(appended) < MaxEvents
    /\ \/ announcing = type /\ announcing' = "nothing"
       \/ /\ announcing = "nothing" /\ row = "active" /\ type \in {"work", "rest"}
          /\ UNCHANGED announcing
    /\ appended' = Append(appended, type)
    /\ committed' = [committed EXCEPT ![p] = Append(@, Len(appended) + 1)]
    /\ UNCHANGED <<row, streamVars, readerVars, breaks>>

-----------------------------------------------------------------------------
(* The endpoint.                                                           *)

\* The members of a set of numbers, the least first.
InOrder(S) == [i \in 1 .. Cardinality(S) |->
                CHOOSE e \in S : Cardinality({f \in S : f <= e}) = i]

\* push drops what is not newer, also when an earlier event was never pushed.
\* After the replay, a boundary starts the timer that looks at the row.
Push(events) ==
    LET new == InOrder({e \in events : e > last}) IN
    /\ last' = IF new = <<>> THEN last ELSE new[Len(new)]
    /\ pipe' = pipe \o new

replaying == stream \in {"subscribed", "read"}

\* Mistake: what is published during the replay is dropped.
PublishDropping(p) ==
    /\ committed[p] # <<>>
    /\ committed' = [committed EXCEPT ![p] = Tail(@)]
    /\ LET e == Head(committed[p]) IN
       IF stream \in {"checking", "open"} /\ proc = p /\ e > last
       THEN Push({e}) /\ timer' = (timer \/ appended[e] \in Boundary)
       ELSE UNCHANGED <<last, timer, pipe>>
    /\ UNCHANGED <<row, appended, announcing, stream, proc, replay, pending,
                   readerVars, breaks>>

\* publish calls the listeners of this process: receive buffers or pushes.
PublishEvent(p) ==
    /\ committed[p] # <<>>
    /\ committed' = [committed EXCEPT ![p] = Tail(@)]
    /\ LET e == Head(committed[p])
           listening == stream \in {"subscribed", "read", "checking", "open"} /\ proc = p
       IN IF ~listening \/ e <= last
          THEN UNCHANGED <<last, pending, timer, pipe>>
          ELSE IF replaying
          THEN pending' = pending \cup {e} /\ UNCHANGED <<last, timer, pipe>>
          ELSE /\ Push({e})
               /\ timer' = (timer \/ appended[e] \in Boundary)
               /\ UNCHANGED pending
    /\ UNCHANGED <<row, appended, announcing, stream, proc, replay, readerVars,
                   breaks>>

\* A process serves the request: it subscribes before it reads the events.
Subscribe(p) ==
    /\ reader = "connect"
    /\ reader' = "reading"
    /\ stream' = "subscribed" /\ proc' = p
    /\ last' = cursor /\ replay' = 0 /\ pending' = {} /\ timer' = FALSE /\ pipe' = <<>>
    /\ UNCHANGED <<taskVars, cursor, terminal, reconnects, breaks>>

\* getEvents reads the events there are.
ReadEvents ==
    /\ stream = "subscribed"
    /\ replay' = Len(appended)
    /\ stream' = "read"
    /\ UNCHANGED <<taskVars, proc, last, pending, timer, pipe,
                   readerVars, breaks>>

\* Mistake: the buffer is cleared and not pushed.
ReplayReadOnly ==
    /\ stream = "read"
    /\ Push(1 .. replay)
    /\ timer' = FALSE /\ pending' = {}
    /\ stream' = "checking"
    /\ UNCHANGED <<taskVars, proc, replay, readerVars, breaks>>

\* Its answer is pushed, and then what was published since the subscription.
Replay ==
    /\ stream = "read"
    /\ Push((1 .. replay) \cup pending)
    /\ timer' = \E e \in pending : e > replay /\ appended[e] \in Boundary
    /\ pending' = {}
    /\ stream' = "checking"
    /\ UNCHANGED <<taskVars, proc, replay, readerVars, breaks>>

\* Mistake: the stream is always kept open.
CheckNothing ==
    /\ stream = "checking"
    /\ stream' = "open"
    /\ UNCHANGED <<taskVars, proc, last, replay, pending, timer, pipe,
                   readerVars, breaks>>

\* getTask after the replay: a task at rest needs no open stream.
CheckRow ==
    /\ stream = "checking"
    /\ stream' = IF row = "active" THEN "open" ELSE "closed"
    /\ UNCHANGED <<taskVars, proc, last, replay, pending, timer, pipe,
                   readerVars, breaks>>

\* The timer of a boundary: getTask, and the stream is closed at rest.
Timer ==
    /\ stream \in {"checking", "open"} /\ timer
    /\ timer' = FALSE
    /\ stream' = IF row = "active" THEN stream ELSE "closed"
    /\ UNCHANGED <<taskVars, proc, last, replay, pending, pipe, readerVars,
                   breaks>>

-----------------------------------------------------------------------------
(* The reader.                                                             *)

Read ==
    /\ reader = "reading" /\ pipe # <<>>
    /\ pipe' = Tail(pipe)
    /\ IF Head(pipe) > cursor
       THEN cursor' = Head(pipe) /\ terminal' = appended[Head(pipe)]
       ELSE UNCHANGED <<cursor, terminal>>
    /\ UNCHANGED <<taskVars, stream, proc, last, replay, pending, timer, reader,
                   reconnects, breaks>>

Reconnect ==
    IF reconnects < MaxReconnects
    THEN reader' = "connect" /\ reconnects' = reconnects + 1
    ELSE reader' = "failed" /\ UNCHANGED reconnects

\* The stream ended: the last event says whether to go on; for a human
\* boundary the row is read again.
StreamEnds ==
    /\ reader = "reading" /\ stream = "closed" /\ pipe = <<>>
    /\ stream' = "none"
    /\ CASE terminal = "end" -> reader' = "done" /\ UNCHANGED reconnects
         [] terminal = "rest" -> reader' = "reread" /\ UNCHANGED reconnects
         [] terminal = "work" -> Reconnect
    /\ UNCHANGED <<taskVars, proc, last, replay, pending, timer, pipe, cursor,
                   terminal, breaks>>

Reread ==
    /\ reader = "reread"
    /\ \/ row # "active" /\ reader' = "done" /\ UNCHANGED <<terminal, reconnects>>
       \/ row = "active" /\ Reconnect /\ terminal' = "work"
    /\ UNCHANGED <<taskVars, streamVars, cursor, breaks>>

\* The connection breaks: the endpoint closes, and the reader's read throws.
Break ==
    /\ reader = "reading" /\ breaks < MaxBreaks
    /\ breaks' = breaks + 1
    /\ reader' = "failed"
    /\ stream' = "none"
    /\ UNCHANGED <<taskVars, proc, last, replay, pending, timer, pipe, cursor,
                   terminal, reconnects>>

-----------------------------------------------------------------------------
Server == ReadEvents \/ Replay \/ CheckRow \/ Timer
Reader == (\E p \in Process : Subscribe(p)) \/ Read \/ StreamEnds \/ Reread

StreamNext ==
    \/ \E type \in Type : UpdateRow(type) \/ \E p \in Process : AppendEvent(p, type)
    \/ RestQuietly
    \/ \E p \in Process : PublishEvent(p)
    \/ Server \/ Reader \/ Break

\* A writer appends the event of the row it has changed (one that dies in between
\* leaves its readers without an end), a committed event is published and both
\* ends of a stream go on.  Nothing obliges the task to change.
StreamFairness ==
    /\ WF_eventVars(announcing # "nothing" /\
                    \E p \in Process : AppendEvent(p, announcing))
    /\ \A p \in Process : WF_eventVars(PublishEvent(p))
    /\ WF_eventVars(ReadEvents) /\ WF_eventVars(Replay)
    /\ WF_eventVars(CheckRow) /\ WF_eventVars(Timer)
    /\ WF_eventVars(Reader)

StreamSpec == StreamInit /\ [][StreamNext]_eventVars
StreamFairSpec == StreamSpec /\ StreamFairness

-----------------------------------------------------------------------------
(* Properties.                                                             *)

Stopped == reader \in {"done", "failed"}

\* "Every transition is persisted as a versioned task event and replayed through
\* SSE": the reader sees every event, in order and without a gap, over as many
\* streams as it takes; its cursor never passes an event it was not sent.
EveryTransitionIsReplayed == [][cursor' \in {cursor, cursor + 1}]_eventVars

\* A reader does not wait forever on a task that is at rest once an event has said
\* so after the change: whichever of the replay, the check after it and the timer
\* comes across the change, the stream ends.
RestIsNoticed == <>[](row \in {"resting", "over"}) => <>Stopped

\* Not so of every rest.  The timer of a pause that was announced first may find an
\* active row, and no later event starts another: the stream stays open on a task
\* that waits for a human (TLC shows it when this takes the place of RestIsNoticed).
EveryRestIsNoticed == <>[](row # "active") => <>Stopped

\* An event that was appended while somebody reads arrives, be it between the
\* read of the replay and the first live event.
EventsArrive ==
    \A e \in Sequence : Len(appended) >= e ~> (cursor >= e \/ Stopped)

-----------------------------------------------------------------------------
(* Why the first of them holds where all events are published in the       *)
(* process that serves the stream.                                         *)

\* Events are published in their order.
Published(p) == Len(appended) - Len(committed[p])
CommitInv ==
    \A p \in Process :
        /\ Len(committed[p]) <= Len(appended)
        /\ \A i \in DOMAIN committed[p] : committed[p][i] = Published(p) + i

\* What is on its way follows what was read.
PipeInv ==
    /\ stream = "none" <=> reader # "reading"
    /\ cursor <= Len(appended)
    /\ reader = "reading" =>
         /\ cursor + Len(pipe) <= Len(appended)
         /\ \A i \in DOMAIN pipe : pipe[i] = cursor + i

\* Until the replay is pushed, what is published and not in it is buffered;
\* then everything published has been pushed.
ServerInv ==
    /\ replaying => /\ last = cursor /\ pipe = <<>>
                    /\ pending \subseteq 1 .. Published(proc)
    /\ stream = "read" =>
         /\ replay \in last .. Len(appended)
         /\ (replay + 1) .. Published(proc) \subseteq pending
    /\ stream \in {"checking", "open"} =>
         last = cursor + Len(pipe) /\ Published(proc) <= last

StreamInv == CommitInv /\ PipeInv /\ ServerInv
=============================================================================
