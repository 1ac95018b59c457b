# Axiom Agent Control Room: specifications and proofs

Axiom runs requests of a user as tasks: a server plans a task with language
models, executes the plan's steps in waves, calls tools that have effects
outside, has the result reviewed and tells the user, who may step in at any
moment.  Several server processes share one PostgreSQL database; every one of
them polls for work, and any of them may die between two statements.  The parts
worth a specification are the ones whose correctness depends on the order in
which those processes, the operators and the outside world act.

The modules model those parts, statement by statement and await by await; TLC
checks them on small instances, and TLAPS proves the safety of the ledger, the
scheduler, the task runtime, compiled workflows and their waves, the outbox, the
circuit breaker, the memory receipts, the harness bridge and the event stream for
every value of the constants.

- [1. The system](#1-the-system)
- [2. The modules](#2-the-modules)
- [3. The runs](#3-the-runs)
- [4. Fairness](#4-fairness)
- [5. The proofs](#5-the-proofs)
- [6. Where code and documents disagree](#6-where-code-and-documents-disagree)
- [7. What is not modelled](#7-what-is-not-modelled)
- [8. Plan](#8-plan)

## 1. The system

All paths are under `server/runtime/` unless they say otherwise.

| Component | State | Operations | What is hard | What makes it correct |
| --- | --- | --- | --- | --- |
| Tool ledger (`toolExecutionStore.ts`) | one row per tool invocation: status, attempts, revision, lease token and time, receipt | claim, renew, releaseUnstarted, complete, markRetryable, markOutcomeUnknown, annotate, resolveUnknown, reconcileExpiredForTask | two workers with one invocation; a process that dies with a write; lost acknowledgements | every run of a write has a permission of its own; all agents get one answer |
| Tool registry (`toolRegistry.ts`) | local state of `execute`, a heartbeat, a timeout | execute, resolveExecutionUnknown, listExecutions | its awaits interleave with everybody's; a handler outlives its timeout | never dispatches twice, never reports what was not saved |
| Scheduler (`scheduler.ts`, `scheduleCadence.ts`) | one row per schedule: next_run_at, claim token and time, failures; a set of claimed ids per process | register, update, delete, pause, resume, tick, execute, applyHealthAction | handlers longer than a claim; edits during a run; a batch that rejects | an old claim has no effect; dead letters count failures in a row |
| Trigger handler (`taskApi.ts`, `enqueueScheduledTrigger`) | tasks with an idempotency key | enqueue | a retry after a task was made | one occurrence, one task |
| Task store (`postgresTaskStore.ts`, `sqliteTaskStore.ts`) | the tasks table: status, plan, results, review, approval, revision, lease; events; sessions | createTask, updateTask, requestCancel, claimNextTask, renewLease, releaseLease, appendEvent, sessions | optimistic revisions that only some writers use | no writer undoes another's decision |
| Coordinator (`coordinator.ts`) | the controllers of the tasks a process runs | poll, heartbeat, abort, pauseStep | a lease lost while a run goes on; a crash | a task is always taken up again |
| Orchestrator (`orchestrator.ts`) | a run's copy of plan, results and review | run: plan, gate, waves, checkpoint, review, verification, completion, catch | reads before an await, writes after it | only approved plans run; checkpoints are not repeated; a cancel stops |
| Operator API (`taskApi.ts`) | requests between their read and their write | pause, resume, approve, reject, replan, retry, skip, complete, replace, cancel, notes, tool approvals, branch, merge | each reads, decides and writes, against a run that does the same | a guard still holds when its write happens |
| Outbox (`outboundNotifications.ts`) | channels; one delivery row per channel and notification with attempts, next_attempt_at, lease token | saveChannel, deleteChannel, enqueue, claimNext, deliver, markDelivered, markFailed, retry, prune | POSTs and answers that are late or lost, crashes at every await | attempts stay in the budget, an outcome is that of the current claim, everything ends |
| Governance (`enterpriseGovernance.ts`) | policy and usage of a tenant, a leased row per call, a circuit per tool source | reserve, renew, record outcome, release, snapshot, updatePolicy | calls that outlive their lease or their circuit, probes that die, slots nobody gives back | at most one probe; only its own calls open or close a circuit; limits hold |
| Memory capture (`memoryClient.ts`, `memoryCaptureStore.ts`) | receipts with a lease, a cursor | claim, post, complete, fail, compensate | the cursor is read before the claim, acknowledgements are lost, calls outlive their lease | what counts as captured was stored, a copy costs a fault, a receipt is settled |
| Harness bridge (`harnessBridge.ts`, `harnessClient.ts`) | the delegation a process remembers, queues and numbers of a thread's events, the events persisted | start, resume, interrupt, consume, recover | a loop that was replaced goes on, numbers that begin anew after a restart | an event is persisted once and none is passed over, a thread is taken up again |
| Agent tool loop, specialists (`agentToolLoop.ts`, `workflowSpecialists.ts`) | a journal of observations | run, replay | effect before the journal is saved | the ledger answers a replay |
| Workflow compiler and wave loop (`workflowCompiler.ts`, `workflowDag.ts`, `workflowConcurrency.ts`, `workflowConditions.ts`, the loop in `orchestrator.ts`) | the plan and its results; the steps under way | compile, analyse, decide branches, form a wave, recover a failed step, pause a node, approve a tool | loops in loops, recoveries that rewire the plan, branches decided again after a restart | rounds follow one another, branches exclude each other, recoveries come first, the loop ends |
| Checkpoint functions (`checkpointRuntime.ts`) | none | compare, merge | boundary cases | agree with a reference definition |
| Chat, models, context, routing | none that lasts | prompts, model calls | the models | |
| Plugins, templates, agents, credentials, business records | simple rows | create, update, delete | little | |
| Artifacts, reports | files by hash | put, export | formatting | |
| Readiness, metrics, alerts, in-app notifications, evaluation | projections | read | none | |
| Event hub, SSE, its reader (`eventHub.ts`, `taskApi.ts`, `src/lib/taskRuntime.ts`) | listeners of a process, a stream's cursor and buffer, the reader's cursor | publish, replay, buffer, close, reconnect | an event between the replay and the live stream; several processes that publish | every event arrives once and in order; a wait ends once an event says that the task rests |
| HTTP server, rest of the browser | connections | route, display | none that lasts | |

How they interact.  The coordinator of each process claims a task row and calls
the orchestrator, which calls models and, through the agent tool loop, the tool
registry; the registry claims a ledger row, runs the tool and saves its receipt.
Operators write the same task row through the API, which also aborts the run if
it is in the same process.  The scheduler calls the trigger handler, which puts a
task in the table.  The outbox reads the feed that `inAppNotifications.ts`
computes from tasks and schedules, the memory client the result of a finished task.
A paused task may be delegated to an external harness, whose bridge then writes the
row and the events; every event reaches the browsers through the hub of the process
that appended it.  No two components hold a lock together:
they meet only in rows, so each component is specified against its rows, with
the others' effects as the values those rows and calls may take.

`PROJECT.json` lists under "hazards" each place where such an order can go wrong.

## 2. The modules

| Module | Models | Its actions |
| --- | --- | --- |
| `ToolLedger` | the ledger, `ToolRegistry.execute` and operators' reviews | one per store transaction and per await of `execute`; `Land` is the effect in the outside world |
| `ReviewedExecution` | what the ledger promises: an invocation is open, busy, uncertain or done | abstract |
| `ToolLedgerProofs` | theorems about `ToolLedger`, and that it implements `ReviewedExecution` | |
| `Scheduler` | `PostgresScheduler`, the trigger handler, health actions | `Tick`, the awaits of `execute`, edits, `Expire`, `Crash` |
| `SchedulerProofs` | theorems about `Scheduler` | |
| `TaskRuntime` | one task: its row, the coordinators, the runs, the operators' requests | one per await of `run` and per read and write of a request |
| `TaskRuntimeProofs` | theorems about `TaskRuntime` | |
| `WorkflowCompiler` | `compileAgentWorkflow`, `analyzeWorkflowDag` | none: operators |
| `WorkflowWaves` | the wave loop of `run` over a compiled plan, and what operators do to its nodes | one per await of the loop that something else can come between |
| `WorkflowWavesProofs` | theorems about `WorkflowCompiler` and `WorkflowWaves` | |
| `DeliveryOutbox` | the outbox, its channels, the network and the user's server | one per store transaction and per await of `deliver` |
| `DeliveryOutboxProofs` | theorems about `DeliveryOutbox` | |
| `Governance` | slots, quotas and circuit breakers, and the calls that use them | one per store transaction; `Tick` |
| `GovernanceProofs` | theorems about `Governance` | |
| `MemoryCapture` | `capture`, the compensation worker, the receipts and the memory service | one per store statement; `Land` and `Lose` are the service and the network |
| `MemoryCaptureProofs` | theorems about `MemoryCapture` | |
| `HarnessBridge` | `HarnessTaskBridge` over the adapter's queues, and the row it shares with the coordinator | one per await of `start`, `resume`, `interrupt`, `consume` and `recover` |
| `EventStream` | `appendEvent`, `EventHub`, the SSE endpoint and `streamWorkflowEvents` | one per await of the writer, the endpoint and the reader |
| `Processes` | the processes of a deployment | none |
| `OneProcessProofs` | theorems about `EventStream` and `HarnessBridge` | |
| `MC*` | definitions the configurations need | |

Common conventions.  A statement or a transaction is one action.  An asynchronous
function is one action per await; what it keeps across the await is its
record (`runs`, `run`, `pc` ...).  Lease tokens are random UUIDs in the code and
numbers here, since only equality matters.  Random choices, model answers
and clients are nondeterministic.  Definitions that begin a comment with
"Mistake:" are plausible wrong versions of the definition below them; they are
used by no specification, only to see that a property would notice the error.

**ToolLedger.**  `status`, `attempts`, `revision`, `owner`, `lease`, `source`,
`receipt` are columns.  `claim` is three actions because it has three outcomes
(granted, expired so that the row becomes uncertain or is taken over, replayed).
A write that may have happened is never run again without an operator: it
becomes "outcome_unknown", and `Resolve` opens it again or closes it, comparing
the revision and the attempt the operator saw.  `reopened` counts the decisions that
a run did not happen; each run that is handed to the tool is kept with the count at its
claim (`epoch`) and at its dispatch (`decided`).  A run is `Late` when these differ:
`execute` does not look at the lease again between `claim` and the handler.  Time is
the number of heartbeats left on a lease.

**Scheduler.**  `row` has the columns edits and outcomes set, `token` and `live`
are the claim.  `runs` are calls of `execute` in all processes; `pending` is what
a process's `tick` waits for.  `slot` is history: the occurrence that a retry
after a failure is for, although `next_run_at` has moved.

**TaskRuntime.**  `task` is the row.  `runs[w]` is the copy with which
`Orchestrator.run` works: it writes the row back without comparing anything,
except where delivery is verified (`VerifyDelivery`), where the last writes
compare the revision.  A revision is not a number: "fresh" says that nobody else
called `updateTask` since this reader read.  `requestCancel` changes no revision
and so leaves `fresh` alone.  A correction round of the review writes the plan and the
results (`Correct`, `Repair`).  A pause writes the row and then aborts the run, the
requests to a node do it the other way round, and each is two actions.  `told` is
history: somebody paused or cancelled the task while the run was at a point from which
it looks at the row before it next writes the status (`HeedsCancel`, `HeedsPause`), and
nobody has lifted that.

**DeliveryOutbox.**  `row` is a delivery's row, `token` its lease token and
`unexpired` the claims whose time is not over.  `wire` are the POSTs on their
way, `accepted` what the server has handled.  The two reads of a clock (in SQL
and in `deliver`) are of one instant.

**Governance.**  `lease` are the rows of `axiom_tool_call_leases`, `health` those of
`axiom_tool_health`, and `pc` is where the caller in `businessCapabilities.ts` is
between its reservation and its release.  A `Call` is a reservation id; it is
reused only when its row is gone, so two reservations never share a row.  `used`
is what `ensureUsage` would return, so that a new window needs no reader.  Counts
that the code only compares with a threshold stop there.  `current` and `earned`
are history: the calls granted since a circuit last opened, and their successes.

**WorkflowCompiler.**  A canvas is its agents, its flow edges, the answer each
conditional edge wants and its loop edges with their rounds.  A step's id is its
agent, its round in every loop around it and the number of the recovery that added
it, where the code joins these to a string.  `Needs` and `Asks` are the unrolling;
`Analyzes` is the analysis, stated over sets of steps where the code walks a queue.
What is reached from a node (`Reaches`, `DescendantsOf`) is what lies in every set with
it that no edge leaves, where the code visits nodes one by one: the two are the same
set, and of sets one can prove something without an induction over paths.  The
order of steps in a plan is left out, so a wave may take any of the ready ones.

**WorkflowWaves.**  `status`, `plan`, `results` are the row; `approvals`, `paused` and
`replans` are what its approvals and events amount to.  `run` is the loop's own copy,
which `Checkpoint` writes over the row; `wave` are the steps under way.  A result
keeps whether the step was skipped and the answer it gives to the question that
conditions ask of it.  `TaskRuntime` has what comes before and after the loop, and the
two meet in the checkpoint: there a step's results and a wave are opaque, here
claims and leases are.  `launched`, `shaken`, `uncounted`, `halfway`,
`byHand` and `compiled` are history that the properties read.

**MemoryCapture.**  The columns of a receipt; all receipts of one session, since the
cursor a capture is compared with is the session's.  The claim token is written where
`attempts` is incremented and nowhere else, so the attempt number stands for it.
`wire` are the POSTs under way, `landed` those the service has stored.

**HarnessBridge.**  A delegation object is a loop, `del[d]`, that outlives its place in
the `active` map.  `queue` is the adapter's queue of a thread with the number it has
counted to, which a restart loses; `log` are the numbers persisted.  `start` and `resume`
look at the map, await the adapter or the store, and write the map without another look,
so two of them, or one of them and a sweep, may both go on.  That a task is
completed, failed or cancelled is one value, as the bridge treats them alike.

**EventStream.**  An event is its sequence number and whether its type ends the task,
puts it to rest or neither.  As a rule the row changes before the event that says so is
appended (`announcing`).  A step whose failure pauses the task does it the other way
round (`orchestrator.ts:2921`, 3078), and a plan whose approval was requested before, an
approval that the bridge takes over (`harnessBridge.ts:359`) and a node pause
(`taskApi.ts:4145`) change the row when no event follows that would say so: `AppendEvent`
may announce a rest while the row is active, and `RestQuietly` changes the row alone.  An
appended event is published later (`committed`).  `last`,
`replay`, `pending` and `timer` are the endpoint's variables, `cursor` and `terminal` the
reader's.

## 3. The runs

| Run | Instance | Shows |
| --- | --- | --- |
| `ledger` | one write or one read-only invocation, two callers, two operators, five row changes | `DispatchesArePaidFor`, `AnswersAgree`, `ReceiptIsEarned`, `AttemptsAccounted`, `ReviewIsCurrent`; the refinement of `ReviewedExecution`; `ExecutionSettles` |
| `scheduler` | one schedule, two processes, one suggestion, two edits, three claims | `FencedRunIsPowerless`, `TasksBounded`, `DeadLetterInv`, `ReviewSeesOutcomes`, `DueIsClaimed` |
| `task` | one process, two dependent steps, every gate on, two requests of any kind, two faults | `PlanGate`, `CancelStopsSoon`, `CheckpointsAreReused`, `StopsAreHeeded`, `ComesToRest` |
| `waves` | all drawings of two agents and eight canvases, seven of them with three; builders that exclude each other, agents that are skipped or held on failure | `PlanStaysExecutable`, `RoundsInOrder`, `BranchesExclude`, `RecoveryComesFirst`, `LoopEnds` |
| `waves_approval` | the same | violation: `HeldRunRests` |
| `outbox` | one delivery, two processes, two attempts, one retry by hand, unlimited crashes | `ClaimsExclude`, `AttemptBudget`, `DeliveredIsEarned`, `OldClaimsArePowerless`, `Settles` |
| `governance` | two calls of one source, two policies, a lease of two ticks, two openings, any crashes | `OneProbe`, `RecoveryIsEarned`, `CircuitAdmitsAgain`, `SlotsReturn` |
| `memory` | an older and a newer result, one run, two compensation workers, two faults | `CompletedIsEarned`, `CopiesCostFaults`, `CapturesSettle` |
| `harness` | one process, one thread, two commands, two loops at a time, one fault | `NoEventIsStranded`, `EventsPersistedOnce`, `ThreadIsTakenUp` |
| `harness_double` | one delegation, no faults | violation: `OneExecutor` |
| `events` | one process, four events, two reconnects, one broken connection | `EveryTransitionIsReplayed`, `RestIsNoticed`, `EventsArrive` |
| `events_gap` | two processes, two events, no faults | violation: `EveryTransitionIsReplayed` |

Why the bounds are enough.  Rows do not influence one another in the ledger, the
scheduler and the outbox: a transaction reads and writes one row (a `tick` and
the dead-letter statement of `claimNext` several, independently), so one row
shows every interference there is.  Two callers or processes are the fewest that
interfere; a third can only repeat what the second does, which the proofs confirm.
Five changes of a ledger row are enough for a claim, its expiry, the review that opens
the row again, another claim and its expiry, with both callers behind.  Three claims of a
schedule are a failure, its retry and a success or a second failure, which is
the dead letter when `MaxFailures` is 2 (5 in the code, `scheduler.ts:111`).  Two attempts instead
of five leave the first, a middle and the last attempt of the code apart as
"attempts left" and "none left".

For a task, two dependent steps are the least with a second wave; two requests are
the least that undo one another; two faults let a task be claimed a third time;
`MaxPlans` stops replanning.  A second process adds its own copy of the plan and
nothing else: the safety properties of `task` are proved for any number of them, and
the run keeps one for the sake of `ComesToRest`.  Faults are bounded (`MaxFaults`)
because liveness is false if a task's processes die for ever; in the outbox they are
not, since each crash there consumes an attempt.

In governance two calls are the fewest with an old one and a probe, or with a
probe and its rival, and sources meet only in the slots.  A lease of two ticks lets
one that is renewed outlive one that is not, and the cooldown of one tick lets a
call from before the opening meet the circuit while it is tested.  `Threshold` and
`Recovery` are the least that tell one outcome from enough.  `MaxGeneration` 2 lets a
circuit open again after a recovery or a failed probe; a third opening meets the
same rows.  `MaxUsed` only stops the count of a window that has no limit.

The canvases of `waves` are the shapes the rules of the compiler tell apart: a step
alone, a branch, a join, independent steps, a line, a loop, a loop in a loop, and
every drawing of two agents, most of which the compiler refuses.  Two steps in a wave
(`Concurrency`) leave a third ready step for the next one; `MaxReplans` 2 is the
value of the code.  Two faults on the branch, the join and the line let a recovery
fail or a crash follow a failure; one on the others, and one command of an operator
(two on a single step, none on the drawings of two agents), keep the run within
minutes; a loop in a loop, whose plan is the longest, is taken twice, once with a command
and once, with its agents in another order, with a fault (with both on one canvas there
are 77 thousand states, and they show the same).  The instance with two commands on the branch, the join and the line
(1.15 million states) shows the same.

For captures, two receipts are the least with a newer and an older cursor, and the
run and two workers the least with a call, its successor and a rival.  Two commands
of a harness are a start and an interrupt or a resume, and one fault a crash, an exit
or a refusal at any of their awaits; a second loop is one that was replaced.  Two
threads, two commands and a fault (1.2 million states, five minutes) show the same;
a second process breaks two of the properties (section 6).
Four events are a replay, a buffered event, a live one and one after a reconnect.

`CHECK_DEADLOCK FALSE` is in every configuration: a finished task, a settled row
at its bound or a schedule nobody edits is a legitimate end.

## 4. Fairness

Weak fairness only, and only for what the code drives itself.

- Ledger: time passes; a call whose process lives goes on, since its handler is
  under `withTimeout`.  Claims, crashes, effects and operators are not fair.  Nor is
  `reconcileExpiredForTask`, which only requests of users call (`taskApi.ts:792`, 4404,
  4455): `ExecutionSettles` has the hypothesis `SomebodyLooks`, that the executions of
  the task go on being listed or the task resumed, and does not hold without it.
- Scheduler: `tick` runs each second in each live process, `execute` goes on (model
  calls time out), claims expire.
- Task: a coordinator polls each second, a run goes on, the lease of a dead
  process expires.  Operators are not fair: `ComesToRest` lets a task wait for them.
- Waves: the run goes on, its steps end since model and tool calls time out, and a
  request to a node that was begun is carried out.  Operators, failures and crashes
  are not fair.
- Outbox: `flush` runs each second, `deliver` goes on while its process lives, and
  `next_attempt_at` and `lease_expires_at` pass.  Processes may crash for ever.
- Governance: time passes, and a call whose process lives reports and gives its
  slot back, or fails to: `invokeExternalOperationOnce` gives the provider 30
  seconds (`AbortSignal.timeout`) and the release is in a `finally`.  Reservations,
  heartbeats, crashes and managers are not fair.
- Memory: a call goes on (a POST is given up after 12 seconds), every process sweeps
  on its timer, a request that is under way arrives or is lost, `next_retry_at` and
  the lease of a call that is gone pass.  Runs and faults are not fair.
- Harness: calls that were begun, the consume loops and the sweeps (every 20 seconds)
  go on.  The sidecar, the coordinator and operators are not fair.
- Events: a row change that was written is announced, an appended event is
  published, and both ends of a stream go on.  Tasks and connections are not fair.

## 5. The proofs

Assumptions are those of the modules (`LedgerAssumption`, `SchedulerAssumption`,
`TaskAssumption`, `OutboxAssumption`, `GovernanceAssumption`, `CaptureAssumption`,
`StreamAssumption`, `HarnessAssumption`, `CompilerAssumption`, `WavesAssumption`):
limits are numbers, the null values are not values, a canvas is a finite drawing whose
loops have one round or more.  Nothing is assumed of the number
of rows, processes, callers, steps or operators, nor of the canvases users draw, and no
proof uses the value of a bound; only the calls in flight of `Governance` are finite,
because the code counts them.

**Ledger** (`ToolLedgerProofs`).  `TypeCorrect`, then
`LedgerCorrect`: `LedgerInv` is inductive.  At its centre is that no two runs of a
write use the same permission (`UsedOnceInv`), which is
kept because a claimed caller holds a permission that no run has used
(`ClaimEpochInv`), no two callers hold the same one (`ClaimUniqueInv`), and while the
row can be claimed its current permission is neither held nor used
(`OpenEpochInv`).  Permissions are numbered `0 .. reopened`, so runs are mapped one to one
into as many numbers: that is the bound of `WritesArePaidFor`, and two runs handed out
between the same two decisions have different permissions, one of them from before the
earlier decision.  The attempt number identifies a lease (`HeldAttemptInv`,
`OwnerInv`), so a stale owner cannot complete; hence `ReceiptIsEarned` and
`AnswersAgree`.  `AttemptsAccounted` needs that an open row has room
(`OpenBudgetInv`).  `ReviewsAreCurrent`: a page that shows the row's revision shows its
attempt, because every claim changes the revision (`ViewInv`), so the revision that
`resolveUnknown` compares stands for the attempt the operator inspected.
`LedgerImplementsReviewed` is the refinement: each action is one abstract step, such as
granting a run, settling it or deciding on it, or leaves phase, runs, result and answers
as they were (`StepRefines`); an answer given after a lost acknowledgement is a stutter
or an abstract answer because `AnswersAgree` makes it the receipt.

**Scheduler** (`SchedulerProofs`).  `SchedulerCorrect`: `SchedulerInv` is
inductive.  Tokens identify runs (`TokenInv`), a claim that nothing has voided is
the row's (`HeldInv`), and while it is, the row is as the run found it
(`SnapshotInv`), from which `OneRunPerClaim`, `DeadLetterInv` and the action property
`FencedRunIsPowerless` follow.  `OccurrencesAreBounded`: the attempts at an occurrence
are those of the row, of the runs and of the tasks made; the failures an attempt has had
identify it (`AttemptInv`), so two tasks of one attempt would have one key, and a run
claims only what has failed less than `MaxFailures` times and is due (`DueInv`).  Tasks
are then mapped one to one into `0 .. MaxFailures - 1` (`AttemptsBoundTasks`).
`ReviewsSeeOutcomes`: unless someone edits the schedule, an outcome puts its next run off
or disables it, so a row that looks as it did when a health request read it has had no
outcome since (`ReviewInv`).

**Task runtime** (`TaskRuntimeProofs`).  `TaskCorrect`: `TaskInv` is inductive.  It is
`RowInv` for the row, which says that an approved plan is one somebody approved or
made by replacing an agent, and `RunInv` for each run: past the gate its own copy of
the plan is such a plan, whatever has happened to the row; what it has left to do has
no result in its copy nor, unless an operator interfered, in the row; and it starts at
most one wave after a cancellation, since the check of the next iteration stops it.
Steps of other runs and requests preserve a run's part because they leave its copy
alone and mark it disturbed when they write results (`OvertakenRun`, `RunInvGrows`; one
lemma per action for the rest).  `OnlyGoodPlansRun`, `CheckpointsReused` and
`CancellationStopsRuns` follow for every number of processes.  `PausesHold` is
`StopsAreHeeded`: while a stop that a run was told of stands, the row still shows it when
the run makes its next check, since until then the run writes the row without its status;
and where the last writes compare the revision, a pause that comes after the last check has
changed it.  So a run that was told is refused at the completion, or never gets there
(`ToldRunIsRefused`).

**Compiler** (`WorkflowWavesProofs`, first part).  `CompiledPlansExecute`: the steps of
every canvas that compiles satisfy `Analyzes`, however many loops there are and
however they are nested, although the loop edges are cycles of the drawing.  A step is
`Ahead` of another when it comes first as the loops are played round by round: in the
outermost loop in which their rounds differ it is in the earlier one, and if none differs
its agent reaches the other's.  `Ahead` composes (`AheadOn`, where the nesting rule is
used), nothing is ahead of itself, and what a step needs is ahead of it.  A finite set
with such an order has a first member; that is shown not by induction but by taking the
member with the fewest before it, in the well-founded order of strict inclusion between
finite sets (`SomeMinimal`, `SomeFirst`).

`RoundsFollow` is the other half: a step waits, at some remove, for every step of the
rounds before its own.  From a step in a round of a loop one gets, along what it needs, to
a step of the loop's target in the same round (`WaitsFor`, `Arrives`); that one waits for the
loop's source in the round before (`WaitsForRound`); and from the source one gets back to
all of that round (`LastOfRound`, `AllOfRound`, `Departs`), through inner loops by way of
their last rounds.

**Waves** (`WorkflowWavesProofs`, second part).  `WavesCorrect`: `WavesInv` is inductive
for any canvases, any `Concurrency`, any bounds.  Each action is first shown to amount to
one of a dozen changes of the state (`Moves`, `StepMoves`): a run starts, decides, launches,
settles a step, inserts a recovery, writes its checkpoint, an operator redoes a node and
so on; each part of the invariant then has one lemma that goes through these.  A run's plan
is the row's (`RunInv`), a launched step has what it needs in the row (`WaveInv`), recoveries
are numbered up to the number counted (`CountInv`).  `PlanInv` says that rewiring only puts
recoveries in the place of what they recover, so that whatever follows a step in the
compiled plan follows it in the present one: an insertion then keeps the plan acyclic
(`InsertionAnalyzes`), and an operator who redoes a node redoes all that was decided on it
(`Descendants`).  `BranchesAreExclusive` needs that what was begun was chosen by an answer that
is in the row (`BranchInv`), since a run that starts again decides from the row only, and
that answers of steps that did not fail stay (`ResultInv`).  `RoundsFollowOneAnother` joins the two
parts: a result or a launched step has all it needed in the compiled plan (`OrderInv`), so
by `RoundsFollow` all of the earlier rounds.  `RecoveriesComeFirst` needs that as long as
recoveries are left nothing waits for a failed step outside the wave in which it failed
(`RecoveryInv`).

**Outbox** (`DeliveryOutboxProofs`).  `OutboxCorrect`: `OutboxInv` is inductive.
`LeaseInv` says that the only claim that may have time left is the row's, and only
while the row is being delivered; so a row that can be claimed has none, and a call
that has time left has the row it was given (`TimeInv`) and shares it with no other
(`TokenInv`).  `AttemptBudget` needs `TimeInv`: a call before its POST has an
attempt that nothing was sent for.  `DeliveredIsEarned` needs `CallInv`: a call
believes in an acceptance only if there was one.  `ClaimsExclude`, the action
properties `OldClaimsArePowerless` and `DeliveredIsFinal` follow.

**Governance** (`GovernanceProofs`).  `GovernanceCorrect`: `GovernanceInv` is
inductive.  Every step but a reservation only takes from a row: it deletes it, lets
its time pass or records its outcome.  `Follows` says so of one row, and the
"quiet" steps, which touch no circuit, preserve each part of the invariant by
`Follows` alone.  A reservation makes a probe only if no other probe of the source
may still report; a report that counts has a row of the circuit's generation, which
`GenerationInv` makes a call granted since the circuit opened.  `OneProbe` then needs
that in a half-open circuit all those calls are probes (`RecoveryInv`), and
`RecoveryIsEarned` that the successes counted are at most those they reported.

**Memory** (`MemoryCaptureProofs`).  `CapturesCorrect`: `CaptureInv` is inductive.
`CompletedIsEarned` needs that a call whose request was accepted has it stored
(`AcceptedInv`) and that a call that found its capture stale found a newer completed
one, which stays completed (`StaleInv`).  The action property `OldClaimIsPowerless`
needs no more than the token a statement compares.  `CopiesAreCharged`: the copies of a
capture, but for the one that the call in charge of it has sent, have each been paid for
by a fault (`CopyInv`).  A call leaves its claim without a fault only when it closes the
receipt, and a claim is taken over only after a fault; then what was the current copy
becomes one that is paid for (`PaidStep`), and no other step makes copies (`NoNewCopies`).

**Where one process serves** (`OneProcessProofs`).  The hub and the bridge remember what
they did in their process and nowhere else, so what follows has the hypothesis
`OneProcess`; that is why the two components are proved about in one module.

*Events.*  `StreamCorrect`: where one process publishes all
events, `StreamInv` is inductive.  The events waiting to be published are the last ones
that were appended (`CommitInv`); before the replay is pushed, those published since the
subscription and not in it are in the buffer, and afterwards nothing is published that
was not pushed (`ServerInv`); so what is pushed next is the event after the last one, and
what is on its way follows the reader's cursor (`PipeInv`).  `NothingIsMissed` is
`EveryTransitionIsReplayed` under that hypothesis, without which `events_gap` refutes it.

*Bridge.*  `BridgeCorrect`: `BridgeInv` is inductive.  `PersistedOnce` needs that the
numbers persisted, those in the hand of a loop and those queued are disjoint (`HeldIn`,
`QueueIn`) and that a new number is none of them: the adapter has counted past what is
persisted, unless it was restarted, and then nothing happens to the thread until a
resume has told it the number (`CountIn`).  `NothingIsStranded` needs that a loop that waits has
seen all there is (`WaitIn`) and that its cursor, what a sweep has read and what is
persisted are below all that is queued (`CursorIn`); the last holds while the task has one
thread, since the cursor of a recovery is the largest number of all threads.  A step may do
several of these at once: a resume aborts a loop, drops its event, counts on, begins a
loop and hands it the next event.  So `SoundIn` speaks of any log, queues, loops, turns, calls
and sweeps; for each thing a step may do one lemma says that `SoundIn` survives
(`AbortKeeps`, `PullKeeps` ...), and the lemma of an action names the states in between.
`BridgeTyped`, which the others rest on, holds for any number of processes.

Proved, and not checked by a run of its own: the type invariants, the inductive
invariants, `OneRunPerClaim`, `DeliveredIsFinal`, `OldCallsArePowerless` and
`OldClaimIsPowerless` of governance and memory, and `CompiledPlansExecute`.

Only model-checked: all liveness (fairness is beyond the prover); that `Needs` and `Reaches` are what the code's
loops over arrays compute, which is an induction over data.

What the proofs showed.  Two properties held in their runs and not in general, and were
restated after the counterexample was found.

- `TasksBounded` took an occurrence to be the same after an edit that clears the failures
  and keeps `next_run_at`, after which there may be as many tasks again; the run's clock
  stopped before the difference.  Such an edit begins an occurrence of its own (`slot`).
- `RecoveryComesFirst` fails on a canvas with five agents, `a` before `s` and `t`, `g` before `h`
  and `h` before `t`, when two steps of a wave fail and a crash comes between their
  recoveries: the second is recovered by a later run, when a dependent may have a result
  already and is not rewired.  `halfway` records such a crash, and the property leaves it out.

## 6. Where code and documents disagree

Each run that expects a violation states a sentence of a document or a comment;
`PROJECT.json` quotes it under "findings".

- A delegated task is running and has no lease, so the next poll of a coordinator
  executes it as well (`harness_double`).
- An event of another process is not pushed to a stream, and the next local event
  moves the cursor past it, so no reconnect asks for it (`events_gap`).
- A tool call that is approved while other steps of its wave run queues the task, and
  the end of the wave fails it (`waves_approval`).

Some modules state another claim, of a document or one that a reader of the code may
expect, that TLC finds violated in a small instance and that has no run of its own:

- `OneTaskPerOccurrence` (Scheduler; docs/execution-loop.md:17): a retry after a failure
  has another idempotency key, since the failure moved `nextRunAt`, so an occurrence
  whose task had been made gets a second (`scheduler.ts:681`).
- `RejectedPlanNeverRuns` (TaskRuntime; docs/execution-loop.md:47): replacing the agent
  of one step runs a rejected plan (`taskApi.ts:4195`).
- `OldOwnerIsIsolated` (TaskRuntime, two workers; TODO.md:912): the former owner of a
  lease goes on writing the task's row (`postgresTaskStore.ts:572`).
- `OnlyOthersResume` (TaskRuntime): a run never takes a task out of "paused" by itself.  A
  pause between a check of the row and the status write after it is lost: "planning",
  "running", "reviewing" and "waiting_for_human" are written without a look at the row
  (`orchestrator.ts:2649`, 2716, 3078, 3103), and the run may then complete the task.
- `CancelledIsNotCompleted` (TaskRuntime; docs/final-delivery-verification-20260921.md:17):
  a cancellation after the last check is overwritten by the completion, since it does
  not change the revision (`postgresTaskStore.ts:588`).
- `OneDispatchBetweenReviews` (ToolLedger): between two decisions of operators at most one
  run of a write is handed out.  A caller whose lease ran out before it called the handler
  still calls it (`toolRegistry.ts:786`, 818), perhaps after a review that took the run for
  one that never began, and beside the run which that review has permitted.
- `EveryRestIsNoticed` (EventStream): the wait of a reader ends whenever the task is at
  rest.  Where the event comes before the row, the timer that the event starts
  (`taskApi.ts:4638`) may find an active row, and no later event starts another: the
  stream stays open on a task that waits for a human.
- `OneRecordPerNotification` (DeliveryOutbox, `MaxMade` 2; docs/outbound-notifications.md:48):
  a pruned delivery whose notification is still in the feed is sent again under another
  id (`outboundNotifications.ts:562`).

Seen in the models, without a sentence of a document against it:

- Task: an operator's result completed by hand while a wave runs is overwritten by the
  wave's checkpoint (`orchestrator.ts:3060`), and by the plan and the results that a
  correction round writes (`orchestrator.ts:3131`, 3151); a queued task cancelled after its claim is
  put back to planning (`orchestrator.ts:2649`); a task cancelled while it runs whose
  process dies is never claimed again (`postgresTaskStore.ts:616`); a PATCH of a channel
  undoes a concurrent DELETE (`taskApi.ts:3155`).
- Waves: a crash between the write of a recovered plan (`orchestrator.ts:3028`) and its
  event makes the next run give the recovery's number again, and a step may then wait for
  itself, which is why `PlanStaysExecutable` excepts `uncounted`.  An operator who retries
  a step that was recovered and then completes the recovery by hand makes branches ready
  whose source has no answer; a wave filled with them is tried again and again
  (`orchestrator.ts:2780`, 2821), and a dependent that had been completed by hand is not
  rewired to a recovery, nor does a round completed by hand hold the next one back: hence
  `byHand` in the properties.  Conditions go on asking the failed step when its dependents
  are rewired (`orchestrator.ts:3007`).  The condition of an edge that enters a loop is
  dropped after the first round (`workflowCompiler.ts:361`), so an agent whose branch was
  not taken runs in the second.  A node may be paused between its selection and its
  launch, is answered "paused-before-start" and runs (`taskApi.ts:4148`); a stale pause may
  pause a task that has ended since (`taskApi.ts:4145`); a resume of a node may be lost, as
  the task is queued before the event that lifts the pause (`taskApi.ts:4154`).
- Harness: the cursor of a recovery is the largest number of all threads of the task,
  while each thread counts from 1, so a second thread may be taken up behind its own
  events (`harnessBridge.ts:93`), which `NoEventIsStranded` excepts.  A sweep does not ask
  whether another process has the task delegated (`harnessBridge.ts:87`): with two processes
  both take the thread up, number its events on their own and persist one number twice, or
  move the cursor past an event of the other.  `EventsPersistedOnce` and `NoEventIsStranded`
  are therefore stated for a deployment with one process.  A crash between a
  persisted `turn.completed` and the row's update leaves the task running, and so does a
  start that fails after the row was written (`harnessBridge.ts:172`); an interrupt's late
  "paused" overwrites a completion (`harnessBridge.ts:234`).
- Memory: an older result may be posted after a newer one, since the cursor is read
  before the claim (`memoryClient.ts:366`); a receipt keeps 120 000 characters of a text
  (`memoryCaptureStore.ts:178`), so a sweep posts a longer one under another digest.
- Events: a writer that dies between the row and the event leaves its readers without an
  end; a reader gives up on a broken connection and after eight streams.

## 7. What is not modelled

- Ledger: a tool's own `resolveUnknown` hook, argument validation, quotas.
- Scheduler: `InMemoryScheduler` (used without a database), the limit of eight
  schedules a batch, cadence arithmetic (some later instant).
- Task: the direct and single-agent routes, the contents of a correction and of the delivery
  verification (its verdict is an outcome), guidance and notes, locks of a
  node, creation, deletion, branch and merge, several tasks in one pool.
- Waves: the resolution of agents and their contracts, ids as text (an agent called
  `a-loop-2` may collide with the second round of agent `a`), several questions to one
  step, the order of a plan, attempts inside a step, token budgets; one operator asks for
  one node at a time, and commands to a node come when no run is active (`TaskRuntime` has
  the abort of a run).  Drawing and video agents, whose failures have no automatic
  recovery, are not told apart.
- Outbox: encryption, signatures, URL checks, the order and the size of a batch.
- Governance: metrics, a policy's other fields and its revision (a patch read at an
  old revision is refused), the ledger of external calls around a reservation.
- Memory: recall, management of what is stored, texts longer than a receipt keeps.
- Harness: a sidecar's requests for permission, steering, the other adapters, the thread
  graph, which is a projection.  An operator who resumes passes the number of the last
  event.
- Events: `subscribeAll`, heartbeats, frames.  The events of a process are published in
  the order in which they were committed.
- The components with status `not_modelled` in `PROJECT.json`, with their reasons.  Most of
  the repository's lines are there: the browser application, the handlers of built-in
  tools, prompts, schemas, reports, scripts and tests have no state that two actors
  share.
- SQLite and memory stores: they share the rules and have a single process.

## 8. Plan

1. Done: ledger and its abstract specification, scheduler, task runtime, compiler and
   wave loop, outbox, governance, memory capture, harness bridge, event stream; proofs
   of the safety of each.
2. Task runtime: deletion, branch and merge (with
   `mergeCheckpoints` against a reference definition); an abstract `TaskLifecycle` that
   `TaskRuntime` and `WorkflowWaves` both implement but for the listed divergences.
3. Harness: requests for permission and their replay.
4. Proofs: `CancelledIsNotCompleted` and the other claims of section 6 under the
   hypotheses that make them true; that the sequence of events a reader has seen
   refines the one that was appended.
