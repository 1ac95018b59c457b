--------------------------- MODULE WorkflowWaves ---------------------------
(***************************************************************************)
(* The execution of a compiled workflow: the wave loop of                  *)
(* WorkflowOrchestrator.run (orchestrator.ts), with the branches it takes  *)
(* (workflowConditions.ts), the batches it forms (workflowConcurrency.ts)  *)
(* and the recovery steps it adds, and the operators who pause, resume and *)
(* rerun nodes or approve a tool meanwhile (taskApi.ts).                   *)
(*                                                                         *)
(* There is one task and at most one run of it at a time; claims, leases   *)
(* and what comes before and after the loop are in TaskRuntime.  A run has *)
(* its own copy of plan and results and writes it to the row at its        *)
(* checkpoints.  An action is what happens between two awaits that         *)
(* something else can come between.  Attempts inside a step, tokens,       *)
(* guidance and estimates are left out, and which of more ready steps than *)
(* a wave can hold come first, which is an order of the plan.              *)
(***************************************************************************)
EXTENDS WorkflowCompiler, FiniteSetsExt

CONSTANTS
    Canvases,     \* what users may have drawn
    Agents,       \* agents of all canvases
    Concurrency,  \* steps in a wave
    MaxReplans,   \* automatic recoveries of a task (2 in the code)
    Writers,      \* builders that do not declare what they write
    Skipping,     \* agents whose failure is skipped
    Pausing,      \* agents whose failure calls for a human
    MaxFaults,    \* bound: Canvases -> failures, questions and crashes
    MaxCommands   \* bound: Canvases -> commands of operators

ASSUME WavesAssumption ==
    /\ \A c \in Canvases : IsCanvas(c) /\ c.agent \subseteq Agents
    /\ Concurrency \in Nat \ {0} /\ MaxReplans \in Nat
    /\ Writers \cup Skipping \cup Pausing \subseteq Agents
    /\ Skipping \cap Pausing = {}
    /\ MaxFaults \in [Canvases -> Nat] /\ MaxCommands \in [Canvases -> Nat]

VARIABLES
    canvas,
    \* the task: its row and what its events amount to
    status, plan, results,
    approvals,    \* steps with a tool call that waits for a decision
    paused,       \* nodes whose last control event is a pause request
    replans,      \* plan.replanned events of automatic recoveries
    \* the run and the operator
    pc,
    run,          \* its local state
    wave,         \* state of the steps under way, a function of their ids
    node,         \* an operator's request between its read and its last write
    \* bounds and history
    faults, commands,
    launched,     \* steps begun since they were last invalidated
    shaken,       \* steps that were a failed checkpoint at some time
    uncounted,    \* a crash came between a recovery and its event
    halfway,      \* a crash left a failure in the row that was to be recovered
    byHand,       \* an operator has completed or skipped a node
    compiled      \* the steps the canvas was compiled to

rowVars == <<status, plan, results, approvals, paused, replans>>
runVars == <<pc, run, wave>>
history == <<launched, shaken, uncounted, halfway, byHand, compiled>>
vars == <<canvas, rowVars, runVars, node, faults, commands, history>>

Resting == {"paused", "waiting", "failed", "done", "refused"}
Status == Resting \cup {"queued", "running"}
PC == {"idle", "begin", "start", "check", "select", "skips", "launch", "executing",
       "replan", "emit", "checkpoint", "rest"}
StepState == {"runs", "stopping", "interrupted", "asks", "unknown",
              "failed", "true", "false"}

\* A result keeps what conditions and the loop read of it: its status and the
\* answer its output gives to the question asked of it.
Result == [status : {"completed", "failed"}, skipped : BOOLEAN, answer : BOOLEAN]

StepResult(state, skipped, answer) ==
    [status |-> state, skipped |-> skipped, answer |-> answer]

\* The results "rs" with new ones in the place of old ones.
Given(rs, new) ==
    [id \in DOMAIN rs \cup DOMAIN new |-> IF id \in DOMAIN new THEN new[id] ELSE rs[id]]

\* pending: steps still to be done; todo: failed steps of the wave; held: why
\* the run stops after the checkpoint.
NoRun == [plan |-> {}, results |-> <<>>, pending |-> {}, generation |-> 0,
          todo |-> {}, held |-> "no"]
NoNode == [kind |-> "none"]

Init ==
    /\ canvas \in Canvases
    /\ IF Compiles(canvas)
       THEN status = "queued" /\ plan = Steps(canvas)
       ELSE status = "refused" /\ plan = {}
    /\ compiled = plan
    /\ results = <<>> /\ approvals = {} /\ paused = {} /\ replans = 0
    /\ pc = "idle" /\ run = NoRun /\ wave = <<>> /\ node = NoNode
    /\ faults = 0 /\ commands = 0
    /\ launched = {} /\ shaken = {} /\ uncounted = FALSE /\ halfway = FALSE
    /\ byHand = FALSE

Fault == faults < MaxFaults[canvas] /\ faults' = faults + 1
Command == commands < MaxCommands[canvas] /\ commands' = commands + 1

\* The run returns, and the coordinator gives the lease back.
Return == pc' = "idle" /\ run' = NoRun /\ wave' = <<>>

Done(rs) == {id \in DOMAIN rs : rs[id].status = "completed" \/ rs[id].skipped}
Failures(rs) == {id \in DOMAIN rs : rs[id].status = "failed"}

-----------------------------------------------------------------------------
(* The run.                                                                *)

\* claimNextTask; run() reads the events of earlier runs before anything else.
Claim ==
    /\ pc = "idle" /\ status \in {"queued", "running"}
    /\ pc' = "begin"
    /\ UNCHANGED <<canvas, rowVars, run, wave, node, faults, commands, history>>

\* Mistake: a run does not count the recoveries of earlier ones.
BeginUncounted ==
    /\ pc = "begin"
    /\ IF status = "paused" THEN Return ELSE pc' = "start" /\ UNCHANGED <<run, wave>>
    /\ UNCHANGED <<canvas, rowVars, node, faults, commands, history>>

\* assertActive and the count of recoveries so far.
Begin ==
    /\ pc = "begin"
    /\ IF status = "paused" THEN Return
       ELSE pc' = "start" /\ run' = [run EXCEPT !.generation = replans] /\ UNCHANGED wave
    /\ UNCHANGED <<canvas, rowVars, node, faults, commands, history>>

\* The catch of run(): an error fails the task unless it rests for somebody.
Fail ==
    /\ status' = IF status \in {"paused", "waiting"} THEN status ELSE "failed"
    /\ Return

Start ==
    /\ pc = "start"
    /\ IF Analyzes(plan)
       THEN /\ status' = "running" /\ pc' = "check"
            /\ run' = [run EXCEPT !.plan = plan, !.results = results,
                                  !.pending = {s \in plan : s.id \notin Done(results)}]
            /\ UNCHANGED wave
       ELSE Fail
    /\ UNCHANGED <<canvas, plan, results, approvals, paused, replans, node,
                   faults, commands, history>>

\* Some steps failed for good in this run, and none was executed with success.  It
\* is asked when nothing is pending: what failed in an earlier run has been executed
\* again by then, and a failure that was recovered leaves the result of its recovery.
Hopeless ==
    /\ Failures(run.results) \ Done(run.results) # {}
    /\ \A id \in DOMAIN run.results :
         run.results[id].status = "completed" => run.results[id].skipped

\* assertActive at the head of the loop, and after it.
Check ==
    /\ pc = "check"
    /\ \/ status = "paused" /\ Return /\ UNCHANGED status
       \/ status # "paused" /\ run.pending = {}
          /\ IF Hopeless THEN Fail ELSE status' = "done" /\ Return
       \/ status # "paused" /\ run.pending # {}
          /\ pc' = "select" /\ UNCHANGED <<status, run, wave>>
    /\ UNCHANGED <<canvas, plan, results, approvals, paused, replans, node,
                   faults, commands, history>>

\* updateTask with the results of the run.
Save ==
    /\ results' = run.results
    /\ shaken' = shaken \cup Failures(run.results)
    /\ UNCHANGED <<launched, uncounted, halfway, byHand, compiled>>

\* A step is ready when all it needs have some result, a failure included.
Ready == {s \in run.pending : s.id \notin paused /\ s.needs \subseteq DOMAIN run.results}

\* Answers that steps give: it only matters for one that is asked.
Asked(id) == \E s \in plan : \E a \in s.asks : a.source = id
Answers(ids) == {f \in [ids -> BOOLEAN] : \A id \in ids : f[id] \/ Asked(id)}

Decidable(s) == \A a \in s.asks : a.source \in DOMAIN run.results
Selected(s) == \A a \in s.asks : run.results[a.source].answer = a.wants

\* selectNonConflictingSteps: of several writers one, whichever comes first.
Batches(steps) ==
    LET writers == {s \in steps : s.id.agent \in Writers}
    IN  IF writers = {} THEN {steps} ELSE {(steps \ writers) \cup {w} : w \in writers}

\* Mistake: a step that is not taken stays pending.
DecideKeepingSkipped(candidates) ==
    LET decided == {s \in candidates : Decidable(s)}
        chosen == {s \in decided : Selected(s)}
        skips == StepIds(decided \ chosen)
    IN  /\ \E f \in Answers(skips) :
             run' = [run EXCEPT !.results = Given(@, [id \in skips |-> StepResult("completed", TRUE, f[id])])]
        /\ \/ chosen = {} /\ pc' = "skips" /\ UNCHANGED wave
           \/ chosen # {} /\ pc' = "launch"
              /\ \E b \in Batches(chosen) : wave' = [id \in StepIds(b) |-> "runs"]

\* Branches are decided among the candidates for one wave: those not taken get
\* a result at once, the others are launched, if there are any.
Decide(candidates) ==
    LET decided == {s \in candidates : Decidable(s)}
        chosen == {s \in decided : Selected(s)}
        skips == StepIds(decided \ chosen)
    IN  /\ \E f \in Answers(skips) :
             run' = [run EXCEPT !.pending = @ \ (decided \ chosen),
                                !.results = Given(@, [id \in skips |-> StepResult("completed", TRUE, f[id])])]
        /\ \/ chosen = {} /\ pc' = "skips" /\ UNCHANGED wave
           \/ chosen # {} /\ pc' = "launch"
              /\ \E b \in Batches(chosen) : wave' = [id \in StepIds(b) |-> "runs"]

Select ==
    /\ pc = "select"
    /\ \/ Ready # {} /\ UNCHANGED <<status, results, history>>
          /\ \E c \in kSubset(Min({Concurrency, Cardinality(Ready)}), Ready) : Decide(c)
       \/ Ready = {} /\ StepIds(run.pending) \cap paused # {}
          /\ status' = "paused" /\ Save /\ Return
       \/ Ready = {} /\ StepIds(run.pending) \cap paused = {}
          /\ Fail /\ UNCHANGED <<results, history>>
    /\ UNCHANGED <<canvas, plan, approvals, paused, replans, node, faults, commands>>

SaveSkips ==
    /\ pc = "skips"
    /\ Save /\ pc' = "check"
    /\ UNCHANGED <<canvas, status, plan, approvals, paused, replans, run, wave,
                   node, faults, commands>>

\* From here on pauseStep finds the controllers of the steps.
Launch ==
    /\ pc = "launch"
    /\ pc' = "executing" /\ launched' = launched \cup DOMAIN wave
    /\ UNCHANGED <<canvas, rowVars, run, wave, node, faults, commands,
                   shaken, uncounted, halfway, byHand, compiled>>

Ends(id, state) ==
    /\ pc = "executing" /\ id \in DOMAIN wave
    /\ wave' = [wave EXCEPT ![id] = state]
    /\ UNCHANGED <<canvas, plan, results, paused, replans, pc, run, node,
                   commands, history>>

StepCompletes(id) ==
    /\ \E f \in Answers({id}) : Ends(id, IF f[id] THEN "true" ELSE "false")
    /\ wave[id] \in {"runs", "stopping"}
    /\ UNCHANGED <<status, approvals, faults>>

StepStops(id) ==
    /\ Ends(id, "interrupted")
    /\ wave[id] = "stopping"
    /\ UNCHANGED <<status, approvals, faults>>

\* It fails for good, or what its tool has done has to be reviewed.
StepFails(id) ==
    /\ Fault
    /\ Ends(id, "failed") \/ Ends(id, "unknown")
    /\ wave[id] = "runs"
    /\ UNCHANGED <<status, approvals>>

\* A tool call needs approval: the step itself puts the task to rest, while the
\* other steps of the wave go on.
StepAsks(id) ==
    /\ Fault
    /\ Ends(id, "asks")
    /\ wave[id] = "runs"
    /\ status' = "waiting" /\ approvals' = approvals \cup {id}

\* Steps that were interrupted, ask or call for a human have no result and stay
\* pending; the failures that are left may be recovered from.
Settle ==
    LET ended(o) == {id \in DOMAIN wave : wave[id] \in o}
        human == {id \in ended({"failed"}) : id.agent \in Pausing}
        done == ended({"true", "false"})
        failed == ended({"failed"}) \ human
    IN  /\ pc = "executing" /\ ended({"runs", "stopping"}) = {}
        /\ \E f \in Answers(failed) :
             run' = [run EXCEPT
                !.pending = {s \in @ : s.id \notin done \cup failed},
                !.results = Given(@, [id \in done \cup failed |->
                    IF id \in done THEN StepResult("completed", FALSE, wave[id] = "true")
                    ELSE StepResult("failed", id.agent \in Skipping, f[id])]),
                !.todo = {s \in run.pending : s.id \in failed /\ s.id.agent \notin Skipping},
                !.held = CASE ended({"unknown"}) # {} -> "unknown"
                           [] ended({"asks"}) # {} -> "asks"
                           [] human # {} -> "human"
                           [] OTHER -> "no"]
        /\ pc' = "replan" /\ wave' = <<>>
        /\ UNCHANGED <<canvas, rowVars, node, faults, commands, history>>

\* A recovery step goes between a failed step and the pending ones that need it.
Recovery(s) ==
    [id |-> [s.id EXCEPT !.recovery = run.generation + 1], needs |-> {s.id}, asks |-> {}]

\* Mistake: the steps that need a failed one go on without its recovery.
RewireNothing(s, steps) == steps

Rewire(s, steps) ==
    {IF s.id \in d.needs /\ d \in run.pending
     THEN [d EXCEPT !.needs = (@ \ {s.id}) \cup {Recovery(s).id}]
     ELSE d : d \in steps}

Insert(s) ==
    [run EXCEPT
        !.generation = @ + 1,
        !.todo = @ \ {s},
        !.plan = Rewire(s, @) \cup {Recovery(s)},
        !.pending = {d \in Rewire(s, @) : d.id # Recovery(s).id} \cup {Recovery(s)}]

Replan ==
    /\ pc = "replan"
    /\ \/ (run.todo = {} \/ run.generation >= MaxReplans)
          /\ run' = [run EXCEPT !.todo = {}] /\ pc' = "checkpoint"
          /\ UNCHANGED <<plan, results, history>>
       \/ run.generation < MaxReplans /\ \E s \in run.todo :
            IF \E d \in run.pending : s.id \in d.needs
            THEN run' = Insert(s) /\ plan' = Insert(s).plan /\ Save /\ pc' = "emit"
            ELSE run' = [run EXCEPT !.todo = @ \ {s}] /\ UNCHANGED <<plan, results, history, pc>>
    /\ UNCHANGED <<canvas, status, approvals, paused, replans, wave, node, faults, commands>>

\* The plan.replanned event, from which the next run counts the recoveries.
EmitReplanned ==
    /\ pc = "emit"
    /\ replans' = replans + 1 /\ pc' = "replan"
    /\ UNCHANGED <<canvas, status, plan, results, approvals, paused, run, wave,
                   node, faults, commands, history>>

\* Mistake: a checkpoint without the results.
CheckpointPlan ==
    /\ pc = "checkpoint"
    /\ plan' = run.plan
    /\ pc' = IF run.held = "no" THEN "check" ELSE "rest"
    /\ UNCHANGED <<canvas, status, results, approvals, paused, replans, run, wave,
                   node, faults, commands, history>>

Checkpoint ==
    /\ pc = "checkpoint"
    /\ Save /\ plan' = run.plan
    /\ pc' = IF run.held = "no" THEN "check" ELSE "rest"
    /\ UNCHANGED <<canvas, status, approvals, paused, replans, run, wave, node,
                   faults, commands>>

\* The run stops for a review or a human; for an approval it throws what the
\* step threw and relies on the status the step has left.
Rest ==
    /\ pc = "rest"
    /\ IF run.held = "asks" THEN Fail ELSE status' = "waiting" /\ Return
    /\ UNCHANGED <<canvas, plan, results, approvals, paused, replans, node,
                   faults, commands, history>>

Crash ==
    /\ pc # "idle" /\ Fault
    /\ Return
    /\ uncounted' = (uncounted \/ pc = "emit")
    /\ halfway' = (halfway \/ \E s \in run.todo : s.id \in Failures(results))
    /\ UNCHANGED <<canvas, rowVars, node, commands, launched, shaken,
                   byHand, compiled>>

-----------------------------------------------------------------------------
(* Operators.                                                              *)

\* A request to pause or to resume a node, which acts on what it reads here: of
\* several results of the node the first, which may be an old failure.
NodeRead(kind, id) ==
    /\ node = NoNode /\ Command
    /\ id \in StepIds(plan)
    /\ IF kind = "pause"
       THEN /\ status \notin {"done", "failed"} /\ id \notin paused
            /\ id \in DOMAIN results =>
                 results[id].status # "completed" \/ id \in shaken
       ELSE id \in paused
    /\ node' = [kind |-> kind, id |-> id, status |-> status]
    /\ UNCHANGED <<canvas, rowVars, runVars, faults, history>>

\* The event, and pauseStep in the same process.
PauseAppend ==
    /\ node.kind = "pause"
    /\ paused' = paused \cup {node.id}
    /\ wave' = IF pc = "executing" /\ node.id \in DOMAIN wave /\ wave[node.id] = "runs"
               THEN [wave EXCEPT ![node.id] = "stopping"] ELSE wave
    /\ node' = IF node.status = "running" THEN NoNode ELSE [node EXCEPT !.kind = "paused"]
    /\ UNCHANGED <<canvas, status, plan, results, approvals, replans, pc, run,
                   faults, commands, history>>

PauseWrite ==
    /\ node.kind = "paused"
    /\ status' = "paused" /\ node' = NoNode
    /\ UNCHANGED <<canvas, plan, results, approvals, paused, replans, runVars,
                   faults, commands, history>>

ResumeWrite ==
    /\ node.kind = "resume"
    /\ status' = IF node.status = "paused" THEN "queued" ELSE status
    /\ node' = [node EXCEPT !.kind = "resumed"]
    /\ UNCHANGED <<canvas, plan, results, approvals, paused, replans, runVars,
                   faults, commands, history>>

ResumeAppend ==
    /\ node.kind = "resumed"
    /\ paused' = paused \ {node.id} /\ node' = NoNode
    /\ UNCHANGED <<canvas, status, plan, results, approvals, replans, runVars,
                   faults, commands, history>>

ResumeTask ==
    /\ Command
    /\ status = "paused" /\ approvals = {}
    /\ status' = "queued"
    /\ UNCHANGED <<canvas, plan, results, approvals, paused, replans, runVars,
                   node, faults, history>>

ApproveTool(id) ==
    /\ Command
    /\ status \in {"waiting", "paused"} /\ id \in approvals
    /\ approvals' = approvals \ {id}
    /\ status' = IF approvals' = {} THEN "queued" ELSE "waiting"
    /\ UNCHANGED <<canvas, plan, results, paused, replans, runVars, node,
                   faults, history>>

\* A node is retried, skipped or completed by hand: what depended on it is done
\* again.  (A request that meets a run aborts it first: TaskRuntime.)
ControlNode(id) ==
    /\ Command
    /\ pc = "idle" /\ id \in StepIds(plan)
    /\ LET affected == DescendantsOf(plan, id)
           kept == [d \in DOMAIN results \ affected |-> results[d]]
       IN  /\ launched' = launched \ affected
           /\ \/ results' = kept /\ UNCHANGED byHand
              \/ \E f \in Answers({id}), skipped \in BOOLEAN :
                   results' = Given(kept, [d \in {id} |-> StepResult("completed", skipped, f[id])])
                 /\ byHand' = TRUE
    /\ status' = "queued"
    /\ UNCHANGED <<canvas, plan, approvals, paused, replans, runVars, node,
                   faults, shaken, uncounted, halfway, compiled>>

-----------------------------------------------------------------------------
RunStep ==
    \/ Claim \/ Begin \/ Start \/ Check \/ Select \/ SaveSkips \/ Launch
    \/ (\E id \in DOMAIN wave : StepCompletes(id) \/ StepStops(id))
    \/ Settle \/ Replan \/ EmitReplanned \/ Checkpoint \/ Rest

NodeStep == PauseAppend \/ PauseWrite \/ ResumeWrite \/ ResumeAppend

Next ==
    \/ RunStep \/ NodeStep \/ Crash
    \/ \E id \in DOMAIN wave : StepFails(id) \/ StepAsks(id)
    \/ \E id \in StepIds(plan) :
         (\E kind \in {"pause", "resume"} : NodeRead(kind, id)) \/ ControlNode(id)
    \/ ResumeTask \/ \E id \in approvals : ApproveTool(id)

\* A coordinator claims what is due, a run goes on, as do requests that were
\* begun; steps end, since model and tool calls time out.
Spec == Init /\ [][Next]_vars
FairSpec == Spec /\ WF_vars(RunStep) /\ WF_vars(NodeStep)

-----------------------------------------------------------------------------
(* Properties.                                                             *)

StepId == [agent : Agents, round : {s.id.round : s \in compiled},
           recovery : 0 .. MaxReplans]

TypeOK ==
    /\ canvas \in Canvases
    /\ status \in Status
    /\ plan \cup run.pending \cup run.plan \cup run.todo \subseteq
         [id : StepId, needs : SUBSET StepIds(plan),
          asks : UNION {SUBSET s.asks : s \in compiled}]
    /\ \A r \in {results, run.results} : \A id \in DOMAIN r : r[id] \in Result
    /\ approvals \cup paused \cup DOMAIN wave \subseteq StepIds(plan)
    /\ replans \in 0 .. MaxReplans
    /\ pc \in PC
    /\ node \in {NoNode} \cup [kind : {"pause", "paused", "resume", "resumed"},
                                id : StepIds(plan), status : Status]
    /\ \A id \in DOMAIN wave : wave[id] \in StepState

\* Whatever is in the row can be executed: a canvas that compiles gives an
\* acyclic plan, and so do the recoveries added to it, unless a crash keeps one
\* of them from being counted (the next run then gives its id to another step).
PlanStaysExecutable == ~uncounted => Analyzes(plan)

\* "t" is in an earlier round of a loop "s" lies in as well, and in the same
\* round of the loops around it.
EarlierRound(t, s) ==
    \E l \in DOMAIN s.round \cap DOMAIN t.round :
        /\ t.round[l] < s.round[l]
        /\ \A m \in (DOMAIN s.round \cap DOMAIN t.round) \ {l} :
             t.round[m] = s.round[m] \/ ~(Members(canvas, l) \subseteq Members(canvas, m))

\* The rounds of a loop follow one another: no step of a round begins before all
\* steps of the rounds before it have a checkpoint, whatever failed, was retried
\* or crashed in between, in nested loops as well, as long as no operator has
\* completed or skipped a node.
RoundsInOrder ==
    ~byHand => \A s \in launched, t \in StepIds(plan) :
        t.recovery = 0 /\ s.recovery = 0 /\ t \notin DOMAIN results => ~EarlierRound(t, s)

\* A decision is taken once: of two steps that want opposite answers from the
\* same step one at most is begun, although a run that was interrupted decides
\* again; only a source that failed may be executed, and so answer, twice.
BranchesExclude ==
    \A s, t \in plan : \A a \in s.asks, b \in t.asks :
        a.source = b.source /\ a.wants # b.wants /\ a.source \notin shaken =>
            ~({s.id, t.id} \subseteq launched)

\* The steps that needed a failed one wait for its recovery: none of them is
\* executed before some recovery in the plan has a result, unless an operator has
\* completed or skipped a node, or a crash came when only some of the failures of
\* a wave had been recovered: a dependent that has a result is not rewired.
RecoveryComesFirst ==
    pc = "executing" /\ ~byHand /\ ~halfway =>
        \A s \in compiled : s.id \in DOMAIN wave => \A f \in s.needs :
            LET recoveries == {r \in StepIds(plan) \ {f} : [r EXCEPT !.recovery = 0] = f}
            IN  f \in Failures(results) /\ recoveries # {} =>
                    recoveries \cap DOMAIN results # {}

-----------------------------------------------------------------------------
(* Why they hold: what every step preserves.                               *)

AtWork == pc \notin {"idle", "begin", "start"}
Origin(id) == [id EXCEPT !.recovery = 0]

\* A run has the plan of the row, and the results of the row between waves.
RunInv ==
    /\ run = [plan |-> run.plan, results |-> run.results, pending |-> run.pending,
              generation |-> run.generation, todo |-> run.todo, held |-> run.held]
    /\ IF AtWork THEN run.plan = plan
       ELSE [run EXCEPT !.generation = 0] = NoRun
    /\ run.pending \subseteq run.plan
    /\ pc \in {"check", "select"} => run.results = results
    /\ DOMAIN results \cup DOMAIN run.results \cup launched \subseteq StepIds(plan)

\* A step is launched when all it needs have a result in the row; failures that
\* are to be recovered have theirs in the run.
WaveInv ==
    /\ pc \in {"launch", "executing"} => \A id \in DOMAIN wave :
         \E s \in run.pending : s.id = id /\ s.needs \subseteq DOMAIN results
    /\ pc \notin {"launch", "executing"} => wave = <<>>
    /\ run.todo # {} => pc \in {"replan", "emit"}
    /\ StepIds(run.todo) \subseteq StepIds(plan) \cap Failures(run.results)

\* Recoveries have numbers up to the number that was counted.
CountInv ==
    LET made == IF pc = "emit" THEN replans + 1 ELSE replans
    IN  /\ made <= MaxReplans
        /\ run.generation = IF pc \in {"idle", "begin"} THEN 0 ELSE made
        /\ ~uncounted => Analyzes(plan) /\ \A id \in StepIds(plan) : id.recovery <= made

\* The plan is that of the compiled steps: a step needs what it needed, or a
\* recovery of that instead, and whatever is in the way of a step is still so.
PlanInv ==
    /\ Analyzes(compiled) /\ \A s \in compiled : s.id.recovery = 0
    /\ {id \in StepIds(plan) : id.recovery = 0} = StepIds(compiled)
    /\ \A id \in StepIds(plan) : Origin(id) \in StepIds(plan)
    /\ \A s, t \in plan : s.id = t.id /\ s.id.recovery = 0 => s = t
    /\ \A s \in plan : IF s.id.recovery = 0
         THEN \A t \in compiled : t.id = s.id =>
                /\ s.asks = t.asks
                /\ {n \in s.needs : n.recovery = 0} \subseteq t.needs
                /\ t.needs \subseteq {Origin(n) : n \in s.needs}
         ELSE /\ s.asks = {} /\ s.needs # {}
              /\ \A n \in s.needs : Origin(n) = Origin(s.id)
    /\ \A X \in SUBSET StepIds(plan) : Carried(plan, X) =>
         /\ Carried(compiled, X)
         /\ \A id \in StepIds(plan) : Origin(id) \in X => id \in X

\* The results a run adds are those of steps that were pending, or failed, and
\* what it was given and does not execute stays as it was.
ResultInv ==
    /\ Failures(results) \subseteq shaken
    /\ AtWork => \A id \in DOMAIN results \ shaken : id.recovery = 0 =>
         id \in DOMAIN run.results /\ run.results[id] = results[id]
    /\ AtWork => DOMAIN results \subseteq DOMAIN run.results
    /\ AtWork => \A s \in plan : s.id.recovery = 0 =>
         s \in run.pending \/ s.id \in DOMAIN run.results
    /\ \A id \in StepIds(run.pending) \cap DOMAIN run.results : id.recovery = 0 =>
         /\ id \in DOMAIN results /\ run.results[id] = results[id]
         /\ results[id].status = "failed" /\ ~results[id].skipped

\* What was begun, or is about to be, was chosen by an answer that is in the row.
BranchInv ==
    \A s \in plan : \A a \in s.asks :
        /\ a.source.recovery = 0
        /\ a.source \in s.needs \cup shaken
        /\ s.id \in launched \cup (IF pc = "launch" THEN DOMAIN wave ELSE {})
           /\ a.source \notin shaken =>
             a.source \in DOMAIN results /\ results[a.source].answer = a.wants

\* All that a compiled step needed has a result in "done", and so has what a
\* recovery recovers.
Grounded(id, done) ==
    /\ Origin(id) \in done \cup {id}
    /\ \A s \in compiled : s.id = id => s.needs \subseteq done

OrderInv ==
    ~byHand =>
        /\ \A id \in DOMAIN results \cup launched : Grounded(id, DOMAIN results)
        /\ \A id \in DOMAIN run.results : Grounded(id, DOMAIN run.results)

\* Some compiled step still waits for "f" itself.
Awaited(f) == \E s \in plan : s.id.recovery = 0 /\ f \in s.needs
Lost(rs) == {f \in Failures(rs) : f.recovery = 0 /\ ~rs[f].skipped}

\* As long as there may be recoveries, nothing waits for a failed step but in
\* the wave in which it failed, when all that waits is pending.
RecoveryInv ==
    ~byHand /\ ~halfway =>
        /\ \A id \in StepIds(plan) : id.recovery # 0 => ~Awaited(Origin(id))
        /\ replans < MaxReplans =>
             /\ \A f \in Lost(results) \cup Lost(run.results) :
                  f \in StepIds(run.todo) \/ ~Awaited(f)
             /\ \A f \in StepIds(run.todo), s \in plan :
                  f.recovery = 0 /\ s.id.recovery = 0 /\ f \in s.needs =>
                      s \in run.pending

WavesInv ==
    /\ TypeOK /\ RunInv /\ WaveInv /\ CountInv /\ PlanInv /\ ResultInv
    /\ BranchInv /\ OrderInv /\ RecoveryInv

-----------------------------------------------------------------------------
\* A workflow that has been queued ends or rests for somebody: the loop neither
\* spins on steps that cannot be decided nor skips the same step forever.  (It
\* does spin when an operator retries a step that was recovered and completes
\* its recovery by hand: the branches then wait for an answer that only comes if
\* the step is ahead of them in the plan.)
LoopEnds == status \in {"queued", "running"} ~> status \in Resting \/ byHand

\* "The outer run exits through the durable waiting_for_human state" when a tool
\* call needs approval: it does not fail the task instead.
HeldRunRests == [][run.held = "asks" => status' # "failed"]_vars
=============================================================================
