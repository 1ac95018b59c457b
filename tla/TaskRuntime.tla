---------------------------- MODULE TaskRuntime ----------------------------
(***************************************************************************)
(* The life of one task: workers claim it under a lease (coordinator.ts),  *)
(* plan it, execute its steps in waves, have the result reviewed and       *)
(* complete it (orchestrator.ts, run), while operators pause, resume,      *)
(* approve, reject, replan, retry, complete, replace and cancel through    *)
(* the API (taskApi.ts).  They share one row of the tasks table and        *)
(* nothing else: a worker keeps its own copy of the plan and of the        *)
(* results and writes it back without looking at the row again.            *)
(*                                                                         *)
(* Every store operation is one statement, so it is one action.  run()     *)
(* awaits between its reads and its writes, and an API request between the *)
(* read its decision is based on and its write, so each is one action per  *)
(* await.  The revision column is not a counter here: a run or a request   *)
(* is "fresh" until somebody else's updateTask.                            *)
(***************************************************************************)
EXTENDS Naturals, FiniteSets

CONSTANTS
    Step,            \* the steps of a plan (every plan has the same ids)
    DependsOn,       \* Step -> the steps it waits for
    Worker,          \* processes with a coordinator
    NoWorker,        \* lease_owner IS NULL
    PlanApproval,    \* policy.requirePlanApproval
    ReviewApproval,  \* requireReviewApproval
    VerifyDelivery,  \* shouldVerifyDelivery: the last writes check the revision
    Controls,        \* the kinds of request operators make
    MaxPlans,        \* bound: plans made
    MaxRequests,     \* bound: requests made
    MaxFaults        \* bound: crashes, lost leases and errors

ASSUME TaskAssumption ==
    /\ DependsOn \in [Step -> SUBSET Step]
    /\ NoWorker \notin Worker
    /\ {PlanApproval, ReviewApproval, VerifyDelivery} \subseteq BOOLEAN
    /\ {MaxPlans, MaxRequests, MaxFaults} \subseteq Nat

VARIABLES
    task,      \* the row: status, plan, approval, results, review, cancel
    owner,     \* lease_owner
    live,      \* lease_expires_at is in the future
    runs,      \* Worker -> its call of Orchestrator.run
    requests,  \* API requests between their read and their write
    plans,     \* number of plans made so far; they are numbered from 1
    approved,  \* plans somebody approved: policy, operator (history)
    replaced,  \* plans made by replacing a step's agent (history)
    rejected,  \* plans an operator rejected, and plans made of them (history)
    asked,     \* number of requests made
    faults     \* number of faults so far

vars == <<task, owner, live, runs, requests, plans, approved, replaced, rejected,
          asked, faults>>

Status == {"queued", "planning", "running", "reviewing", "awaiting_approval",
           "waiting_for_human", "paused", "completed", "failed", "cancelled"}
Terminal == {"completed", "failed", "cancelled"}
Result == {"none", "done", "failed", "manual"}
Approval == {"none", "pending", "approved", "rejected"}
Verdict == {"none", "approved", "declined"}
Row == [status : Status, plan : Nat, approval : Approval,
        results : [Step -> Result], review : Verdict, cancel : BOOLEAN]

PC == {"idle", "claimed", "begin", "plan", "store", "park", "go", "loop",
       "ready", "wave", "save", "hold", "verdict", "judge", "correct", "repair",
       "again", "judged", "gate", "final", "deliver", "last", "complete",
       "catch", "cancelling", "failing", "release"}
\* From here a run looks at the row before it next writes the status ...
HeedsCancel == {"loop", "ready", "wave", "save", "judge", "correct", "repair", "again",
                "judged", "final", "deliver", "last"}
\* ... or writes it under the revision it has seen, which a pause changes.
HeedsPause == HeedsCancel \cup (IF VerifyDelivery THEN {"complete"} ELSE {})
\* One call of run(): its copy of the plan, the results and the review, the
\* steps it has still to settle ("pending") and those of its wave, whether its
\* signal is aborted, whether a step asked for a person, and (history) whether
\* others have written the row since it read the results, whether an operator
\* paused or cancelled the task while the run heeded it and nobody lifted that,
\* and the waves it started although the task was cancelled.
Run == [pc : PC, plan : Nat, approval : Approval, results : [Step -> Result],
        todo : SUBSET Step, wave : SUBSET Step, review : Verdict, aborted : BOOLEAN, held : BOOLEAN,
        fresh : BOOLEAN, disturbed : BOOLEAN, told : BOOLEAN, late : 0..2]

Kind == {"pause", "resume", "approve", "reject", "approve-review",
         "reject-review", "replan", "reserved", "retry", "manual", "replace",
         "paused"}
\* One API request: what it keeps of the row it read and will write, and whether
\* it has still to abort the run.
Request == [kind : Kind, approval : Approval, results : [Step -> Result],
            fresh : BOOLEAN, abort : BOOLEAN]

NoResults == [s \in Step |-> "none"]
NoRun == [pc |-> "idle", plan |-> 0, approval |-> "none", results |-> NoResults,
          todo |-> {}, wave |-> {}, review |-> "none", aborted |-> FALSE, held |-> FALSE, fresh |-> FALSE,
          disturbed |-> FALSE, told |-> FALSE, late |-> 0]

TypeOK ==
    /\ task \in Row
    /\ owner \in Worker \cup {NoWorker}
    /\ live \in BOOLEAN
    /\ runs \in [Worker -> Run]
    /\ requests \subseteq Request
    /\ plans \in Nat /\ asked \in Nat /\ faults \in Nat
    /\ {approved, replaced, rejected} \subseteq SUBSET Nat

Init ==
    /\ task = [status |-> "queued", plan |-> 0, approval |-> "none",
               results |-> NoResults, review |-> "none", cancel |-> FALSE]
    /\ owner = NoWorker
    /\ live = FALSE
    /\ runs = [w \in Worker |-> NoRun]
    /\ requests = {}
    /\ plans = 0 /\ asked = 0 /\ faults = 0
    /\ approved = {} /\ replaced = {} /\ rejected = {}

-----------------------------------------------------------------------------
(* The row.                                                                *)

\* updateTask increments the revision: nobody else has seen this row.
Stale == {[q EXCEPT !.fresh = FALSE] : q \in requests}
Overtaken(w, new) ==
    IF runs[w].pc = "idle" THEN NoRun
    ELSE [runs[w] EXCEPT !.fresh = FALSE, !.disturbed = TRUE,
                         !.told = @ /\ (new.status = "paused" \/ new.cancel)]

\* A run writes the row and goes on with the row returned.
Write(w, new, next) ==
    /\ task' = new
    /\ runs' = [v \in Worker |->
                  IF v = w THEN [next EXCEPT !.fresh = TRUE] ELSE Overtaken(v, new)]
    /\ requests' = Stale

Goto(w, pc) ==
    /\ runs' = [runs EXCEPT ![w].pc = pc]
    /\ UNCHANGED <<task, requests>>

\* run() is left by an exception or a return: what it knew is gone.
Left(w, pc) ==
    [NoRun EXCEPT !.pc = pc, !.aborted = runs[w].aborted, !.late = runs[w].late]
Leave(w, pc) ==
    /\ runs' = [runs EXCEPT ![w] = Left(w, pc)]
    /\ UNCHANGED <<task, requests>>

leaseVars == <<owner, live>>
bounds == <<asked, faults>>
history == <<plans, approved, replaced, rejected>>

\* Mistake: for a cancellation only the signal is looked at.
ActiveBySignal(w) == ~runs[w].aborted /\ task.status # "paused"

\* assertActive: the signal, then the row.
Active(w) == ~runs[w].aborted /\ ~task.cancel /\ task.status # "paused"

\* Mistake: an expired lease stays taken.
ClaimableWhenReleased ==
    /\ task.status \in {"queued", "planning", "running", "reviewing"}
    /\ ~task.cancel
    /\ owner = NoWorker

Claimable ==
    /\ task.status \in {"queued", "planning", "running", "reviewing"}
    /\ ~task.cancel
    /\ owner = NoWorker \/ ~live

\* Mistake: the checkpoint is not looked at.
PendingAll(results) == {s \in Step : results[s] \in Result}

\* What a run has to do, given the results it read.
Pending(results) == {s \in Step : results[s] \in {"none", "failed"}}

\* Steps whose dependencies have a result, good or bad.
Ready(r) == {s \in r.todo : \A d \in DependsOn[s] : r.results[d] # "none"}

-----------------------------------------------------------------------------
(* The coordinator.                                                        *)

Claim(w) ==
    /\ runs[w].pc = "idle"
    /\ Claimable
    /\ owner' = w
    /\ live' = TRUE
    /\ Goto(w, "claimed")
    /\ UNCHANGED <<history, bounds>>

\* The heartbeat: a lease nobody has taken is extended, expired or not.
Renew(w) ==
    /\ runs[w].pc # "idle" /\ ~runs[w].aborted
    /\ IF owner = w
       THEN ~live /\ live' = TRUE /\ UNCHANGED runs
       ELSE runs' = [runs EXCEPT ![w].aborted = TRUE] /\ UNCHANGED live
    /\ UNCHANGED <<task, requests, owner, history, bounds>>

\* run() has returned or thrown.
Release(w) ==
    /\ runs[w].pc = "release"
    /\ runs' = [runs EXCEPT ![w] = NoRun]
    /\ IF owner = w THEN owner' = NoWorker /\ live' = FALSE
                    ELSE UNCHANGED leaseVars
    /\ UNCHANGED <<task, requests, history, bounds>>

Fault == faults < MaxFaults /\ faults' = faults + 1

\* The process dies; its lease stays until it expires.
Crash(w) ==
    /\ runs[w].pc # "idle"
    /\ runs' = [runs EXCEPT ![w] = NoRun]
    /\ Fault
    /\ UNCHANGED <<task, requests, owner, live, history, asked>>

\* The lease expires: always when its process is dead, by a fault (a stalled
\* process, a partition) when it is not.
Expire ==
    /\ live
    /\ live' = FALSE
    /\ IF runs[owner].pc = "idle" THEN UNCHANGED faults ELSE Fault
    /\ UNCHANGED <<task, runs, requests, owner, history, asked>>

-----------------------------------------------------------------------------
(* Orchestrator.run, one action per await.                                 *)

Check(w, from, to) ==
    /\ runs[w].pc = from
    /\ IF Active(w) THEN Goto(w, to) ELSE Leave(w, "catch")
    /\ UNCHANGED <<leaseVars, history, bounds>>

\* Mistake: a rejected plan is not held back.
BeginIgnoringRejection(w) ==
    /\ runs[w].pc = "begin"
    /\ Write(w, [task EXCEPT !.status = "planning"],
             [runs[w] EXCEPT !.plan = task.plan, !.approval = task.approval,
                !.review = task.review,
                !.pc = CASE task.plan = 0 -> "plan"
                         [] task.approval = "pending" -> "park"
                         [] OTHER -> "go"])
    /\ UNCHANGED <<leaseVars, history, bounds>>

\* The row goes to "planning", and the plan and review it has are read.
Begin(w) ==
    /\ runs[w].pc = "begin"
    /\ Write(w, [task EXCEPT !.status = "planning"],
             [runs[w] EXCEPT !.plan = task.plan, !.approval = task.approval,
                !.review = task.review,
                !.pc = CASE task.plan = 0 -> "plan"
                         [] task.approval \in {"pending", "rejected"} -> "park"
                         [] OTHER -> "go"])
    /\ UNCHANGED <<leaseVars, history, bounds>>

\* The planner's plan (or the fallback) is stored, approved by policy or not.
StorePlan(w) ==
    /\ runs[w].pc = "store"
    /\ plans < MaxPlans
    /\ LET a == IF PlanApproval THEN "pending" ELSE "approved" IN
         Write(w, [task EXCEPT !.plan = plans + 1, !.approval = a],
               [runs[w] EXCEPT !.plan = plans + 1, !.approval = a,
                  !.review = task.review,
                  !.pc = IF PlanApproval THEN "park" ELSE "go"])
    /\ plans' = plans + 1
    /\ approved' = IF PlanApproval THEN approved ELSE approved \cup {plans + 1}
    /\ UNCHANGED <<leaseVars, replaced, rejected, bounds>>

Park(w) ==
    /\ runs[w].pc = "park"
    /\ Write(w, [task EXCEPT !.status = "awaiting_approval"],
             Left(w, "release"))
    /\ UNCHANGED <<leaseVars, history, bounds>>

\* The row goes to "running", and the checkpoint it has is read.
Go(w) ==
    /\ runs[w].pc = "go"
    /\ Write(w, [task EXCEPT !.status = "running"],
             [runs[w] EXCEPT !.results = task.results, !.todo = Pending(task.results),
                !.review = task.review, !.disturbed = FALSE, !.pc = "loop"])
    /\ UNCHANGED <<leaseVars, history, bounds>>

\* A loop iteration, or the end of the loop, starts with assertActive.
Loop(w) == Check(w, "loop", IF runs[w].todo = {} THEN "verdict" ELSE "ready")

\* The wave is started some awaits after the check: any of the ready steps, as
\* concurrency, write scopes and conditions have it.
StartWave(w) ==
    /\ runs[w].pc = "ready"
    /\ \E wave \in SUBSET Ready(runs[w]) :
         /\ wave # {}
         /\ runs' = [runs EXCEPT ![w].pc = "wave", ![w].wave = wave,
                       ![w].late = IF task.cancel /\ @ < 2 THEN @ + 1 ELSE @]
    /\ UNCHANGED <<task, requests, leaseVars, history, bounds>>

\* Promise.allSettled over the wave.  A step is done or has failed; it remains
\* to be done when the run was aborted or the step asks for a person.
Settle(w) ==
    LET r == runs[w] IN
    /\ r.pc = "wave"
    /\ \E out \in [r.wave -> {"done", "failed", "none"}] :
         LET settled == {s \in r.wave : out[s] # "none"} IN
         /\ r.aborted => \A s \in settled : out[s] = "done"
         /\ runs' = [runs EXCEPT ![w] =
              [r EXCEPT !.results = [s \in Step |-> IF s \in settled THEN out[s] ELSE @[s]],
                        !.todo = @ \ settled, !.wave = {}, !.pc = "save",
                        !.held = ~r.aborted /\ settled # r.wave]]
    /\ UNCHANGED <<task, requests, leaseVars, history, bounds>>

\* The checkpoint: results and plan are written back, whatever the row holds.
Save(w) ==
    /\ runs[w].pc = "save"
    /\ Write(w, [task EXCEPT !.results = runs[w].results, !.plan = runs[w].plan,
                             !.approval = runs[w].approval],
             [runs[w] EXCEPT !.review = task.review,
                !.pc = IF runs[w].held THEN "hold" ELSE "loop"])
    /\ UNCHANGED <<leaseVars, history, bounds>>

\* A step asked for a person: the task waits, and run() throws.
Hold(w) ==
    /\ runs[w].pc = "hold"
    /\ Write(w, [task EXCEPT !.status = "waiting_for_human", !.results = runs[w].results],
             Left(w, "catch"))
    /\ UNCHANGED <<leaseVars, history, bounds>>

Some(w, result) == \E s \in Step : runs[w].results[s] = result

\* All steps have settled.  Nothing completed is a failure of the task; a review
\* approved before is kept.  (A step completed by hand counts, one skipped by
\* hand does not: with nothing but "manual" either may happen.)
Verdicts(w) ==
    /\ runs[w].pc = "verdict"
    /\ \/ Some(w, "failed") /\ ~Some(w, "done") /\ Leave(w, "catch")
       \/ /\ Some(w, "done") \/ Some(w, "manual") \/ ~Some(w, "failed")
          /\ IF runs[w].review = "approved" THEN Goto(w, "judged")
             ELSE Write(w, [task EXCEPT !.status = "reviewing"],
                        [runs[w] EXCEPT !.pc = "judge"])
    /\ UNCHANGED <<leaseVars, history, bounds>>

\* The reviewer's model call; an abort rejects it.  A result declined may be
\* corrected and reviewed again, once by default.
Judge(w) ==
    /\ runs[w].pc \in {"judge", "again"}
    /\ IF runs[w].aborted THEN Leave(w, "catch")
       ELSE \E v \in {"approved", "declined"}, pc \in {"judged", "correct"} :
              /\ pc = "correct" => v = "declined" /\ runs[w].pc = "judge"
              /\ runs' = [runs EXCEPT ![w].review = v, ![w].pc = pc]
              /\ UNCHANGED <<task, requests>>
    /\ UNCHANGED <<leaseVars, history, bounds>>

\* A correction round: the plan with the correction's step is stored, the step
\* is executed, and the results are stored, whatever the row holds.
Correct(w) ==
    /\ runs[w].pc = "correct"
    /\ Write(w, [task EXCEPT !.results = runs[w].results, !.plan = runs[w].plan,
                             !.approval = runs[w].approval],
             [runs[w] EXCEPT !.pc = "repair"])
    /\ UNCHANGED <<leaseVars, history, bounds>>

Repair(w) ==
    /\ runs[w].pc = "repair"
    /\ IF runs[w].aborted THEN Leave(w, "catch")
       ELSE Write(w, [task EXCEPT !.results = runs[w].results],
                  [runs[w] EXCEPT !.pc = "again"])
    /\ UNCHANGED <<leaseVars, history, bounds>>

\* Mistake: the last writes do not look at the revision.
MaySaveAnyway(w) == TRUE

\* Deliveries that are verified are written under the revision last seen.
MaySave(w) == VerifyDelivery => runs[w].fresh

\* The review is stored; declined, the task waits where reviews need approval.
Judged(w) ==
    /\ runs[w].pc = "judged"
    /\ IF MaySave(w)
       THEN Write(w, [task EXCEPT !.review = runs[w].review],
                  [runs[w] EXCEPT !.pc = IF runs[w].review = "declined" /\ ReviewApproval
                                         THEN "gate" ELSE "final"])
       ELSE Leave(w, "release")
    /\ UNCHANGED <<leaseVars, history, bounds>>

Gate(w) ==
    /\ runs[w].pc = "gate"
    /\ Write(w, [task EXCEPT !.status = "waiting_for_human", !.review = runs[w].review],
             Left(w, "release"))
    /\ UNCHANGED <<leaseVars, history, bounds>>

\* The delivery is verified: its draft and its receipt are stored, and the task
\* waits for a person when the receipt has gaps.  One that was verified, or that a
\* person approved, in an earlier run is not verified again.
Deliver(w) ==
    /\ runs[w].pc = "deliver"
    /\ \/ /\ VerifyDelivery => runs[w].review = "approved"
          /\ Goto(w, "last")
       \/ /\ VerifyDelivery /\ ~runs[w].fresh
          /\ Leave(w, "release")
       \/ /\ VerifyDelivery /\ runs[w].fresh
          /\ \/ Write(w, [task EXCEPT !.status = "reviewing", !.review = "approved"],
                      [runs[w] EXCEPT !.review = "approved", !.pc = "last"])
             \/ Write(w, [task EXCEPT !.status = "waiting_for_human", !.review = "declined"],
                      Left(w, "release"))
    /\ UNCHANGED <<leaseVars, history, bounds>>

Complete(w) ==
    /\ runs[w].pc = "complete"
    /\ IF MaySave(w)
       THEN Write(w, [task EXCEPT !.status = "completed", !.review = runs[w].review,
                        !.results = runs[w].results, !.plan = runs[w].plan,
                        !.approval = runs[w].approval],
                  Left(w, "release"))
       ELSE Leave(w, "release")
    /\ UNCHANGED <<leaseVars, history, bounds>>

\* The catch block reads the row, then decides.
Catch(w) ==
    /\ runs[w].pc = "catch"
    /\ Goto(w, CASE task.cancel -> "cancelling"
                 [] ~task.cancel /\ (runs[w].aborted \/ task.status \in {"paused", "waiting_for_human"}) -> "release"
                 [] OTHER -> "failing")
    /\ UNCHANGED <<leaseVars, history, bounds>>

Cancelling(w) ==
    /\ runs[w].pc = "cancelling"
    /\ Write(w, [task EXCEPT !.status = "cancelled", !.cancel = TRUE],
             Left(w, "release"))
    /\ UNCHANGED <<leaseVars, history, bounds>>

Failing(w) ==
    /\ runs[w].pc = "failing"
    /\ Write(w, [task EXCEPT !.status = "failed"], Left(w, "release"))
    /\ UNCHANGED <<leaseVars, history, bounds>>

\* A store or model call rejects, or the task's time is up.
Throw(w) ==
    /\ runs[w].pc \notin {"idle", "claimed", "release"}
    /\ Leave(w, IF runs[w].pc \in {"catch", "cancelling", "failing"} THEN "release"
                ELSE "catch")
    /\ Fault
    /\ UNCHANGED <<leaseVars, history, asked>>

RunStep(w) ==
    \/ Check(w, "claimed", "begin") \/ Begin(w)
    \/ Check(w, "plan", "store") \/ StorePlan(w) \/ Park(w) \/ Go(w)
    \/ Loop(w) \/ StartWave(w) \/ Settle(w) \/ Save(w) \/ Hold(w)
    \/ Verdicts(w) \/ Judge(w) \/ Correct(w) \/ Repair(w) \/ Judged(w) \/ Gate(w)
    \/ Check(w, "final", "deliver") \/ Deliver(w)
    \/ Check(w, "last", "complete") \/ Complete(w)
    \/ Catch(w) \/ Cancelling(w) \/ Failing(w) \/ Release(w)

-----------------------------------------------------------------------------
(* Operators.                                                              *)

\* What a request asks of the row it read.
Admits(kind, r) ==
    CASE kind = "pause" -> r.status \notin Terminal \cup {"paused"}
      [] kind = "resume" -> /\ r.status = "paused"
                            /\ r.approval \notin {"pending", "rejected"}
                            /\ r.review # "declined"
      [] kind \in {"approve", "reject"} ->
            /\ r.status \in {"awaiting_approval", "paused"}
            /\ r.plan # 0 /\ r.approval # "approved"
      [] kind \in {"approve-review", "reject-review"} ->
            r.status \in {"waiting_for_human", "paused"} /\ r.review = "declined"
      [] kind \in {"retry", "manual", "replace"} -> r.plan # 0
      [] kind = "replan" -> TRUE
      [] OTHER -> FALSE

\* descendantsOf: a step and all that wait for it.
Descendants(s) ==
    {t \in Step : \A D \in SUBSET Step :
        (s \in D /\ \A u \in Step : DependsOn[u] \cap D # {} => u \in D) => t \in D}

Cleared(results, s) ==
    [t \in Step |-> IF t \in Descendants(s) THEN "none" ELSE results[t]]

\* The results a request will write, if it writes any.
Outcome(kind, results) ==
    CASE kind = "replan" -> {results, NoResults}
      [] kind \in {"retry", "replace"} -> {Cleared(results, s) : s \in Step}
      [] kind = "manual" -> {[Cleared(results, s) EXCEPT ![s] = "manual"] : s \in Step}
      [] OTHER -> {NoResults}

\* coordinator.abort reaches a run of the process that serves the request.
AbortSome(rs) ==
    \E w \in Worker \cup {NoWorker} :
        /\ w # NoWorker => rs[w].pc # "idle"
        /\ runs' = [v \in Worker |-> IF v = w THEN [rs[v] EXCEPT !.aborted = TRUE] ELSE rs[v]]

Busy == task.status \in {"planning", "running", "reviewing"}

\* A request reads the row and passes its guards.
Ask(kind) ==
    /\ kind \in Controls
    /\ asked < MaxRequests
    /\ Admits(kind, task)
    /\ \E results \in Outcome(kind, task.results) :
         requests' = requests \cup {[kind |-> kind, approval |-> task.approval,
                 results |-> results, fresh |-> TRUE,
                 abort |-> kind \in {"replan", "retry", "manual"} /\ Busy]}
    /\ asked' = asked + 1
    /\ UNCHANGED <<task, runs, leaseVars, history, faults>>

\* It aborts the run of a busy task before it writes the row, a pause after.
Abort(q) ==
    /\ q.abort
    /\ AbortSome(runs)
    /\ requests' = IF q.kind = "paused" THEN requests \ {q}
                   ELSE (requests \ {q}) \cup {[q EXCEPT !.abort = FALSE]}
    /\ UNCHANGED <<task, leaseVars, history, bounds>>

\* An operator's updateTask.
Touched(new) ==
    [w \in Worker |->
        [Overtaken(w, new) EXCEPT
            !.late = IF new.cancel THEN @ ELSE 0,
            !.told = @ \/ (new.status = "paused" /\ runs[w].pc \in HeedsPause)]]
Edit(q, new) ==
    /\ task' = new
    /\ requests' = {[p EXCEPT !.fresh = FALSE] : p \in requests \ {q}}

Refused(q) ==
    /\ q.kind \notin {"retry", "manual", "replace", "paused"}
    /\ ~q.fresh /\ ~q.abort
    /\ requests' = requests \ {q}
    /\ UNCHANGED <<task, runs, leaseVars, history, bounds>>

Accepts(q, kinds) == q.kind \in kinds /\ q.fresh /\ ~q.abort

AnswerPause(q) ==
    /\ Accepts(q, {"pause"})
    /\ task' = [task EXCEPT !.status = "paused"]
    /\ requests' = {[p EXCEPT !.fresh = FALSE] : p \in requests \ {q}}
                     \cup {[q EXCEPT !.kind = "paused", !.fresh = FALSE, !.abort = TRUE]}
    /\ runs' = Touched(task')
    /\ UNCHANGED <<leaseVars, history, bounds>>

AnswerResume(q) ==
    /\ Accepts(q, {"resume"})
    /\ Edit(q, [task EXCEPT !.status = "queued", !.cancel = FALSE])
    /\ runs' = Touched(task')
    /\ UNCHANGED <<leaseVars, history, bounds>>

AnswerApprove(q) ==
    /\ Accepts(q, {"approve"})
    /\ Edit(q, [task EXCEPT !.status = "queued", !.approval = "approved"])
    /\ runs' = Touched(task')
    /\ approved' = approved \cup {task.plan}
    /\ rejected' = rejected \ {task.plan}
    /\ UNCHANGED <<leaseVars, plans, replaced, bounds>>

AnswerReject(q) ==
    /\ Accepts(q, {"reject"})
    /\ Edit(q, [task EXCEPT !.status = "paused", !.approval = "rejected"])
    /\ runs' = Touched(task')
    /\ rejected' = rejected \cup {task.plan}
    /\ UNCHANGED <<leaseVars, plans, approved, replaced, bounds>>

AnswerReview(q) ==
    /\ Accepts(q, {"approve-review", "reject-review"})
    /\ IF q.kind = "approve-review"
       THEN Edit(q, [task EXCEPT !.status = "queued", !.review = "approved", !.cancel = FALSE])
       ELSE Edit(q, [task EXCEPT !.status = "paused", !.cancel = FALSE])
    /\ runs' = Touched(task')
    /\ UNCHANGED <<leaseVars, history, bounds>>

\* A replan first reserves the revision, to append its instruction ...
Reserve(q) ==
    /\ Accepts(q, {"replan"})
    /\ task' = task
    /\ requests' = {[p EXCEPT !.fresh = FALSE] : p \in requests \ {q}}
                     \cup {[q EXCEPT !.kind = "reserved"]}
    /\ runs' = Touched(task)
    /\ UNCHANGED <<leaseVars, history, bounds>>

\* ... and then discards the plan, and the results or not.
AnswerReplan(q) ==
    /\ Accepts(q, {"reserved"})
    /\ Edit(q, [status |-> "queued", plan |-> 0, approval |-> "none",
                results |-> q.results, review |-> "none", cancel |-> FALSE])
    /\ runs' = Touched(task')
    /\ UNCHANGED <<leaseVars, history, bounds>>

\* Node actions write what they computed from the row they read.
AnswerNode(q) ==
    /\ q.kind \in {"retry", "manual"} /\ ~q.abort
    /\ Edit(q, [task EXCEPT !.results = q.results, !.review = "none", !.cancel = FALSE,
          !.status = IF q.approval = "pending" THEN "awaiting_approval" ELSE "queued"])
    /\ runs' = Touched(task')
    /\ UNCHANGED <<leaseVars, history, bounds>>

\* Another agent for a step: a plan of its own, to be approved only when the
\* agent has more tools.
AnswerReplace(q) ==
    /\ q.kind = "replace"
    /\ plans < MaxPlans
    /\ plans' = plans + 1
    /\ \E riskier \in BOOLEAN :
         /\ Edit(q, [task EXCEPT !.plan = plans + 1, !.results = q.results, !.review = "none",
               !.approval = IF riskier THEN "pending" ELSE "approved",
               !.status = IF riskier THEN "awaiting_approval" ELSE "queued"])
         /\ replaced' = IF riskier THEN replaced ELSE replaced \cup {plans + 1}
         /\ approved' = IF ~riskier /\ q.approval = "approved"
                        THEN approved \cup {plans + 1} ELSE approved
    /\ rejected' = IF q.approval = "rejected" THEN rejected \cup {plans + 1} ELSE rejected
    /\ runs' = Touched(task')
    /\ UNCHANGED <<leaseVars, bounds>>

\* requestCancel: one statement, which does not touch the revision.
Cancel ==
    /\ "cancel" \in Controls
    /\ asked < MaxRequests
    /\ task.status \notin Terminal
    /\ task' = [task EXCEPT !.cancel = TRUE,
         !.status = IF @ \in {"queued", "awaiting_approval", "waiting_for_human", "paused"}
                    THEN "cancelled" ELSE @]
    /\ AbortSome([w \in Worker |-> [runs[w] EXCEPT !.told = @ \/ runs[w].pc \in HeedsCancel]])
    /\ asked' = asked + 1
    /\ UNCHANGED <<requests, leaseVars, history, faults>>

Answer(q) ==
    \/ Abort(q) \/ Refused(q) \/ AnswerPause(q) \/ AnswerResume(q) \/ AnswerApprove(q)
    \/ AnswerReject(q) \/ AnswerReview(q) \/ Reserve(q) \/ AnswerReplan(q)
    \/ AnswerNode(q) \/ AnswerReplace(q)

Next ==
    \/ \E w \in Worker : Claim(w) \/ Renew(w) \/ RunStep(w) \/ Throw(w) \/ Crash(w)
    \/ Expire
    \/ \E kind \in Kind : Ask(kind)
    \/ \E q \in requests : Answer(q)
    \/ Cancel

Spec == Init /\ [][Next]_vars

(***************************************************************************)
(* Fairness.  A coordinator polls every second and a run goes on (its      *)
(* model calls time out); the lease of a dead process expires.  Operators, *)
(* heartbeats and faults just happen.                                      *)
(***************************************************************************)
FairSpec ==
    /\ Spec
    /\ \A w \in Worker : WF_vars(Claim(w)) /\ WF_vars(RunStep(w))
    /\ WF_vars(Expire /\ runs[owner].pc = "idle")

-----------------------------------------------------------------------------
(* Properties.                                                             *)

Executing(w) == runs[w].pc \in {"ready", "wave", "repair"}

\* A step is executed only under a plan that the policy or an operator approved,
\* or that an operator made by replacing an agent, however late the run is
\* (run: the gate; approve-plan, reject-plan, replan).
PlanGate ==
    \A w \in Worker : Executing(w) => runs[w].plan \in approved \cup replaced

\* docs/execution-loop.md: "A rejection does not silently execute the old plan",
\* nor a plan that is the rejected one but for one agent.
RejectedPlanNeverRuns == \A w \in Worker : Executing(w) => runs[w].plan \notin rejected

\* A cancelled task starts at most one more wave in each process that was
\* already past its check, and is not claimed again (assertActive).
CancelStopsSoon == \A w \in Worker : runs[w].late <= 1

\* A run that nobody has interfered with since it read the checkpoint does not
\* execute again what the checkpoint holds (run: pending; resuming a task).
CheckpointsAreReused ==
    \A w \in Worker : \A s \in runs[w].wave :
        ~runs[w].disturbed => task.results[s] \notin {"done", "manual"}

\* A pause or a cancellation that lands while a run executes steps, corrects its
\* result or has it reviewed and verified is not undone by that run completing
\* the task, although the run goes on writing the row, until somebody else lifts
\* it (run: assertActive and, where deliveries are verified, the revision of the
\* last writes).  Two claims below say what does not hold: a pause between a
\* check and the status write after it, and a cancellation after the last check,
\* may be lost.
StopsAreHeeded ==
    [][\A w \in Worker :
          /\ runs[w].told /\ runs[w].pc = "complete" /\ runs'[w].pc # "complete"
          /\ task' # task
          => task'.status # "completed"]_vars

\* A run never takes the task out of "paused" by itself: false, as the writes of
\* "planning", "running", "reviewing" and "waiting_for_human" look at nothing.
OnlyOthersResume ==
    [][\A w \in Worker :
          task.status = "paused" /\ runs'[w].pc # runs[w].pc => task'.status = "paused"]_vars

\* docs/final-delivery-verification-20260921.md: a pause or a cancellation during
\* verification is not overwritten by the old result.
CancelledIsNotCompleted == [][task.cancel => task'.status # "completed"]_vars

\* TODO.md: the old owner of a lease is isolated once another worker has it.
OldOwnerIsIsolated ==
    [][\A w \in Worker : owner \notin {w, NoWorker} /\ runs'[w] # runs[w] /\ task' # task
          => runs'[w].fresh = FALSE]_vars

\* A task nobody cancels comes to rest: it ends, or waits for an operator,
\* although processes crash and lose their leases (claimNextTask).
AtRest == task.status \in Terminal \cup {"awaiting_approval", "waiting_for_human", "paused"}
ComesToRest == []<>(AtRest \/ task.cancel)

-----------------------------------------------------------------------------
(* Why the safety properties hold.                                         *)

\* The points a run passes once it has a plan it may execute.
Planned == {"go", "loop", "ready", "wave", "save", "hold", "verdict", "judge", "correct",
            "repair", "again", "judged", "gate", "final", "deliver", "last", "complete"}

\* An approved plan of the row is one of the good plans, and no plan is without
\* a decision.
RowInv(row, good) ==
    /\ row.approval = "approved" => row.plan \in good
    /\ row.plan # 0 => row.approval # "none"

\* A run goes on with a good plan only, starts at most one wave once the task is
\* cancelled, has left to do what neither its results nor, undisturbed, the
\* row's hold; and while a stop it was told of stands, the row still shows it at
\* the next check, or the revision has changed.
RunInv(r, row, good) ==
    /\ r.pc \in Planned => r.approval = "approved" /\ r.plan \in good
    /\ r.late = 0 \/ (r.late = 1 /\ row.cancel /\ r.pc # "ready")
    /\ r.wave \subseteq r.todo
    /\ r.pc # "wave" => r.wave = {}
    /\ r.pc \in {"loop", "ready", "wave", "save"} =>
         \A s \in r.todo : /\ r.results[s] \in {"none", "failed"}
                           /\ r.disturbed \/ row.results[s] \in {"none", "failed"}
    /\ r.told => /\ r.pc \in HeedsPause \cup {"hold", "gate"}
                 /\ row.status = "paused" \/ row.cancel
                 /\ r.pc = "deliver" => ~r.fresh \/ row.cancel
                 /\ r.pc = "complete" => ~r.fresh

TaskInv ==
    /\ RowInv(task, approved \cup replaced)
    /\ \A w \in Worker : RunInv(runs[w], task, approved \cup replaced)
=============================================================================
