------------------------- MODULE TaskRuntimeProofs -------------------------
(***************************************************************************)
(* Type correctness of TaskRuntime, and why only approved plans are        *)
(* executed, a cancellation stops a run after one wave, checkpoints are    *)
(* reused and a run told of a pause does not complete the task: for any    *)
(* number of workers, steps, plans, requests and faults.                   *)
(***************************************************************************)
EXTENDS TaskRuntime, TLAPS

Good == approved \cup replaced

-----------------------------------------------------------------------------
(* What a single run may become.                                           *)

LEMMA NoRunTyped ==
    /\ NoRun \in Run /\ NoRun.pc = "idle" /\ NoRun.late = 0
    /\ NoRun.wave = {} /\ NoRun.todo = {} /\ NoRun.told = FALSE
BY DEF NoRun, Run, PC, Approval, Verdict, Result, NoResults

\* An invariant run stays so when more plans become good.
LEMMA RunInvGrows ==
    ASSUME NEW r \in Run, NEW row \in Row, NEW good, NEW more, good \subseteq more,
           RunInv(r, row, good)
    PROVE  RunInv(r, row, more)
BY DEF RunInv

\* A run that somebody else's write overtook.
LEMMA OvertakenRun ==
    ASSUME NEW r \in Run, NEW row \in Row, NEW good,
           NEW new \in Row, NEW more, good \subseteq more,
           row.cancel => new.cancel, RunInv(r, row, good), NEW t \in BOOLEAN,
           t => r.told /\ (new.status = "paused" \/ new.cancel)
    PROVE  LET n == [r EXCEPT !.fresh = FALSE, !.disturbed = TRUE, !.told = t]
           IN  n \in Run /\ RunInv(n, new, more)
<1> DEFINE n == [r EXCEPT !.fresh = FALSE, !.disturbed = TRUE, !.told = t]
<1>1. n \in Run
  BY DEF Run
<1>2. /\ n.pc = r.pc /\ n.plan = r.plan /\ n.approval = r.approval
      /\ n.results = r.results /\ n.todo = r.todo /\ n.wave = r.wave
      /\ n.late = r.late /\ n.fresh = FALSE /\ n.disturbed = TRUE /\ n.told = t
  BY DEF Run
<1> HIDE DEF n
<1>3. RunInv(n, new, more)
  BY <1>2 DEF RunInv
<1> QED
  BY <1>1, <1>3 DEF n

\* A run that is aborted.
LEMMA AbortedRun ==
    ASSUME NEW r \in Run, NEW row \in Row, NEW good, RunInv(r, row, good)
    PROVE  /\ [r EXCEPT !.aborted = TRUE] \in Run
           /\ RunInv([r EXCEPT !.aborted = TRUE], row, good)
<1> DEFINE n == [r EXCEPT !.aborted = TRUE]
<1>1. n \in Run
  BY DEF Run
<1>2. /\ n.pc = r.pc /\ n.plan = r.plan /\ n.approval = r.approval
      /\ n.results = r.results /\ n.todo = r.todo /\ n.wave = r.wave
      /\ n.late = r.late /\ n.fresh = r.fresh /\ n.disturbed = r.disturbed
      /\ n.told = r.told
  BY DEF Run
<1> HIDE DEF n
<1>3. RunInv(n, row, good)
  BY <1>2 DEF RunInv
<1> QED
  BY <1>1, <1>3 DEF n

\* The count of late waves starts anew when the cancellation is withdrawn, and a
\* heedful run is told of a pause.
LEMMA TouchedRun ==
    ASSUME NEW r \in Run, NEW new \in Row, NEW good, NEW more, good \subseteq more,
           NEW row \in Row, r.pc = "idle" \/ (~r.fresh /\ r.disturbed),
           r.told => new.status = "paused" \/ new.cancel, NEW tell \in BOOLEAN,
           tell => new.status = "paused" /\ r.pc \in HeedsPause,
           RunInv(r, row, good)
    PROVE  LET n == [r EXCEPT !.late = IF new.cancel THEN @ ELSE 0, !.told = @ \/ tell]
           IN  n \in Run /\ RunInv(n, new, more)
<1> DEFINE l == IF new.cancel THEN r.late ELSE 0
           t == r.told \/ tell
           n == [r EXCEPT !.late = l, !.told = t]
<1>0. l \in 0 .. 2 /\ t \in BOOLEAN
  BY DEF Run
<1>1. n \in Run
  <2> HIDE DEF l, t
  <2> QED
    BY <1>0 DEF Run
<1>2. /\ n.pc = r.pc /\ n.plan = r.plan /\ n.approval = r.approval
      /\ n.results = r.results /\ n.todo = r.todo /\ n.wave = r.wave
      /\ n.fresh = r.fresh /\ n.disturbed = r.disturbed
      /\ n.late = IF new.cancel THEN r.late ELSE 0
      /\ n.told = (r.told \/ tell)
  BY DEF Run
<1> HIDE DEF n
<1>3. RunInv(n, new, more)
  BY <1>2 DEF RunInv, Planned, HeedsPause, HeedsCancel
<1> QED
  BY <1>1, <1>3 DEF n

\* A run that is left keeps nothing but its signal and its late waves.
LEMMA LeftRun ==
    ASSUME NEW r \in Run, NEW row \in Row, NEW good, NEW new \in Row, NEW more,
           row.cancel => new.cancel, RunInv(r, row, good),
           NEW pc \in PC \ Planned
    PROVE  LET n == [NoRun EXCEPT !.pc = pc, !.aborted = r.aborted, !.late = r.late]
           IN  n \in Run /\ RunInv(n, new, more) /\ n.pc = pc
<1> DEFINE n == [NoRun EXCEPT !.pc = pc, !.aborted = r.aborted, !.late = r.late]
<1>1. n \in Run
  BY NoRunTyped DEF Run
<1>2. /\ n.pc = pc /\ n.todo = {} /\ n.wave = {} /\ n.late = r.late /\ n.told = FALSE
  BY NoRunTyped DEF Run
<1> HIDE DEF n
<1>3. RunInv(n, new, more)
  BY <1>2 DEF RunInv, Planned, HeedsPause, HeedsCancel
<1> QED
  BY <1>1, <1>2, <1>3 DEF n

\* A run that has just written the row is fresh.
LEMMA FreshRun ==
    ASSUME NEW r \in Run, NEW row \in Row, NEW good,
           r.pc \notin {"deliver", "complete"}, RunInv(r, row, good)
    PROVE  /\ [r EXCEPT !.fresh = TRUE] \in Run
           /\ RunInv([r EXCEPT !.fresh = TRUE], row, good)
<1> DEFINE n == [r EXCEPT !.fresh = TRUE]
<1>1. n \in Run
  BY DEF Run
<1>2. /\ n.pc = r.pc /\ n.plan = r.plan /\ n.approval = r.approval
      /\ n.results = r.results /\ n.todo = r.todo /\ n.wave = r.wave
      /\ n.late = r.late /\ n.disturbed = r.disturbed /\ n.told = r.told
  BY DEF Run
<1> HIDE DEF n
<1>3. RunInv(n, row, good)
  BY <1>2 DEF RunInv
<1> QED
  BY <1>1, <1>3 DEF n

\* A run that goes to another point and changes nothing else.
LEMMA GoneRun ==
    ASSUME NEW r \in Run, NEW pc \in PC
    PROVE  LET n == [r EXCEPT !.pc = pc]
           IN  /\ n \in Run /\ n.pc = pc /\ n.plan = r.plan /\ n.approval = r.approval
               /\ n.results = r.results /\ n.todo = r.todo /\ n.wave = r.wave
               /\ n.late = r.late /\ n.fresh = r.fresh /\ n.disturbed = r.disturbed
      /\ n.told = r.told
BY DEF Run

-----------------------------------------------------------------------------
(* What a step of one worker may do to the row and to the runs.            *)

StepOK(w) ==
    /\ task' \in Row /\ runs' \in [Worker -> Run] /\ requests' \subseteq Request
    /\ RowInv(task', Good')
    /\ RunInv(runs'[w], task', Good')
    /\ \A v \in Worker \ {w} : 
          runs'[v] = Overtaken(v, task') \/ (runs'[v] = runs[v] /\ task' = task)
    /\ task.cancel => task'.cancel
    /\ Good \subseteq Good'

LEMMA StaleTyped == requests \subseteq Request => Stale \subseteq Request
BY DEF Stale, Request

LEMMA OvertakenTyped ==
    ASSUME NEW v \in Worker, runs[v] \in Run, NEW new \in Row
    PROVE  Overtaken(v, new) \in Run
<1> DEFINE t == runs[v].told /\ (new.status = "paused" \/ new.cancel)
           n == [runs[v] EXCEPT !.fresh = FALSE, !.disturbed = TRUE, !.told = t]
<1>1. t \in BOOLEAN
  BY DEF Run
<1> HIDE DEF t
<1>2. n \in Run
  BY <1>1 DEF Run
<1> QED
  BY <1>2, NoRunTyped DEF Overtaken, t

\* The run is replaced and nothing is written.
LEMMA SetOK ==
    ASSUME TypeOK, TaskInv, NEW w \in Worker, NEW r \in Run,
           runs' = [runs EXCEPT ![w] = r], UNCHANGED <<task, requests>>,
           UNCHANGED <<approved, replaced>>, RunInv(r, task, Good)
    PROVE  StepOK(w)
<1>1. /\ runs' \in [Worker -> Run] /\ runs'[w] = r
      /\ \A v \in Worker \ {w} : runs'[v] = runs[v]
  BY DEF TypeOK
<1>2. Good' = Good /\ RowInv(task, Good)
  BY DEF Good, TaskInv
<1> QED
  BY <1>1, <1>2 DEF StepOK, TypeOK

LEMMA GotoOK ==
    ASSUME TypeOK, TaskInv, NEW w \in Worker, NEW pc \in PC, Goto(w, pc),
           UNCHANGED <<approved, replaced>>,
           RunInv([runs[w] EXCEPT !.pc = pc], task, Good)
    PROVE  StepOK(w)
<1>1. runs[w] \in Run /\ [runs[w] EXCEPT !.pc = pc] \in Run
  BY GoneRun DEF TypeOK
<1>2. runs' = [runs EXCEPT ![w] = [runs[w] EXCEPT !.pc = pc]]
  BY DEF Goto
<1> QED
  BY <1>1, <1>2, SetOK DEF Goto

LEMMA LeaveOK ==
    ASSUME TypeOK, TaskInv, NEW w \in Worker, NEW pc \in PC \ Planned, Leave(w, pc),
           UNCHANGED <<approved, replaced>>
    PROVE  StepOK(w)
<1> DEFINE n == [NoRun EXCEPT !.pc = pc, !.aborted = runs[w].aborted, !.late = runs[w].late]
<1>1. runs[w] \in Run /\ RunInv(runs[w], task, Good) /\ task \in Row
  BY DEF TypeOK, TaskInv, Good
<1>2. n \in Run /\ RunInv(n, task, Good)
  BY <1>1, LeftRun
<1>3. runs' = [runs EXCEPT ![w] = n] /\ UNCHANGED <<task, requests>>
  BY DEF Leave, Left
<1> HIDE DEF n
<1> QED
  BY <1>2, <1>3, SetOK

\* The row is written, and the run goes on under the new revision.
LEMMA WriteOK ==
    ASSUME TypeOK, TaskInv, NEW w \in Worker, NEW new \in Row, NEW next \in Run,
           Write(w, new, next), Good \subseteq Good', task.cancel => new.cancel,
           RowInv(new, Good'), next.pc \notin {"deliver", "complete"}, RunInv(next, new, Good')
    PROVE  StepOK(w)
<1> DEFINE n == [next EXCEPT !.fresh = TRUE]
<1>1. n \in Run /\ RunInv(n, new, Good')
  BY FreshRun
<1> HIDE DEF n
<1>2. task' = new /\ requests' = Stale
      /\ runs' = [v \in Worker |-> IF v = w THEN n ELSE Overtaken(v, new)]
  BY DEF Write, n
<1>3. \A v \in Worker : Overtaken(v, new) \in Run
  BY OvertakenTyped DEF TypeOK
<1>4. runs' \in [Worker -> Run] /\ runs'[w] = n
      /\ \A v \in Worker \ {w} : runs'[v] = Overtaken(v, new)
  BY <1>1, <1>2, <1>3
<1>5. requests' \subseteq Request
  BY <1>2, StaleTyped DEF TypeOK
<1> QED
  BY <1>1, <1>2, <1>4, <1>5 DEF StepOK

\* The last write of a run.
LEMMA EndOK ==
    ASSUME TypeOK, TaskInv, NEW w \in Worker, NEW new \in Row, NEW pc \in PC \ Planned,
           Write(w, new, Left(w, pc)),
           UNCHANGED <<approved, replaced>>, task.cancel => new.cancel, RowInv(new, Good)
    PROVE  StepOK(w)
<1> DEFINE n == [NoRun EXCEPT !.pc = pc, !.aborted = runs[w].aborted,
                              !.late = runs[w].late]
<1>1. runs[w] \in Run /\ RunInv(runs[w], task, Good) /\ task \in Row
  BY DEF TypeOK, TaskInv, Good
<1>2. n \in Run /\ RunInv(n, new, Good) /\ n.pc = pc
  BY <1>1, LeftRun
<1>3. Write(w, new, n) /\ Good' = Good
  BY DEF Left, Good
<1>4. pc \notin {"deliver", "complete"}
  BY DEF Planned
<1> HIDE DEF n
<1> QED
  BY <1>2, <1>3, <1>4, WriteOK

\* What the steps of a worker need to know of its run and of the row.
LEMMA OwnFacts ==
    ASSUME TypeOK, TaskInv, NEW w \in Worker
    PROVE  /\ task \in Row /\ runs[w] \in Run
           /\ RowInv(task, Good) /\ RunInv(runs[w], task, Good)
BY DEF TypeOK, TaskInv, Good

LEMMA CheckOK ==
    ASSUME TypeOK, TaskInv, NEW w \in Worker, NEW from \in PC, NEW to \in PC,
           Check(w, from, to), to \notin {"wave"}, from \notin {"wave"},
           to \in Planned => from \in Planned,
           to \notin {"loop", "wave", "save"},
           to = "ready" => from = "loop"
    PROVE  StepOK(w)
<1>1. /\ task \in Row /\ runs[w] \in Run
      /\ RowInv(task, Good) /\ RunInv(runs[w], task, Good)
  BY OwnFacts
<1>2. runs[w].pc = from /\ UNCHANGED <<approved, replaced>>
  BY DEF Check, history
<1>3. CASE Active(w) /\ Goto(w, to)
  <2> DEFINE n == [runs[w] EXCEPT !.pc = to]
  <2>1. /\ n \in Run /\ n.pc = to /\ n.plan = runs[w].plan
        /\ n.approval = runs[w].approval
        /\ n.results = runs[w].results /\ n.todo = runs[w].todo /\ n.wave = runs[w].wave
        /\ n.late = runs[w].late /\ n.fresh = runs[w].fresh /\ n.told = runs[w].told
        /\ n.disturbed = runs[w].disturbed
    BY <1>1, GoneRun
  <2>2. ~task.cancel /\ task.status # "paused"
    BY <1>3 DEF Active
  <2> HIDE DEF n
  <2>3. RunInv(n, task, Good)
    BY <1>1, <1>2, <2>1, <2>2 DEF RunInv
  <2> QED
    BY <1>2, <1>3, <2>3, GotoOK DEF n
<1>4. CASE Leave(w, "catch")
  BY <1>2, <1>4, LeaveOK DEF PC, Planned
<1> QED
  BY <1>3, <1>4 DEF Check

-----------------------------------------------------------------------------
(* The steps of Orchestrator.run.                                          *)

LEMMA BeginOK ==
    ASSUME TypeOK, TaskInv, NEW w \in Worker, Begin(w)
    PROVE  StepOK(w)
<1> DEFINE r == runs[w]
           new == [task EXCEPT !.status = "planning"]
           to == CASE task.plan = 0 -> "plan"
                   [] task.approval \in {"pending", "rejected"} -> "park"
                   [] OTHER -> "go"
           n == [r EXCEPT !.plan = task.plan, !.approval = task.approval,
                   !.review = task.review, !.pc = to]
<1>1. /\ task \in Row /\ r \in Run /\ RowInv(task, Good) /\ RunInv(r, task, Good)
  BY OwnFacts
<1>2. /\ task.plan \in Nat /\ task.approval \in Approval /\ task.review \in Verdict
      /\ r.pc = "begin"
  BY <1>1 DEF Row, Begin
<1>3. /\ to \in {"plan", "park", "go"}
      /\ to = "go" => task.approval = "approved" /\ task.plan \in Good
  BY <1>1, <1>2 DEF RowInv, Approval
<1>4. Write(w, new, n) /\ Good' = Good
  BY DEF Begin, Good, history
<1>5. new \in Row /\ new.cancel = task.cancel /\ new.plan = task.plan
      /\ new.approval = task.approval
  BY <1>1 DEF Row, Status
<1> HIDE DEF to, new
<1>6. n \in Run /\ n.pc = to /\ n.plan = task.plan /\ n.approval = task.approval
      /\ n.todo = r.todo /\ n.wave = r.wave /\ n.late = r.late /\ n.told = r.told
  BY <1>1, <1>2, <1>3 DEF Run, PC
<1> HIDE DEF n
<1>7. RunInv(n, new, Good)
  BY <1>1, <1>2, <1>3, <1>5, <1>6 DEF RunInv, Planned, HeedsPause, HeedsCancel
<1>8. RowInv(new, Good)
  BY <1>1, <1>5 DEF RowInv
<1> QED
  BY <1>3, <1>4, <1>5, <1>6, <1>7, <1>8, WriteOK

LEMMA StorePlanOK ==
    ASSUME TypeOK, TaskInv, NEW w \in Worker, StorePlan(w)
    PROVE  StepOK(w)
<1> DEFINE r == runs[w]
           a == IF PlanApproval THEN "pending" ELSE "approved"
           to == IF PlanApproval THEN "park" ELSE "go"
           new == [task EXCEPT !.plan = plans + 1, !.approval = a]
           n == [r EXCEPT !.plan = plans + 1, !.approval = a, !.review = task.review,
                          !.pc = to]
<1>1. /\ task \in Row /\ r \in Run /\ RowInv(task, Good) /\ RunInv(r, task, Good)
  BY OwnFacts
<1>2. r.pc = "store" /\ plans + 1 \in Nat /\ task.review \in Verdict
  BY <1>1 DEF StorePlan, TypeOK, Row
<1>3. a \in {"pending", "approved"} /\ to \in {"park", "go"} /\ (a = "approved" <=> to = "go")
  OBVIOUS
<1>4. Write(w, new, n)
  BY DEF StorePlan
<1>5. Good \subseteq Good' /\ (a = "approved" => plans + 1 \in Good')
  BY DEF StorePlan, Good
<1> HIDE DEF a, to
<1>6. new \in Row /\ new.cancel = task.cancel /\ new.plan = plans + 1 /\ new.approval = a
  BY <1>1, <1>2, <1>3 DEF Row, Approval
<1>7. n \in Run /\ n.pc = to /\ n.plan = plans + 1 /\ n.approval = a
      /\ n.todo = r.todo /\ n.wave = r.wave /\ n.late = r.late /\ n.told = r.told
  BY <1>1, <1>2, <1>3 DEF Run, PC, Approval
<1> HIDE DEF n, new
<1>8. RunInv(n, new, Good')
  BY <1>1, <1>2, <1>3, <1>5, <1>6, <1>7 DEF RunInv, Planned, HeedsPause, HeedsCancel
<1>9. RowInv(new, Good')
  BY <1>3, <1>5, <1>6 DEF RowInv
<1>10. n.pc \notin {"deliver", "complete"} /\ (task.cancel => new.cancel)
  BY <1>3, <1>6, <1>7
<1> QED
  BY <1>4, <1>5, <1>6, <1>7, <1>8, <1>9, <1>10, WriteOK

LEMMA GoOK ==
    ASSUME TypeOK, TaskInv, NEW w \in Worker, Go(w)
    PROVE  StepOK(w)
<1> DEFINE r == runs[w]
           new == [task EXCEPT !.status = "running"]
           n == [r EXCEPT !.results = task.results, !.todo = Pending(task.results),
                   !.review = task.review, !.disturbed = FALSE, !.pc = "loop"]
<1>1. /\ task \in Row /\ r \in Run /\ RowInv(task, Good) /\ RunInv(r, task, Good)
  BY OwnFacts
<1>2. /\ r.pc = "go" /\ task.results \in [Step -> Result] /\ task.review \in Verdict
      /\ Pending(task.results) \subseteq Step
  BY <1>1 DEF Go, Row, Pending
<1>3. Write(w, new, n) /\ Good' = Good
  BY DEF Go, Good, history
<1>4. new \in Row /\ new.cancel = task.cancel /\ new.plan = task.plan
      /\ new.approval = task.approval /\ new.results = task.results
  BY <1>1 DEF Row, Status
<1>5. n \in Run /\ n.pc = "loop" /\ n.plan = r.plan /\ n.approval = r.approval
      /\ n.results = task.results /\ n.todo = Pending(task.results)
      /\ n.wave = r.wave /\ n.late = r.late /\ n.told = r.told
  BY <1>1, <1>2 DEF Run, PC
<1> HIDE DEF n, new
<1>6. r.wave = {}
  BY <1>1, <1>2 DEF RunInv
<1>7. RunInv(n, new, Good)
  BY <1>1, <1>2, <1>4, <1>5, <1>6 DEF RunInv, Planned, HeedsPause, HeedsCancel, Pending
<1>8. RowInv(new, Good)
  BY <1>1, <1>4 DEF RowInv
<1> QED
  BY <1>3, <1>4, <1>5, <1>7, <1>8, WriteOK

LEMMA LoopOK ==
    ASSUME TypeOK, TaskInv, NEW w \in Worker, Loop(w)
    PROVE  StepOK(w)
<1> DEFINE to == IF runs[w].todo = {} THEN "verdict" ELSE "ready"
<1>1. Check(w, "loop", to)
  BY DEF Loop
<1>2. to \in {"verdict", "ready"}
  OBVIOUS
<1> HIDE DEF to
<1> QED
  BY <1>1, <1>2, CheckOK DEF PC, Planned

LEMMA StartWaveOK ==
    ASSUME TypeOK, TaskInv, NEW w \in Worker, StartWave(w)
    PROVE  StepOK(w)
<1> DEFINE r == runs[w]
<1>1. /\ task \in Row /\ r \in Run /\ RowInv(task, Good) /\ RunInv(r, task, Good)
  BY OwnFacts
<1>2. PICK wave \in SUBSET Ready(r) :
         runs' = [runs EXCEPT ![w].pc = "wave", ![w].wave = wave,
                    ![w].late = IF task.cancel /\ @ < 2 THEN @ + 1 ELSE @]
  BY DEF StartWave
<1> DEFINE l == IF task.cancel /\ r.late < 2 THEN r.late + 1 ELSE r.late
           n == [r EXCEPT !.pc = "wave", !.wave = wave, !.late = l]
<1>3. r.pc = "ready" /\ wave \subseteq r.todo /\ r.todo \subseteq Step
  BY <1>1 DEF StartWave, Ready, Run
<1>4. r.late = 0
  BY <1>1, <1>3 DEF RunInv
<1>5. l = IF task.cancel THEN 1 ELSE 0
  BY <1>4
<1>6. runs' = [runs EXCEPT ![w] = n]
  BY <1>2 DEF TypeOK
<1> HIDE DEF l
<1>7. n \in Run /\ n.pc = "wave" /\ n.plan = r.plan /\ n.approval = r.approval
      /\ n.results = r.results /\ n.todo = r.todo /\ n.wave = wave /\ n.late = l
      /\ n.fresh = r.fresh /\ n.disturbed = r.disturbed /\ n.told = r.told
  <2>1. l \in 0 .. 2 /\ wave \in SUBSET Step /\ "wave" \in PC
    BY <1>3, <1>5 DEF PC
  <2> QED
    BY <1>1, <2>1 DEF Run
<1> HIDE DEF n
<1>8. RunInv(n, task, Good)
  BY <1>1, <1>3, <1>5, <1>7 DEF RunInv, Planned, HeedsPause, HeedsCancel
<1> QED
  BY <1>6, <1>7, <1>8, SetOK DEF StartWave, history

LEMMA SettleOK ==
    ASSUME TypeOK, TaskInv, NEW w \in Worker, Settle(w)
    PROVE  StepOK(w)
<1> DEFINE r == runs[w]
<1>1. /\ task \in Row /\ r \in Run /\ RowInv(task, Good) /\ RunInv(r, task, Good)
  BY OwnFacts
<1>2. PICK out \in [r.wave -> {"done", "failed", "none"}] :
         LET settled == {s \in r.wave : out[s] # "none"} IN
         runs' = [runs EXCEPT ![w] =
              [r EXCEPT !.results = [s \in Step |-> IF s \in settled THEN out[s] ELSE @[s]],
                        !.todo = @ \ settled, !.wave = {}, !.pc = "save",
                        !.held = ~r.aborted /\ settled # r.wave]]
  BY DEF Settle
<1> DEFINE settled == {s \in r.wave : out[s] # "none"}
           results == [s \in Step |-> IF s \in settled THEN out[s] ELSE r.results[s]]
           held == ~r.aborted /\ settled # r.wave
           n == [r EXCEPT !.results = results, !.todo = r.todo \ settled, !.wave = {},
                          !.pc = "save", !.held = held]
<1>3. runs' = [runs EXCEPT ![w] = n]
  BY <1>2
<1>4. r.pc = "wave" /\ r.results \in [Step -> Result] /\ r.todo \subseteq Step
      /\ settled \subseteq r.wave /\ held \in BOOLEAN
  BY <1>1 DEF Settle, Run
<1>5. results \in [Step -> Result]
  BY <1>4 DEF Result
<1>6. \A s \in r.todo \ settled : s \in Step /\ results[s] = r.results[s]
  BY <1>4
<1> HIDE DEF settled, results, held
<1>7. n \in Run /\ n.pc = "save" /\ n.plan = r.plan /\ n.approval = r.approval
      /\ n.results = results /\ n.todo = r.todo \ settled /\ n.wave = {}
      /\ n.late = r.late /\ n.fresh = r.fresh /\ n.disturbed = r.disturbed
      /\ n.told = r.told
  BY <1>1, <1>4, <1>5 DEF Run, PC
<1> HIDE DEF n
<1>8. RunInv(n, task, Good)
  BY <1>1, <1>4, <1>6, <1>7 DEF RunInv, Planned, HeedsPause, HeedsCancel
<1> QED
  BY <1>3, <1>7, <1>8, SetOK DEF Settle, history

LEMMA SaveOK ==
    ASSUME TypeOK, TaskInv, NEW w \in Worker, Save(w)
    PROVE  StepOK(w)
<1> DEFINE r == runs[w]
           new == [task EXCEPT !.results = r.results, !.plan = r.plan,
                               !.approval = r.approval]
           to == IF r.held THEN "hold" ELSE "loop"
           n == [r EXCEPT !.review = task.review, !.pc = to]
<1>1. /\ task \in Row /\ r \in Run /\ RowInv(task, Good) /\ RunInv(r, task, Good)
  BY OwnFacts
<1>2. /\ r.pc = "save" /\ r.results \in [Step -> Result] /\ r.plan \in Nat
      /\ r.approval \in Approval /\ task.review \in Verdict
  BY <1>1 DEF Save, Row, Run
<1>3. to \in {"hold", "loop"}
  OBVIOUS
<1>4. Write(w, new, n) /\ Good' = Good
  BY DEF Save, Good, history
<1> HIDE DEF to
<1>5. new \in Row /\ new.cancel = task.cancel /\ new.plan = r.plan
      /\ new.approval = r.approval /\ new.results = r.results /\ new.status = task.status
  BY <1>1, <1>2 DEF Row
<1>6. n \in Run /\ n.pc = to /\ n.plan = r.plan /\ n.approval = r.approval
      /\ n.results = r.results /\ n.todo = r.todo /\ n.wave = r.wave /\ n.late = r.late /\ n.told = r.told
  BY <1>1, <1>2, <1>3 DEF Run, PC
<1> HIDE DEF n, new
<1>7. r.approval = "approved" /\ r.plan \in Good /\ r.wave = {}
  BY <1>1, <1>2 DEF RunInv, Planned, HeedsPause, HeedsCancel
<1>8. RunInv(n, new, Good)
  BY <1>1, <1>2, <1>3, <1>5, <1>6, <1>7 DEF RunInv, Planned, HeedsPause, HeedsCancel
<1>9. RowInv(new, Good)
  BY <1>5, <1>7 DEF RowInv
<1>10. n.pc \notin {"deliver", "complete"}
  BY <1>3, <1>6
<1> QED
  BY <1>4, <1>5, <1>6, <1>8, <1>9, <1>10, WriteOK

LEMMA HoldOK ==
    ASSUME TypeOK, TaskInv, NEW w \in Worker, Hold(w)
    PROVE  StepOK(w)
<1> DEFINE new == [task EXCEPT !.status = "waiting_for_human", !.results = runs[w].results]
<1>1. task \in Row /\ RowInv(task, Good) /\ runs[w].results \in [Step -> Result]
  BY OwnFacts DEF Run
<1>2. Write(w, new, Left(w, "catch")) /\ UNCHANGED <<approved, replaced>>
  BY DEF Hold, history
<1>3. new \in Row /\ new.cancel = task.cancel /\ new.plan = task.plan
      /\ new.approval = task.approval
  BY <1>1 DEF Row, Status
<1>4. "catch" \in PC \ Planned
  BY DEF PC, Planned
<1> HIDE DEF new
<1>5. RowInv(new, Good)
  BY <1>1, <1>3 DEF RowInv
<1> QED
  BY <1>2, <1>3, <1>4, <1>5, EndOK

LEMMA VerdictsOK ==
    ASSUME TypeOK, TaskInv, NEW w \in Worker, Verdicts(w)
    PROVE  StepOK(w)
<1> DEFINE r == runs[w]
           new == [task EXCEPT !.status = "reviewing"]
           n == [r EXCEPT !.pc = "judge"]
           m == [r EXCEPT !.pc = "judged"]
<1>1. /\ task \in Row /\ r \in Run /\ RowInv(task, Good) /\ RunInv(r, task, Good)
  BY OwnFacts
<1>2. r.pc = "verdict" /\ Good' = Good /\ UNCHANGED <<approved, replaced>>
  BY DEF Verdicts, Good, history
<1>3. CASE Leave(w, "catch")
  BY <1>2, <1>3, LeaveOK DEF PC, Planned
<1>4. CASE Goto(w, "judged")
  <2>1. m \in Run /\ m.pc = "judged" /\ m.plan = r.plan /\ m.approval = r.approval
        /\ m.todo = r.todo /\ m.wave = r.wave /\ m.late = r.late /\ m.told = r.told
    <3>1. "judged" \in PC
      BY DEF PC
    <3> QED
      BY <1>1, <3>1, GoneRun
  <2> HIDE DEF m
  <2>2. RunInv(m, task, Good)
    BY <1>1, <1>2, <2>1 DEF RunInv, Planned, HeedsPause, HeedsCancel
  <2> QED
    BY <1>2, <1>4, <2>2, GotoOK DEF m, PC
<1>5. CASE Write(w, new, n)
  <2>1. new \in Row /\ new.cancel = task.cancel /\ new.plan = task.plan
        /\ new.approval = task.approval
    BY <1>1 DEF Row, Status
  <2>2. n \in Run /\ n.pc = "judge" /\ n.plan = r.plan /\ n.approval = r.approval
        /\ n.todo = r.todo /\ n.wave = r.wave /\ n.late = r.late /\ n.told = r.told
    <3>1. "judge" \in PC
      BY DEF PC
    <3> QED
      BY <1>1, <3>1, GoneRun
  <2> HIDE DEF n, new
  <2>3. RunInv(n, new, Good) /\ RowInv(new, Good)
    BY <1>1, <1>2, <2>1, <2>2 DEF RunInv, RowInv, Planned, HeedsPause, HeedsCancel
  <2> QED
    BY <1>2, <1>5, <2>1, <2>2, <2>3, WriteOK
<1> QED
  BY <1>3, <1>4, <1>5 DEF Verdicts

LEMMA JudgeOK ==
    ASSUME TypeOK, TaskInv, NEW w \in Worker, Judge(w)
    PROVE  StepOK(w)
<1> DEFINE r == runs[w]
<1>1. /\ task \in Row /\ r \in Run /\ RowInv(task, Good) /\ RunInv(r, task, Good)
  BY OwnFacts
<1>2. r.pc \in {"judge", "again"} /\ UNCHANGED <<approved, replaced>>
  BY DEF Judge, history
<1>3. CASE Leave(w, "catch")
  BY <1>2, <1>3, LeaveOK DEF PC, Planned
<1>4. CASE ~Leave(w, "catch")
  <2>1. PICK v \in {"approved", "declined"}, pc \in {"judged", "correct"} :
           /\ runs' = [runs EXCEPT ![w].review = v, ![w].pc = pc]
           /\ UNCHANGED <<task, requests>>
    BY <1>4 DEF Judge
  <2> DEFINE n == [r EXCEPT !.review = v, !.pc = pc]
  <2>2. runs' = [runs EXCEPT ![w] = n]
    BY <2>1 DEF TypeOK
  <2>3. n \in Run /\ n.pc = pc /\ n.plan = r.plan /\ n.approval = r.approval
        /\ n.todo = r.todo /\ n.wave = r.wave /\ n.late = r.late /\ n.told = r.told
    BY <1>1 DEF Run, PC, Verdict
  <2> HIDE DEF n
  <2>4. RunInv(n, task, Good)
    BY <1>1, <1>2, <2>3 DEF RunInv, Planned, HeedsPause, HeedsCancel
  <2> QED
    BY <1>2, <2>1, <2>2, <2>3, <2>4, SetOK
<1> QED
  BY <1>3, <1>4

LEMMA CorrectOK ==
    ASSUME TypeOK, TaskInv, NEW w \in Worker, Correct(w)
    PROVE  StepOK(w)
<1> DEFINE r == runs[w]
           new == [task EXCEPT !.results = r.results, !.plan = r.plan,
                               !.approval = r.approval]
           n == [r EXCEPT !.pc = "repair"]
<1>1. /\ task \in Row /\ r \in Run /\ RowInv(task, Good) /\ RunInv(r, task, Good)
  BY OwnFacts
<1>2. /\ r.pc = "correct" /\ r.results \in [Step -> Result] /\ r.plan \in Nat
      /\ r.approval \in Approval /\ "repair" \in PC
  BY <1>1 DEF Correct, Run, PC
<1>3. Write(w, new, n) /\ Good' = Good
  BY DEF Correct, Good, history
<1>4. new \in Row /\ new.cancel = task.cancel /\ new.plan = r.plan
      /\ new.approval = r.approval /\ new.status = task.status
  BY <1>1, <1>2 DEF Row
<1>5. n \in Run /\ n.pc = "repair" /\ n.plan = r.plan /\ n.approval = r.approval
      /\ n.todo = r.todo /\ n.wave = r.wave /\ n.late = r.late /\ n.told = r.told
  BY <1>1, <1>2, GoneRun
<1> HIDE DEF n, new
<1>6. r.approval = "approved" /\ r.plan \in Good
  BY <1>1, <1>2 DEF RunInv, Planned
<1>7. RunInv(n, new, Good) /\ RowInv(new, Good)
  BY <1>1, <1>2, <1>4, <1>5, <1>6 DEF RunInv, RowInv, Planned, HeedsPause, HeedsCancel
<1> QED
  BY <1>3, <1>4, <1>5, <1>7, WriteOK

LEMMA RepairOK ==
    ASSUME TypeOK, TaskInv, NEW w \in Worker, Repair(w)
    PROVE  StepOK(w)
<1> DEFINE r == runs[w]
           new == [task EXCEPT !.results = r.results]
           n == [r EXCEPT !.pc = "again"]
<1>1. /\ task \in Row /\ r \in Run /\ RowInv(task, Good) /\ RunInv(r, task, Good)
  BY OwnFacts
<1>2. /\ r.pc = "repair" /\ r.results \in [Step -> Result] /\ "again" \in PC
      /\ UNCHANGED <<approved, replaced>> /\ Good' = Good
  BY <1>1 DEF Repair, Run, PC, history, Good
<1>3. CASE Leave(w, "catch")
  BY <1>2, <1>3, LeaveOK DEF PC, Planned
<1>4. CASE Write(w, new, n)
  <2>1. new \in Row /\ new.cancel = task.cancel /\ new.plan = task.plan
        /\ new.approval = task.approval /\ new.status = task.status
    BY <1>1, <1>2 DEF Row
  <2>2. n \in Run /\ n.pc = "again" /\ n.plan = r.plan /\ n.approval = r.approval
        /\ n.todo = r.todo /\ n.wave = r.wave /\ n.late = r.late /\ n.told = r.told
    BY <1>1, <1>2, GoneRun
  <2> HIDE DEF n, new
  <2>3. RunInv(n, new, Good) /\ RowInv(new, Good)
    BY <1>1, <1>2, <2>1, <2>2 DEF RunInv, RowInv, Planned, HeedsPause, HeedsCancel
  <2> QED
    BY <1>2, <1>4, <2>1, <2>2, <2>3, WriteOK
<1> QED
  BY <1>3, <1>4 DEF Repair

LEMMA JudgedOK ==
    ASSUME TypeOK, TaskInv, NEW w \in Worker, Judged(w)
    PROVE  StepOK(w)
<1> DEFINE r == runs[w]
           new == [task EXCEPT !.review = r.review]
           to == IF r.review = "declined" /\ ReviewApproval THEN "gate" ELSE "final"
           n == [r EXCEPT !.pc = to]
<1>1. /\ task \in Row /\ r \in Run /\ RowInv(task, Good) /\ RunInv(r, task, Good)
  BY OwnFacts
<1>2. r.pc = "judged" /\ r.review \in Verdict /\ UNCHANGED <<approved, replaced>>
      /\ Good' = Good
  BY <1>1 DEF Judged, history, Run, Good
<1>3. CASE Leave(w, "release")
  BY <1>2, <1>3, LeaveOK DEF PC, Planned
<1>4. CASE Write(w, new, n)
  <2>1. to \in {"gate", "final"}
    OBVIOUS
  <2> HIDE DEF to
  <2>2. new \in Row /\ new.cancel = task.cancel /\ new.plan = task.plan
        /\ new.approval = task.approval /\ new.status = task.status
    BY <1>1, <1>2 DEF Row
  <2>3. n \in Run /\ n.pc = to /\ n.plan = r.plan /\ n.approval = r.approval
        /\ n.todo = r.todo /\ n.wave = r.wave /\ n.late = r.late /\ n.told = r.told
    <3>1. to \in PC
      BY <2>1 DEF PC
    <3> QED
      BY <1>1, <3>1, GoneRun
  <2> HIDE DEF n, new
  <2>4. RunInv(n, new, Good) /\ RowInv(new, Good)
    BY <1>1, <1>2, <2>1, <2>2, <2>3 DEF RunInv, RowInv, Planned, HeedsPause, HeedsCancel
  <2>5. n.pc \notin {"deliver", "complete"}
    BY <2>1, <2>3
  <2> QED
    BY <1>2, <1>4, <2>2, <2>3, <2>4, <2>5, WriteOK
<1> QED
  BY <1>3, <1>4 DEF Judged

\* A delivery is verified under the revision last seen, or the run is left.
LEMMA DeliverOK ==
    ASSUME TypeOK, TaskInv, NEW w \in Worker, Deliver(w)
    PROVE  StepOK(w)
<1> DEFINE r == runs[w]
           new == [task EXCEPT !.status = "reviewing", !.review = "approved"]
           n == [r EXCEPT !.review = "approved", !.pc = "last"]
           end == [task EXCEPT !.status = "waiting_for_human", !.review = "declined"]
           m == [r EXCEPT !.pc = "last"]
<1>1. /\ task \in Row /\ r \in Run /\ RowInv(task, Good) /\ RunInv(r, task, Good)
  BY OwnFacts
<1>2. r.pc = "deliver" /\ "last" \in PC /\ UNCHANGED <<approved, replaced>> /\ Good' = Good
  BY DEF Deliver, PC, history, Good
<1>3. CASE Goto(w, "last")
  <2>1. m \in Run /\ m.pc = "last" /\ m.plan = r.plan /\ m.approval = r.approval
        /\ m.todo = r.todo /\ m.wave = r.wave /\ m.late = r.late /\ m.told = r.told
    BY <1>1, <1>2, GoneRun
  <2> HIDE DEF m
  <2>2. RunInv(m, task, Good)
    BY <1>1, <1>2, <2>1 DEF RunInv, Planned, HeedsPause, HeedsCancel
  <2> QED
    BY <1>2, <1>3, <2>2, GotoOK DEF m
<1>4. CASE Leave(w, "release")
  BY <1>2, <1>4, LeaveOK DEF PC, Planned
<1>5. CASE r.fresh /\ Write(w, new, n)
  <2>1. new \in Row /\ new.cancel = task.cancel /\ new.plan = task.plan
        /\ new.approval = task.approval
    BY <1>1 DEF Row, Status, Verdict
  <2>2. n \in Run /\ n.pc = "last" /\ n.plan = r.plan /\ n.approval = r.approval
        /\ n.todo = r.todo /\ n.wave = r.wave /\ n.late = r.late /\ n.told = r.told
    BY <1>1, <1>2 DEF Run, Verdict
  <2>3. r.told => task.cancel
    BY <1>1, <1>2, <1>5 DEF RunInv
  <2> HIDE DEF n, new
  <2>4. RunInv(n, new, Good) /\ RowInv(new, Good)
    BY <1>1, <1>2, <2>1, <2>2, <2>3
    DEF RunInv, RowInv, Planned, HeedsPause, HeedsCancel
  <2> QED
    BY <1>2, <1>5, <2>1, <2>2, <2>4, WriteOK
<1>6. CASE Write(w, end, Left(w, "release"))
  <2>1. end \in Row /\ end.cancel = task.cancel /\ end.plan = task.plan
        /\ end.approval = task.approval
    BY <1>1 DEF Row, Status, Verdict
  <2> HIDE DEF end
  <2>2. RowInv(end, Good) /\ "release" \in PC \ Planned
    BY <1>1, <2>1 DEF RowInv, PC, Planned
  <2> QED
    BY <1>2, <1>6, <2>1, <2>2, EndOK
<1> QED
  BY <1>3, <1>4, <1>5, <1>6 DEF Deliver

\* The last writes: the task is parked, waits for a person, or has ended.
LEMMA LastWriteOK ==
    ASSUME TypeOK, TaskInv, NEW w \in Worker,
           Park(w) \/ Gate(w) \/ Cancelling(w) \/ Failing(w)
    PROVE  StepOK(w)
<1>1. /\ task \in Row /\ runs[w] \in Run /\ RowInv(task, Good)
      /\ runs[w].review \in Verdict
  BY OwnFacts DEF Run
<1>2. UNCHANGED <<approved, replaced>>
  BY DEF Park, Gate, Cancelling, Failing, history
<1>3. PICK status \in Status, review \in Verdict, cancel \in BOOLEAN :
         /\ Write(w, [task EXCEPT !.status = status, !.review = review, !.cancel = cancel],
                  Left(w, "release"))
         /\ task.cancel => cancel
  <2>1. CASE Park(w)
    <3>1. [task EXCEPT !.status = "awaiting_approval"] =
          [task EXCEPT !.status = "awaiting_approval", !.review = task.review,
                       !.cancel = task.cancel]
      BY <1>1 DEF Row
    <3>2. task.review \in Verdict /\ task.cancel \in BOOLEAN
          /\ "awaiting_approval" \in Status
      BY <1>1 DEF Row, Status
    <3> QED
      BY <2>1, <3>1, <3>2 DEF Park
  <2>2. CASE Gate(w)
    <3>1. [task EXCEPT !.status = "waiting_for_human", !.review = runs[w].review] =
          [task EXCEPT !.status = "waiting_for_human", !.review = runs[w].review,
                       !.cancel = task.cancel]
      BY <1>1 DEF Row
    <3>2. task.cancel \in BOOLEAN /\ "waiting_for_human" \in Status
      BY <1>1 DEF Row, Status
    <3> QED
      BY <1>1, <2>2, <3>1, <3>2 DEF Gate
  <2>3. CASE Cancelling(w)
    <3>1. [task EXCEPT !.status = "cancelled", !.cancel = TRUE] =
          [task EXCEPT !.status = "cancelled", !.review = task.review, !.cancel = TRUE]
      BY <1>1 DEF Row
    <3>2. task.review \in Verdict /\ "cancelled" \in Status
      BY <1>1 DEF Row, Status
    <3> QED
      BY <2>3, <3>1, <3>2 DEF Cancelling
  <2>4. CASE Failing(w)
    <3>1. [task EXCEPT !.status = "failed"] =
          [task EXCEPT !.status = "failed", !.review = task.review,
                       !.cancel = task.cancel]
      BY <1>1 DEF Row
    <3>2. task.review \in Verdict /\ task.cancel \in BOOLEAN /\ "failed" \in Status
      BY <1>1 DEF Row, Status
    <3> QED
      BY <2>4, <3>1, <3>2 DEF Failing
  <2> QED
    BY <2>1, <2>2, <2>3, <2>4
<1> DEFINE new == [task EXCEPT !.status = status, !.review = review, !.cancel = cancel]
<1>4. new \in Row /\ new.cancel = cancel /\ new.plan = task.plan
      /\ new.approval = task.approval
  BY <1>1 DEF Row
<1> HIDE DEF new
<1>5. RowInv(new, Good) /\ "release" \in PC \ Planned
  BY <1>1, <1>4 DEF RowInv, PC, Planned
<1> QED
  BY <1>2, <1>3, <1>4, <1>5, EndOK DEF new

LEMMA CompleteOK ==
    ASSUME TypeOK, TaskInv, NEW w \in Worker, Complete(w)
    PROVE  StepOK(w)
<1> DEFINE r == runs[w]
           new == [task EXCEPT !.status = "completed", !.review = r.review,
                     !.results = r.results, !.plan = r.plan, !.approval = r.approval]
<1>1. /\ task \in Row /\ r \in Run /\ RowInv(task, Good) /\ RunInv(r, task, Good)
  BY OwnFacts
<1>2. r.pc = "complete" /\ UNCHANGED <<approved, replaced>>
  BY DEF Complete, history
<1>3. CASE Leave(w, "release")
  BY <1>2, <1>3, LeaveOK DEF PC, Planned
<1>4. CASE Write(w, new, Left(w, "release"))
  <2>1. r.review \in Verdict /\ r.results \in [Step -> Result] /\ r.plan \in Nat
        /\ r.approval \in Approval
    BY <1>1 DEF Run
  <2>2. new \in Row /\ new.cancel = task.cancel /\ new.plan = r.plan
        /\ new.approval = r.approval
    BY <1>1, <2>1 DEF Row, Status
  <2> HIDE DEF new
  <2>3. RowInv(new, Good) /\ "release" \in PC \ Planned
    BY <1>1, <1>2, <2>2 DEF RowInv, RunInv, Planned, PC
  <2> QED
    BY <1>2, <1>4, <2>2, <2>3, EndOK
<1> QED
  BY <1>3, <1>4 DEF Complete

LEMMA CatchOK ==
    ASSUME TypeOK, TaskInv, NEW w \in Worker, Catch(w)
    PROVE  StepOK(w)
<1> DEFINE r == runs[w]
<1>1. /\ task \in Row /\ r \in Run /\ RowInv(task, Good) /\ RunInv(r, task, Good)
  BY OwnFacts
<1>2. r.pc = "catch" /\ UNCHANGED <<approved, replaced>>
  BY DEF Catch, history
<1>3. PICK pc \in {"cancelling", "release", "failing"} : Goto(w, pc)
  <2> DEFINE to == CASE task.cancel -> "cancelling"
                     [] ~task.cancel /\ (r.aborted
                          \/ task.status \in {"paused", "waiting_for_human"}) -> "release"
                     [] OTHER -> "failing"
  <2>1. to \in {"cancelling", "release", "failing"}
    OBVIOUS
  <2>2. Goto(w, to)
    BY DEF Catch
  <2> QED
    BY <2>1, <2>2
<1> DEFINE n == [r EXCEPT !.pc = pc]
<1>4. pc \in PC /\ n \in Run /\ n.pc = pc /\ n.todo = r.todo /\ n.wave = r.wave
      /\ n.late = r.late /\ n.told = r.told
  <2>1. pc \in PC
    BY DEF PC
  <2> QED
    BY <1>1, <2>1, GoneRun
<1> HIDE DEF n
<1>5. RunInv(n, task, Good)
  BY <1>1, <1>2, <1>4 DEF RunInv, Planned, HeedsPause, HeedsCancel
<1> QED
  BY <1>2, <1>3, <1>4, <1>5, GotoOK DEF n

-----------------------------------------------------------------------------
(* The coordinator, faults, and all steps of a worker.                     *)

LEMMA CoordinatorOK ==
    ASSUME TypeOK, TaskInv, NEW w \in Worker,
           Claim(w) \/ Renew(w) \/ Release(w) \/ Crash(w) \/ Throw(w)
    PROVE  StepOK(w)
<1> DEFINE r == runs[w]
<1>1. /\ task \in Row /\ r \in Run /\ RowInv(task, Good) /\ RunInv(r, task, Good)
  BY OwnFacts
<1>2. UNCHANGED <<approved, replaced>>
  BY DEF Claim, Renew, Release, Crash, Throw, history
<1>3. CASE Claim(w)
  <2> DEFINE n == [r EXCEPT !.pc = "claimed"]
  <2>1. "claimed" \in PC
    BY DEF PC
  <2>2. n \in Run /\ n.pc = "claimed" /\ n.todo = r.todo /\ n.wave = r.wave
        /\ n.late = r.late /\ n.told = r.told
    BY <1>1, <2>1, GoneRun
  <2>3. r.pc = "idle" /\ Goto(w, "claimed")
    BY <1>3 DEF Claim
  <2> HIDE DEF n
  <2>4. RunInv(n, task, Good)
    BY <1>1, <2>2, <2>3 DEF RunInv, Planned, HeedsPause, HeedsCancel
  <2> QED
    BY <1>2, <2>1, <2>3, <2>4, GotoOK DEF n
<1>4. CASE Renew(w)
  <2>1. CASE UNCHANGED runs
    <3>1. runs' = [runs EXCEPT ![w] = r]
      BY <2>1 DEF TypeOK
    <3> QED
      BY <1>1, <1>2, <1>4, <3>1, SetOK DEF Renew
  <2>2. CASE runs' = [runs EXCEPT ![w].aborted = TRUE]
    <3> DEFINE n == [r EXCEPT !.aborted = TRUE]
    <3>1. n \in Run /\ RunInv(n, task, Good)
      BY <1>1, AbortedRun
    <3>2. runs' = [runs EXCEPT ![w] = n]
      BY <2>2 DEF TypeOK
    <3> HIDE DEF n
    <3> QED
      BY <1>2, <1>4, <3>1, <3>2, SetOK DEF Renew
  <2> QED
    BY <1>4, <2>1, <2>2 DEF Renew
<1>5. CASE Release(w) \/ Crash(w)
  <2>1. RunInv(NoRun, task, Good)
    BY NoRunTyped DEF RunInv, Planned, HeedsPause, HeedsCancel
  <2> QED
    BY <1>2, <1>5, <2>1, NoRunTyped, SetOK DEF Release, Crash
<1>6. CASE Throw(w)
  <2>1. PICK pc \in {"release", "catch"} : Leave(w, pc)
    BY <1>6 DEF Throw
  <2>2. pc \in PC \ Planned
    BY DEF PC, Planned
  <2> QED
    BY <1>2, <2>1, <2>2, LeaveOK
<1> QED
  BY <1>3, <1>4, <1>5, <1>6

LEMMA WorkerOK ==
    ASSUME TypeOK, TaskInv, NEW w \in Worker,
           Claim(w) \/ Renew(w) \/ RunStep(w) \/ Throw(w) \/ Crash(w)
    PROVE  StepOK(w)
<1>1. CASE Check(w, "claimed", "begin") \/ Check(w, "plan", "store")
           \/ Check(w, "final", "deliver") \/ Check(w, "last", "complete")
  <2>1. {"claimed", "begin", "plan", "store", "final", "deliver", "last", "complete"}
          \subseteq PC
    BY DEF PC
  <2> QED
    BY <1>1, <2>1, CheckOK DEF Planned
<1> QED
  BY <1>1, CoordinatorOK, BeginOK, StorePlanOK, GoOK, LoopOK, StartWaveOK, SettleOK,
     SaveOK, HoldOK, VerdictsOK, JudgeOK, CorrectOK, RepairOK, JudgedOK, DeliverOK,
     LastWriteOK, CompleteOK, CatchOK
  DEF RunStep

-----------------------------------------------------------------------------
(* The steps of operators.                                                 *)

AllOK ==
    /\ task' \in Row /\ runs' \in [Worker -> Run] /\ requests' \subseteq Request
    /\ TaskInv'

\* A worker's step disturbs nobody else's run.
LEMMA WorkerAllOK ==
    ASSUME TypeOK, TaskInv, NEW w \in Worker, StepOK(w)
    PROVE  AllOK
<1>1. ASSUME NEW v \in Worker
      PROVE  RunInv(runs'[v], task', Good')
  <2>1. task \in Row /\ runs[v] \in Run /\ RunInv(runs[v], task, Good)
    BY OwnFacts
  <2>2. task' \in Row /\ (task.cancel => task'.cancel) /\ Good \subseteq Good'
    BY DEF StepOK
  <2>3. CASE v = w
    BY <2>3 DEF StepOK
  <2>4. CASE runs'[v] = runs[v] /\ task' = task
    BY <2>1, <2>2, <2>4, RunInvGrows
  <2>5. CASE runs'[v] = Overtaken(v, task')
    <3>1. CASE runs[v].pc = "idle"
      BY <2>5, <3>1, NoRunTyped DEF Overtaken, RunInv, Planned
    <3>2. CASE runs[v].pc # "idle"
      <4> DEFINE t == runs[v].told /\ (task'.status = "paused" \/ task'.cancel)
                 n == [runs[v] EXCEPT !.fresh = FALSE, !.disturbed = TRUE, !.told = t]
      <4>0. t \in BOOLEAN
        BY <2>1 DEF Run
      <4>1. RunInv(n, task', Good')
        <5>1. t => runs[v].told /\ (task'.status = "paused" \/ task'.cancel)
          OBVIOUS
        <5> HIDE DEF t
        <5> QED
          BY <2>1, <2>2, <4>0, <5>1, OvertakenRun
      <4>2. runs'[v] = n
        BY <2>5, <3>2 DEF Overtaken
      <4> HIDE DEF n
      <4> QED
        BY <4>1, <4>2
    <3> QED
      BY <3>1, <3>2
  <2> QED
    BY <2>3, <2>4, <2>5 DEF StepOK
<1>2. RowInv(task', Good')
  BY DEF StepOK
<1> QED
  BY <1>1, <1>2 DEF StepOK, AllOK, TaskInv, Good

\* Some run is aborted, or none.
LEMMA AbortOK ==
    ASSUME NEW rs \in [Worker -> Run], NEW row \in Row, NEW good,
           \A v \in Worker : RunInv(rs[v], row, good), AbortSome(rs)
    PROVE  runs' \in [Worker -> Run] /\ \A v \in Worker : RunInv(runs'[v], row, good)
<1>1. PICK w \in Worker \cup {NoWorker} :
         runs' = [v \in Worker |-> IF v = w THEN [rs[v] EXCEPT !.aborted = TRUE] ELSE rs[v]]
  BY DEF AbortSome
<1>2. ASSUME NEW v \in Worker
      PROVE  runs'[v] \in Run /\ RunInv(runs'[v], row, good)
  <2>1. rs[v] \in Run /\ RunInv(rs[v], row, good)
    OBVIOUS
  <2> DEFINE n == [rs[v] EXCEPT !.aborted = TRUE]
  <2>2. n \in Run /\ RunInv(n, row, good)
    BY <2>1, AbortedRun
  <2>3. runs'[v] = IF v = w THEN n ELSE rs[v]
    BY <1>1
  <2> HIDE DEF n
  <2> QED
    BY <2>1, <2>2, <2>3
<1>3. runs' = [v \in Worker |-> runs'[v]]
  BY <1>1
<1> QED
  BY <1>2, <1>3

\* The runs after an operator has written the row.
LEMMA TouchedOK ==
    ASSUME TypeOK, TaskInv, NEW new \in Row, NEW more, Good \subseteq more
    PROVE  /\ Touched(new) \in [Worker -> Run]
           /\ \A v \in Worker : RunInv(Touched(new)[v], new, more)
<1>1. ASSUME NEW v \in Worker
      PROVE  Touched(new)[v] \in Run /\ RunInv(Touched(new)[v], new, more)
  <2>1. task \in Row /\ runs[v] \in Run /\ RunInv(runs[v], task, Good)
    BY OwnFacts
  <2> DEFINE kept == [new EXCEPT !.cancel = @ \/ task.cancel]
             tell == new.status = "paused" /\ runs[v].pc \in HeedsPause
             o == Overtaken(v, new)
             n == [o EXCEPT !.late = IF new.cancel THEN @ ELSE 0, !.told = @ \/ tell]
  <2>2. kept \in Row /\ kept.status = new.status /\ (task.cancel => kept.cancel)
        /\ (new.cancel => kept.cancel)
    BY <2>1 DEF Row
  <2>3. /\ o \in Run /\ RunInv(o, kept, Good) /\ o.pc = runs[v].pc
        /\ o.pc = "idle" \/ (~o.fresh /\ o.disturbed)
        /\ o.told => new.status = "paused" \/ new.cancel
    <3>1. CASE runs[v].pc = "idle"
      BY <3>1, NoRunTyped DEF Overtaken, RunInv, Planned
    <3>2. CASE runs[v].pc # "idle"
      <4> DEFINE t == runs[v].told /\ (new.status = "paused" \/ new.cancel)
                 m == [runs[v] EXCEPT !.fresh = FALSE, !.disturbed = TRUE, !.told = t]
      <4>1. t \in BOOLEAN /\ (t => runs[v].told /\ (new.status = "paused" \/ new.cancel))
        BY <2>1 DEF Run
      <4>2. o = m
        BY <3>2 DEF Overtaken
      <4> HIDE DEF t
      <4>3. m \in Run /\ RunInv(m, kept, Good)
        <5>1. t => runs[v].told /\ (kept.status = "paused" \/ kept.cancel)
          BY <2>2, <4>1
        <5> HIDE DEF kept
        <5> QED
          BY <2>1, <2>2, <4>1, <5>1, OvertakenRun
      <4>4. m.pc = runs[v].pc /\ ~m.fresh /\ m.disturbed /\ m.told = t
        BY <2>1 DEF Run
      <4> HIDE DEF m, o
      <4> QED
        BY <4>1, <4>2, <4>3, <4>4
    <3> QED
      BY <3>1, <3>2
  <2>4. tell \in BOOLEAN /\ (tell => new.status = "paused" /\ o.pc \in HeedsPause)
    BY <2>3
  <2>5. Touched(new)[v] = n
    BY DEF Touched
  <2> HIDE DEF o, tell, kept
  <2>6. n \in Run /\ RunInv(n, new, more)
    BY <2>2, <2>3, <2>4, TouchedRun
  <2> HIDE DEF n
  <2> QED
    BY <2>5, <2>6
<1>2. Touched(new) = [v \in Worker |-> Touched(new)[v]]
  BY DEF Touched
<1> QED
  BY <1>1, <1>2

\* An operator's write.
LEMMA EditOK ==
    ASSUME TypeOK, TaskInv, NEW q \in requests, NEW new \in Row, Edit(q, new),
           runs' = Touched(new), Good \subseteq Good', RowInv(new, Good')
    PROVE  AllOK
<1>1. runs' \in [Worker -> Run] /\ \A v \in Worker : RunInv(runs'[v], new, Good')
  BY TouchedOK
<1>2. task' = new /\ requests' \subseteq Request
  <2>1. \A p \in requests : [p EXCEPT !.fresh = FALSE] \in Request
    BY DEF TypeOK, Request
  <2> QED
    BY <2>1 DEF Edit
<1> QED
  BY <1>1, <1>2 DEF AllOK, TaskInv, Good

\* What the steps of an operator need to know of the request and of the row.
LEMMA RequestFacts ==
    ASSUME TypeOK, TaskInv, NEW q \in requests
    PROVE  /\ task \in Row /\ RowInv(task, Good)
           /\ q.results \in [Step -> Result] /\ q.approval \in Approval
           /\ q \in Request
BY DEF TypeOK, TaskInv, Good, Request

LEMMA AnswerOK ==
    ASSUME TypeOK, TaskInv, NEW q \in requests, Answer(q)
    PROVE  AllOK
<1>f. /\ task \in Row /\ RowInv(task, Good)
      /\ q.results \in [Step -> Result] /\ q.approval \in Approval
      /\ q \in Request
  BY RequestFacts
<1>1. CASE Refused(q)
  <2>1. UNCHANGED <<task, runs, approved, replaced>> /\ requests' \subseteq requests
    BY <1>1 DEF Refused, history
  <2> QED
    BY <2>1 DEF AllOK, TypeOK, TaskInv
<1>2. CASE AnswerPause(q)
  <2> DEFINE new == [task EXCEPT !.status = "paused"]
  <2>1. task' = new /\ runs' = Touched(task') /\ Good' = Good
    BY <1>2 DEF AnswerPause, history, Good
  <2>2. new \in Row /\ new.plan = task.plan /\ new.approval = task.approval
    BY <1>f DEF Row, Status
  <2> HIDE DEF new
  <2>3. RowInv(new, Good)
    BY <1>f, <2>2 DEF RowInv
  <2>4. [q EXCEPT !.kind = "paused", !.fresh = FALSE, !.abort = TRUE] \in Request
    BY <1>f DEF Request, Kind
  <2>5. \A p \in requests : [p EXCEPT !.fresh = FALSE] \in Request
    BY DEF TypeOK, Request
  <2>6. requests' \subseteq Request
    BY <1>2, <2>4, <2>5 DEF AnswerPause
  <2>7. /\ runs' \in [Worker -> Run]
        /\ \A v \in Worker : RunInv(runs'[v], new, Good)
    BY <2>1, <2>2, TouchedOK
  <2> QED
    BY <2>1, <2>2, <2>3, <2>6, <2>7 DEF AllOK, TaskInv, Good
<1>3. CASE AnswerResume(q)
  <2> DEFINE new == [task EXCEPT !.status = "queued", !.cancel = FALSE]
  <2>1. Edit(q, new) /\ runs' = Touched(task') /\ task' = new /\ Good' = Good
    BY <1>3 DEF AnswerResume, Edit, history, Good
  <2>2. new \in Row /\ new.plan = task.plan /\ new.approval = task.approval
    BY <1>f DEF Row, Status
  <2> HIDE DEF new
  <2>3. runs' = Touched(new) /\ RowInv(new, Good')
    BY <1>f, <2>1, <2>2 DEF RowInv
  <2> QED
    BY <2>1, <2>2, <2>3, EditOK
<1>4. CASE AnswerApprove(q)
  <2> DEFINE new == [task EXCEPT !.status = "queued", !.approval = "approved"]
  <2>1. Edit(q, new) /\ runs' = Touched(task') /\ task' = new
    BY <1>4 DEF AnswerApprove, Edit
  <2>2. Good \subseteq Good' /\ task.plan \in Good'
    BY <1>4 DEF AnswerApprove, Good
  <2>3. new \in Row /\ new.plan = task.plan /\ new.approval = "approved"
    BY <1>f DEF Row, Status, Approval
  <2> HIDE DEF new
  <2>4. runs' = Touched(new) /\ RowInv(new, Good')
    BY <1>f, <2>1, <2>2, <2>3 DEF RowInv
  <2> QED
    BY <2>1, <2>2, <2>3, <2>4, EditOK
<1>5. CASE AnswerReject(q)
  <2> DEFINE new == [task EXCEPT !.status = "paused", !.approval = "rejected"]
  <2>1. Edit(q, new) /\ runs' = Touched(task') /\ task' = new /\ Good' = Good
    BY <1>5 DEF AnswerReject, Edit, Good
  <2>2. new \in Row /\ new.plan = task.plan /\ new.approval = "rejected"
    BY <1>f DEF Row, Status, Approval
  <2> HIDE DEF new
  <2>3. runs' = Touched(new) /\ RowInv(new, Good')
    BY <1>f, <2>1, <2>2 DEF RowInv
  <2> QED
    BY <2>1, <2>2, <2>3, EditOK
<1>6. CASE AnswerReview(q)
  <2>1. PICK new \in Row : /\ Edit(q, new) /\ task' = new
                           /\ new.plan = task.plan /\ new.approval = task.approval
    <3>1. CASE q.kind = "approve-review"
      <4> DEFINE n == [task EXCEPT !.status = "queued", !.review = "approved", !.cancel = FALSE]
      <4>1. Edit(q, n) /\ task' = n
        BY <1>6, <3>1 DEF AnswerReview, Edit
      <4>2. n \in Row /\ n.plan = task.plan /\ n.approval = task.approval
        BY <1>f DEF Row, Status, Verdict
      <4> HIDE DEF n
      <4> QED
        BY <4>1, <4>2
    <3>2. CASE q.kind # "approve-review"
      <4> DEFINE n == [task EXCEPT !.status = "paused", !.cancel = FALSE]
      <4>1. Edit(q, n) /\ task' = n
        BY <1>6, <3>2 DEF AnswerReview, Edit
      <4>2. n \in Row /\ n.plan = task.plan /\ n.approval = task.approval
        BY <1>f DEF Row, Status
      <4> HIDE DEF n
      <4> QED
        BY <4>1, <4>2
    <3> QED
      BY <3>1, <3>2
  <2>2. runs' = Touched(new) /\ Good' = Good
    BY <1>6, <2>1 DEF AnswerReview, history, Good
  <2>3. RowInv(new, Good')
    BY <1>f, <2>1, <2>2 DEF RowInv
  <2> QED
    BY <2>1, <2>2, <2>3, EditOK
<1>7. CASE Reserve(q)
  <2>1. task' = task /\ runs' = Touched(task) /\ Good' = Good
    BY <1>7 DEF Reserve, history, Good
  <2>2. [q EXCEPT !.kind = "reserved"] \in Request
    BY <1>f DEF Request, Kind
  <2>3. \A p \in requests : [p EXCEPT !.fresh = FALSE] \in Request
    BY DEF TypeOK, Request
  <2>4. requests' \subseteq Request
    BY <1>7, <2>2, <2>3 DEF Reserve
  <2>5. /\ runs' \in [Worker -> Run]
        /\ \A v \in Worker : RunInv(runs'[v], task, Good)
    BY <1>f, <2>1, TouchedOK
  <2> QED
    BY <1>f, <2>1, <2>4, <2>5 DEF AllOK, TaskInv, Good
<1>8. CASE AnswerReplan(q)
  <2> DEFINE new == [status |-> "queued", plan |-> 0, approval |-> "none",
                     results |-> q.results, review |-> "none", cancel |-> FALSE]
  <2>1. Edit(q, new) /\ runs' = Touched(task') /\ task' = new /\ Good' = Good
    BY <1>8 DEF AnswerReplan, Edit, history, Good
  <2>2. new \in Row /\ new.plan = 0 /\ new.approval = "none"
    BY <1>f DEF Row, Status, Approval, Verdict
  <2> HIDE DEF new
  <2>3. runs' = Touched(new) /\ RowInv(new, Good')
    BY <2>1, <2>2 DEF RowInv
  <2> QED
    BY <2>1, <2>2, <2>3, EditOK
<1>9. CASE AnswerNode(q)
  <2> DEFINE to == IF q.approval = "pending" THEN "awaiting_approval" ELSE "queued"
             new == [task EXCEPT !.results = q.results, !.review = "none",
                                 !.cancel = FALSE, !.status = to]
  <2>1. Edit(q, new) /\ task' = new /\ Good' = Good
        /\ runs' = Touched(task')
    BY <1>9 DEF AnswerNode, Edit, history, Good
  <2>2. to \in Status
    BY DEF Status
  <2> HIDE DEF to
  <2>3. new \in Row /\ new.plan = task.plan /\ new.approval = task.approval
    BY <1>f, <2>2 DEF Row, Verdict
  <2> HIDE DEF new
  <2>4. runs' = Touched(new) /\ RowInv(new, Good')
    BY <1>f, <2>1, <2>3 DEF RowInv
  <2> QED
    BY <2>1, <2>3, <2>4, EditOK
<1>10. CASE AnswerReplace(q)
  <2>1. PICK riskier \in BOOLEAN :
          /\ Edit(q, [task EXCEPT !.plan = plans + 1, !.results = q.results,
                !.review = "none",
                !.approval = IF riskier THEN "pending" ELSE "approved",
                !.status = IF riskier THEN "awaiting_approval" ELSE "queued"])
          /\ replaced' = IF riskier THEN replaced ELSE replaced \cup {plans + 1}
          /\ approved' = IF ~riskier /\ q.approval = "approved"
                         THEN approved \cup {plans + 1} ELSE approved
    BY <1>10 DEF AnswerReplace
  <2> DEFINE a == IF riskier THEN "pending" ELSE "approved"
             to == IF riskier THEN "awaiting_approval" ELSE "queued"
             new == [task EXCEPT !.plan = plans + 1, !.results = q.results,
                       !.review = "none", !.approval = a, !.status = to]
  <2>2. Edit(q, new) /\ task' = new /\ runs' = Touched(task')
    BY <1>10, <2>1 DEF AnswerReplace, Edit
  <2>3. Good \subseteq Good' /\ (~riskier => plans + 1 \in Good')
    BY <2>1 DEF Good
  <2>4. a \in Approval /\ to \in Status /\ plans + 1 \in Nat
        /\ a = (IF riskier THEN "pending" ELSE "approved")
    BY DEF Approval, Status, TypeOK
  <2> HIDE DEF a, to
  <2>5. new \in Row /\ new.plan = plans + 1 /\ new.approval = a
    BY <1>f, <2>4 DEF Row, Verdict
  <2> HIDE DEF new
  <2>6. runs' = Touched(new) /\ RowInv(new, Good')
    BY <2>2, <2>3, <2>4, <2>5 DEF RowInv
  <2> QED
    BY <2>2, <2>3, <2>5, <2>6, EditOK
<1>11. CASE Abort(q)
  <2>1. UNCHANGED <<task, approved, replaced>> /\ Good' = Good /\ AbortSome(runs)
    BY <1>11 DEF Abort, history, Good
  <2>2. [q EXCEPT !.abort = FALSE] \in Request
    BY <1>f DEF Request
  <2>3. requests' \subseteq Request
    BY <1>11, <2>2 DEF Abort, TypeOK
  <2>4. runs \in [Worker -> Run] /\ \A v \in Worker : RunInv(runs[v], task, Good)
    BY DEF TypeOK, TaskInv, Good
  <2>5. runs' \in [Worker -> Run] /\ \A v \in Worker : RunInv(runs'[v], task, Good)
    BY <1>f, <2>1, <2>4, AbortOK
  <2> QED
    BY <1>f, <2>1, <2>3, <2>5 DEF AllOK, TaskInv, Good
<1> QED
  BY <1>1, <1>2, <1>3, <1>4, <1>5, <1>6, <1>7, <1>8, <1>9, <1>10, <1>11 DEF Answer

\* What a request writes are results of all steps.
LEMMA OutcomeTyped ==
    ASSUME NEW results \in [Step -> Result], NEW kind, NEW out \in Outcome(kind, results)
    PROVE  out \in [Step -> Result]
<1>1. NoResults \in [Step -> Result]
  BY DEF NoResults, Result
<1>2. ASSUME NEW s \in Step
      PROVE  Cleared(results, s) \in [Step -> Result]
             /\ [Cleared(results, s) EXCEPT ![s] = "manual"] \in [Step -> Result]
  <2>1. Cleared(results, s) \in [Step -> Result]
    BY DEF Cleared, Result
  <2> QED
    BY <2>1 DEF Result
<1>3. \/ out \in {results, NoResults}
      \/ \E s \in Step : out = Cleared(results, s)
      \/ \E s \in Step : out = [Cleared(results, s) EXCEPT ![s] = "manual"]
  BY DEF Outcome
<1> QED
  BY <1>1, <1>2, <1>3

LEMMA AskOK ==
    ASSUME TypeOK, TaskInv, NEW kind \in Kind, Ask(kind)
    PROVE  AllOK
<1> DEFINE late == kind \in {"replan", "retry", "manual"} /\ Busy
<1>1. task \in Row /\ task.results \in [Step -> Result] /\ task.approval \in Approval
  BY DEF TypeOK, Row
<1>2. PICK results \in Outcome(kind, task.results) :
         requests' = requests \cup {[kind |-> kind, approval |-> task.approval,
                 results |-> results, fresh |-> TRUE, abort |-> late]}
  BY DEF Ask
<1>3. results \in [Step -> Result] /\ late \in BOOLEAN
  BY <1>1, OutcomeTyped DEF Busy
<1> HIDE DEF late
<1>4. requests' \subseteq Request
  <2>1. [kind |-> kind, approval |-> task.approval, results |-> results,
         fresh |-> TRUE, abort |-> late] \in Request
    BY <1>1, <1>3 DEF Request
  <2> QED
    BY <1>2, <2>1 DEF TypeOK
<1>5. UNCHANGED <<task, runs, approved, replaced>>
  BY DEF Ask, history
<1> QED
  BY <1>4, <1>5 DEF AllOK, TypeOK, TaskInv

\* A run that is told of a cancellation.
LEMMA ToldRun ==
    ASSUME NEW r \in Run, NEW row \in Row, NEW new \in Row, NEW good, RunInv(r, row, good),
           new.cancel, new.results = row.results
    PROVE  LET n == [r EXCEPT !.told = @ \/ r.pc \in HeedsCancel]
           IN  n \in Run /\ RunInv(n, new, good)
<1> DEFINE t == r.told \/ r.pc \in HeedsCancel
           n == [r EXCEPT !.told = t]
<1>1. t \in BOOLEAN
  BY DEF Run
<1>2. n \in Run
  <2> HIDE DEF t
  <2> QED
    BY <1>1 DEF Run
<1>3. /\ n.pc = r.pc /\ n.plan = r.plan /\ n.approval = r.approval
      /\ n.results = r.results /\ n.todo = r.todo /\ n.wave = r.wave
      /\ n.late = r.late /\ n.fresh = r.fresh /\ n.disturbed = r.disturbed
      /\ n.told = t
  BY DEF Run
<1> HIDE DEF n
<1>4. RunInv(n, new, good)
  BY <1>3 DEF RunInv, HeedsPause, HeedsCancel
<1> QED
  BY <1>2, <1>4 DEF n

LEMMA CancelOK ==
    ASSUME TypeOK, TaskInv, Cancel
    PROVE  AllOK
<1> DEFINE to == IF task.status \in {"queued", "awaiting_approval", "waiting_for_human",
                                     "paused"}
                 THEN "cancelled" ELSE task.status
           new == [task EXCEPT !.cancel = TRUE, !.status = to]
           rs == [w \in Worker |-> [runs[w] EXCEPT !.told = @ \/ runs[w].pc \in HeedsCancel]]
<1>1. task \in Row /\ task.status \in Status /\ RowInv(task, Good)
  BY DEF TypeOK, TaskInv, Good, Row
<1>2. to \in Status
  BY <1>1 DEF Status
<1>3. task' = new /\ UNCHANGED <<requests, approved, replaced>> /\ Good' = Good
      /\ AbortSome(rs)
  BY DEF Cancel, history, Good
<1> HIDE DEF to
<1>4. new \in Row /\ new.plan = task.plan /\ new.approval = task.approval
      /\ new.cancel = TRUE /\ new.results = task.results
  BY <1>1, <1>2 DEF Row
<1> HIDE DEF new
<1>5. RowInv(new, Good)
  BY <1>1, <1>4 DEF RowInv
<1>6. \A v \in Worker : rs[v] \in Run /\ RunInv(rs[v], new, Good)
  <2> SUFFICES ASSUME NEW v \in Worker PROVE rs[v] \in Run /\ RunInv(rs[v], new, Good)
    OBVIOUS
  <2> DEFINE n == [runs[v] EXCEPT !.told = @ \/ runs[v].pc \in HeedsCancel]
  <2>1. runs[v] \in Run /\ RunInv(runs[v], task, Good)
    BY DEF TypeOK, TaskInv, Good
  <2>2. n \in Run /\ RunInv(n, new, Good)
    BY <1>1, <1>4, <2>1, ToldRun
  <2>3. rs[v] = n
    OBVIOUS
  <2> HIDE DEF n, rs
  <2> QED
    BY <2>2, <2>3
<1>7. rs \in [Worker -> Run]
  <2>1. rs = [v \in Worker |-> rs[v]]
    OBVIOUS
  <2> HIDE DEF rs
  <2> QED
    BY <1>6, <2>1
<1> HIDE DEF rs
<1>8. runs' \in [Worker -> Run] /\ \A v \in Worker : RunInv(runs'[v], new, Good)
  BY <1>3, <1>4, <1>6, <1>7, AbortOK
<1> QED
  BY <1>3, <1>4, <1>5, <1>8 DEF AllOK, TaskInv, Good, TypeOK

-----------------------------------------------------------------------------
(* The inductive invariant.                                                *)

LeaseTyped ==
    /\ owner \in Worker \cup {NoWorker} /\ live \in BOOLEAN
    /\ plans \in Nat /\ asked \in Nat /\ faults \in Nat
    /\ {approved, replaced, rejected} \subseteq SUBSET Nat

LEMMA StepLeaseTyped == TypeOK /\ [Next]_vars => LeaseTyped'
<1> SUFFICES ASSUME TypeOK, [Next]_vars PROVE LeaseTyped'
  OBVIOUS
<1>t. /\ owner \in Worker \cup {NoWorker} /\ live \in BOOLEAN
      /\ plans \in Nat /\ asked \in Nat /\ faults \in Nat
      /\ approved \subseteq Nat /\ replaced \subseteq Nat /\ rejected \subseteq Nat
      /\ task.plan \in Nat
  BY DEF TypeOK, Row
<1>1. ASSUME NEW w \in Worker, Claim(w) \/ Renew(w) \/ Crash(w) \/ Throw(w) \/ Release(w)
      PROVE  LeaseTyped'
  <2>1. faults' = faults \/ faults' = faults + 1
    BY <1>1 DEF Claim, Renew, Crash, Throw, Release, Fault, bounds
  <2>2. faults' \in Nat
    BY <1>t, <2>1
  <2>3. UNCHANGED <<history, asked>>
    BY <1>1 DEF Claim, Renew, Crash, Throw, Release, bounds, history
  <2>4. owner' \in {owner, w, NoWorker} /\ live' \in {live, TRUE, FALSE}
    BY <1>1 DEF Claim, Renew, Crash, Throw, Release, leaseVars
  <2> QED
    BY <1>t, <2>2, <2>3, <2>4 DEF LeaseTyped, history
<1>2. ASSUME NEW w \in Worker, StorePlan(w)
      PROVE  LeaseTyped'
  BY <1>t, <1>2 DEF StorePlan, LeaseTyped, bounds, leaseVars
<1>3. ASSUME NEW w \in Worker, RunStep(w), ~StorePlan(w), ~Release(w)
      PROVE  LeaseTyped'
  <2>1. UNCHANGED <<leaseVars, history, bounds>>
    BY <1>3
    DEF RunStep, Check, Begin, Park, Go, Loop, StartWave, Settle, Save, Hold, Verdicts,
        Judge, Correct, Repair, Judged, Gate, Deliver, Complete, Catch, Cancelling,
        Failing
  <2> QED
    BY <1>t, <2>1 DEF LeaseTyped, leaseVars, history, bounds
<1>4. CASE Expire
  <2>1. faults' = faults \/ faults' = faults + 1
    BY <1>4 DEF Expire, Fault
  <2>2. faults' \in Nat
    BY <1>t, <2>1
  <2>3. UNCHANGED <<history, asked, owner>> /\ live' = FALSE
    BY <1>4 DEF Expire
  <2> QED
    BY <1>t, <2>2, <2>3 DEF LeaseTyped, history
<1>5. ASSUME NEW kind \in Kind, Ask(kind)
      PROVE  LeaseTyped'
  BY <1>t, <1>5 DEF Ask, LeaseTyped, history, leaseVars
<1>6. ASSUME NEW q \in requests, Answer(q)
      PROVE  LeaseTyped'
  <2>1. CASE AnswerApprove(q)
    BY <1>t, <2>1 DEF AnswerApprove, LeaseTyped, leaseVars, bounds
  <2>2. CASE AnswerReject(q)
    BY <1>t, <2>2 DEF AnswerReject, LeaseTyped, leaseVars, bounds
  <2>3. CASE AnswerReplace(q)
    <3>1. /\ UNCHANGED <<leaseVars, bounds>> /\ plans' = plans + 1
          /\ approved' \subseteq approved \cup {plans + 1}
          /\ replaced' \subseteq replaced \cup {plans + 1}
          /\ rejected' \subseteq rejected \cup {plans + 1}
      BY <2>3 DEF AnswerReplace
    <3> QED
      BY <1>t, <3>1 DEF LeaseTyped, leaseVars, bounds
  <2>4. CASE UNCHANGED <<leaseVars, history, bounds>>
    BY <1>t, <2>4 DEF LeaseTyped, leaseVars, history, bounds
  <2> QED
    BY <1>6, <2>1, <2>2, <2>3, <2>4
    DEF Answer, Abort, Refused, AnswerPause, AnswerResume, AnswerReview, Reserve, AnswerReplan,
        AnswerNode
<1>7. CASE Cancel
  BY <1>t, <1>7 DEF Cancel, LeaseTyped, history, leaseVars
<1>8. CASE UNCHANGED vars
  BY <1>t, <1>8 DEF vars, LeaseTyped
<1> QED
  BY <1>1, <1>2, <1>3, <1>4, <1>5, <1>6, <1>7, <1>8 DEF Next

LEMMA InitOK == Init => TypeOK /\ TaskInv
<1> SUFFICES ASSUME Init PROVE TypeOK /\ TaskInv
  OBVIOUS
<1>1. NoResults \in [Step -> Result]
  BY DEF NoResults, Result
<1>2. task \in Row /\ task.approval = "none" /\ task.plan = 0
  BY <1>1 DEF Init, Row, Status, Approval, Verdict
<1>3. runs \in [Worker -> Run] /\ \A w \in Worker : runs[w] = NoRun
  BY NoRunTyped DEF Init
<1>4. TypeOK
  BY <1>2, <1>3 DEF Init, TypeOK
<1>5. TaskInv
  BY <1>2, <1>3, NoRunTyped DEF TaskInv, RowInv, RunInv, Planned
<1> QED
  BY <1>4, <1>5

LEMMA NextOK == TypeOK /\ TaskInv /\ [Next]_vars => TypeOK' /\ TaskInv'
<1> SUFFICES ASSUME TypeOK, TaskInv, [Next]_vars PROVE TypeOK' /\ TaskInv'
  OBVIOUS
<1>1. AllOK
  <2>1. ASSUME NEW w \in Worker,
               Claim(w) \/ Renew(w) \/ RunStep(w) \/ Throw(w) \/ Crash(w)
        PROVE  AllOK
    BY <2>1, WorkerOK, WorkerAllOK
  <2>2. CASE Expire \/ UNCHANGED vars
    <3>1. UNCHANGED <<task, runs, requests, approved, replaced>>
      BY <2>2 DEF Expire, vars, history
    <3> QED
      BY <3>1 DEF AllOK, TypeOK, TaskInv
  <2> QED
    BY <2>1, <2>2, AskOK, AnswerOK, CancelOK DEF Next
<1>2. LeaseTyped'
  BY StepLeaseTyped
<1> QED
  BY <1>1, <1>2 DEF AllOK, LeaseTyped, TypeOK

\* The row, the runs, the requests and the lease always have their types.
THEOREM TaskTyped == Spec => []TypeOK
<1>1. TypeOK /\ TaskInv /\ [Next]_vars => (TypeOK /\ TaskInv)'
  BY NextOK
<1> QED
  BY <1>1, InitOK, PTL DEF Spec

\* The inductive invariant: the row and every run are in order.
THEOREM TaskCorrect == Spec => []TaskInv
<1>1. TypeOK /\ TaskInv /\ [Next]_vars => (TypeOK /\ TaskInv)'
  BY NextOK
<1> QED
  BY <1>1, InitOK, PTL DEF Spec

\* No step is executed under a plan that neither the policy nor an operator
\* approved, whatever is replanned, rejected or replaced while it runs.
THEOREM OnlyGoodPlansRun == Spec => []PlanGate
<1>1. TaskInv => PlanGate
  BY DEF TaskInv, RunInv, PlanGate, Executing, Planned
<1> QED
  BY <1>1, TaskCorrect, PTL

\* A cancelled task starts at most one more wave in a process.
THEOREM CancellationStopsRuns == Spec => []CancelStopsSoon
<1>1. TaskInv => CancelStopsSoon
  BY DEF TaskInv, RunInv, CancelStopsSoon
<1> QED
  BY <1>1, TaskCorrect, PTL

\* What the checkpoint holds is not executed again by an undisturbed run.
THEOREM CheckpointsReused == Spec => []CheckpointsAreReused
<1>1. TaskInv => CheckpointsAreReused
  <2> SUFFICES ASSUME TaskInv, NEW w \in Worker, NEW s \in runs[w].wave, ~runs[w].disturbed
               PROVE  task.results[s] \notin {"done", "manual"}
    BY DEF CheckpointsAreReused
  <2>1. runs[w].pc = "wave" /\ s \in runs[w].todo
    BY DEF TaskInv, RunInv
  <2>2. task.results[s] \in {"none", "failed"}
    BY <2>1 DEF TaskInv, RunInv
  <2> QED
    BY <2>2
<1> QED
  BY <1>1, TaskCorrect, PTL

-----------------------------------------------------------------------------
(* A run told of a pause does not complete the task.                       *)

\* What others do leaves a run where it is.
LEMMA PointKept ==
    ASSUME NEW w \in Worker, runs \in [Worker -> Run], runs[w].pc # "idle",
           \/ AbortSome(runs)
           \/ AbortSome([v \in Worker |->
                            [runs[v] EXCEPT !.told = @ \/ runs[v].pc \in HeedsCancel]])
           \/ runs' = Touched(task')
           \/ runs'[w] \in {runs[w], Overtaken(w, task')}
    PROVE  runs'[w].pc = runs[w].pc
<1>1. Overtaken(w, task').pc = runs[w].pc
  BY DEF Overtaken, Run
<1>2. CASE AbortSome(runs)
  BY <1>2 DEF AbortSome, Run
<1>3. CASE AbortSome([v \in Worker |->
                        [runs[v] EXCEPT !.told = @ \/ runs[v].pc \in HeedsCancel]])
  <2> DEFINE rs == [v \in Worker |->
                      [runs[v] EXCEPT !.told = @ \/ runs[v].pc \in HeedsCancel]]
  <2>1. rs[w].pc = runs[w].pc /\ [rs[w] EXCEPT !.aborted = TRUE].pc = runs[w].pc
    BY DEF Run
  <2>2. AbortSome(rs)
    BY <1>3
  <2> HIDE DEF rs
  <2>3. runs'[w] \in {rs[w], [rs[w] EXCEPT !.aborted = TRUE]}
    BY <2>2 DEF AbortSome
  <2> QED
    BY <2>1, <2>3
<1>4. CASE runs' = Touched(task')
  <2> DEFINE o == Overtaken(w, task')
             n == [o EXCEPT !.late = IF task'.cancel THEN @ ELSE 0,
                       !.told = @ \/ (task'.status = "paused" /\ runs[w].pc \in HeedsPause)]
  <2>1. runs'[w] = n
    BY <1>4 DEF Touched
  <2>2. o = [runs[w] EXCEPT !.fresh = FALSE, !.disturbed = TRUE,
                            !.told = @ /\ (task'.status = "paused" \/ task'.cancel)]
    BY DEF Overtaken
  <2>3. n.pc = o.pc
    BY <2>2 DEF Run
  <2> HIDE DEF n, o
  <2> QED
    BY <1>1, <2>1, <2>3 DEF o
<1> QED
  BY <1>1, <1>2, <1>3, <1>4

\* Only a run's own step takes it from its last point; a run told of a stop is
\* there only when the stop has come after its last look at the row, and then the
\* step completes nothing.
LEMMA ToldRunIsRefused ==
    ASSUME TypeOK, TaskInv, [Next]_vars, NEW w \in Worker,
           runs[w].told, runs[w].pc = "complete", runs'[w].pc # "complete"
    PROVE  task' # task => task'.status # "completed"
<1>1. /\ runs \in [Worker -> Run] /\ runs[w].pc # "idle"
      /\ ~runs[w].fresh /\ VerifyDelivery
      /\ task.status = "paused" \/ task.cancel
  BY DEF TypeOK, TaskInv, RunInv, HeedsPause, HeedsCancel
<1>2. CASE Claim(w) \/ Renew(w) \/ Crash(w)
  BY <1>2 DEF Claim, Renew, Crash, Goto
<1>3. CASE Throw(w)
  BY <1>3 DEF Throw, Leave
<1>4. CASE RunStep(w)
  <2>1. Complete(w)
    BY <1>4 DEF RunStep, Check, Begin, StorePlan, Park, Go, Loop, StartWave, Settle, Save,
                Hold, Verdicts, Judge, Correct, Repair, Judged, Gate, Deliver, Catch,
                Cancelling, Failing, Release
  <2>2. Leave(w, "release")
    BY <1>1, <2>1 DEF Complete, MaySave
  <2> QED
    BY <2>2 DEF Leave
<1>5. CASE \E v \in Worker \ {w} :
             Claim(v) \/ Renew(v) \/ RunStep(v) \/ Throw(v) \/ Crash(v)
  <2>1. PICK v \in Worker \ {w} : StepOK(v)
    BY <1>5, WorkerOK
  <2>2. runs'[w] \in {runs[w], Overtaken(w, task')}
    BY <2>1 DEF StepOK
  <2> QED
    BY <1>1, <2>2, PointKept
<1>6. CASE Cancel \/ \E q \in requests : Answer(q)
  <2>1. \/ AbortSome(runs)
        \/ AbortSome([v \in Worker |->
                         [runs[v] EXCEPT !.told = @ \/ runs[v].pc \in HeedsCancel]])
        \/ runs' = Touched(task') \/ runs'[w] = runs[w]
    BY <1>6 DEF Cancel, Answer, Abort, Refused, AnswerPause, AnswerResume, AnswerApprove,
                AnswerReject, AnswerReview, Reserve, AnswerReplan, AnswerNode, AnswerReplace
  <2> QED
    BY <1>1, <2>1, PointKept
<1>7. CASE Expire \/ (\E kind \in Kind : Ask(kind)) \/ UNCHANGED vars
  BY <1>7 DEF Expire, Ask, vars
<1> QED
  BY <1>2, <1>3, <1>4, <1>5, <1>6, <1>7 DEF Next

\* A stop told to a run that is executing, correcting, reviewing or verifying
\* keeps that run from completing the task until somebody lifts it.
THEOREM PausesHold == Spec => StopsAreHeeded
<1>1. TypeOK /\ TaskInv /\ [Next]_vars =>
        [\A w \in Worker :
            /\ runs[w].told /\ runs[w].pc = "complete" /\ runs'[w].pc # "complete"
            /\ task' # task
            => task'.status # "completed"]_vars
  BY ToldRunIsRefused
<1> QED
  BY <1>1, TaskTyped, TaskCorrect, PTL DEF Spec, StopsAreHeeded
=============================================================================
