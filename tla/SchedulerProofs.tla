--------------------------- MODULE SchedulerProofs ---------------------------
(***************************************************************************)
(* Proofs about Scheduler: its types, and that a claim is a lock as long   *)
(* as it lasts and powerless afterwards.                                   *)
(***************************************************************************)
EXTENDS Scheduler, FiniteSetTheorems, TLAPS

-----------------------------------------------------------------------------
(* Types.                                                                  *)

\* The pure functions on a schedule yield schedules.
LEMMA FunctionsTyped ==
    ASSUME NEW item \in Row, NEW n \in Nat, NEW once \in BOOLEAN
    PROVE  /\ MarkSuccess(item, n) \in Row
           /\ MarkFailure(item, n) \in Row
           /\ Resumed(item, n) \in Row
           /\ Rescheduled(item, once, n) \in Row
           /\ Paused(item) \in Row
           /\ Created(item, once, n) \in Row
           /\ NoRow \in Row
    <1>1. MarkSuccess(item, n) \in Row
      <2>1. CASE item.once
        BY <2>1 DEF MarkSuccess, Row, Last
      <2>2. CASE ~item.once
        BY <2>2 DEF MarkSuccess, Row, Last
      <2>3. QED
        BY <2>1, <2>2
    <1>2. MarkFailure(item, n) \in Row
      <2>1. CASE item.failures + 1 >= MaxFailures
        BY <2>1 DEF MarkFailure, Row, Last
      <2>2. CASE ~(item.failures + 1 >= MaxFailures)
        BY <2>2 DEF MarkFailure, Row, Last
      <2>3. QED
        BY <2>1, <2>2
    <1>3. Resumed(item, n) \in Row
      BY DEF Resumed, Row, Last
    <1>4. Rescheduled(item, once, n) \in Row
      BY DEF Rescheduled, Row
    <1>5. Paused(item) \in Row
      BY DEF Paused, Row
    <1>6. Created(item, once, n) \in Row
      BY DEF Created, Row, Last
    <1>7. NoRow \in Row
      BY DEF NoRow, Row, Last
    <1>8. QED
      BY <1>1, <1>2, <1>3, <1>4, <1>5, <1>6, <1>7

\* The instants an operation may choose are instants.
LEMMA InstantsTyped ==
    ASSUME TypeOK
    PROVE  Future \cup {now} \subseteq Nat
    BY SchedulerAssumption DEF TypeOK, Future

\* Voiding the claims of a schedule leaves runs.
LEMMA FenceTyped ==
    ASSUME runs \subseteq Run, NEW s \in Schedule
    PROVE  Fence(s) \subseteq Run
    BY DEF Fence, Run

\* Every edit of a row to a row is typed.
LEMMA EditTyped ==
    ASSUME TypeOK, NEW s \in Schedule, NEW new \in Row, Edit(s, new)
    PROVE  /\ row' \in [Schedule -> Row]
           /\ now' \in Nat
           /\ token' \in [Schedule -> Nat]
           /\ live' \in [Schedule -> BOOLEAN]
           /\ issued' \in [Schedule -> Nat]
           /\ runs' \subseteq Run
           /\ pending' \in [Process -> SUBSET (Schedule \X Nat)]
           /\ tasks' \in [Schedule -> SUBSET Task]
           /\ edits' \in [Schedule -> Nat]
           /\ outcomes' \in [Schedule -> Nat]
           /\ slot' \in [Schedule -> Nat]
    <1>1. runs' \subseteq Run
      BY FenceTyped DEF TypeOK, Edit
    <1>2. QED
      BY <1>1 DEF TypeOK, Edit

\* The runs after one of them went on are runs.
LEMMA AdvanceTyped ==
    ASSUME runs \subseteq Run, NEW r \in runs, NEW phase \in Phase, Advance(r, phase)
    PROVE  runs' \subseteq Run
    BY DEF Advance, Run

\* A run that returns or rejects leaves only runs, and tokens to wait for.
LEMMA EndTyped ==
    ASSUME TypeOK, NEW r \in runs, Return(r) \/ Reject(r)
    PROVE  /\ runs' \subseteq Run
           /\ pending' \in [Process -> SUBSET (Schedule \X Nat)]
    BY DEF TypeOK, Return, Reject, Run

\* A recorded outcome is a row.
LEMMA OutcomeIsRow ==
    ASSUME TypeOK, NEW r \in runs, RecordSuccessRow(r) \/ RecordFailureRow(r)
    PROVE  \E new \in Row : Record(r.sched, new)
    <1>1. r.item \in Row
      BY DEF TypeOK, Run
    <1>2. \A n \in Future \cup {now} :
             MarkSuccess(r.item, n) \in Row /\ MarkFailure(r.item, n) \in Row
      BY <1>1, InstantsTyped, FunctionsTyped
    <1>3. QED
      BY <1>2 DEF RecordSuccessRow, RecordFailureRow

\* A recorded outcome is typed.
LEMMA RecordTyped ==
    ASSUME TypeOK, NEW r \in runs, RecordSuccessRow(r) \/ RecordFailureRow(r)
    PROVE  /\ row' \in [Schedule -> Row]
           /\ now' \in Nat
           /\ token' \in [Schedule -> Nat]
           /\ live' \in [Schedule -> BOOLEAN]
           /\ outcomes' \in [Schedule -> Nat]
           /\ slot' \in [Schedule -> Nat]
           /\ UNCHANGED <<issued, reviewVars, tasks, edits>>
    <1>1. r.sched \in Schedule /\ r.item \in Row
      BY DEF TypeOK, Run
    <1>3. PICK new \in Row : Record(r.sched, new)
      BY OutcomeIsRow
    <1>4. /\ row' \in [Schedule -> Row]
          /\ token' \in [Schedule -> Nat]
          /\ live' \in [Schedule -> BOOLEAN]
          /\ outcomes' \in [Schedule -> Nat]
          /\ UNCHANGED <<issued, reviewVars, tasks, edits>>
      BY <1>1, <1>3 DEF TypeOK, Record
    <1>5. now' \in Nat
      BY <1>3 DEF TypeOK, Record
    <1>6. slot' \in [Schedule -> Nat]
      BY <1>1 DEF TypeOK, RecordSuccessRow, RecordFailureRow
    <1>7. QED
      BY <1>4, <1>5, <1>6

\* Every step of one run is typed.
LEMMA RunStepTyped ==
    ASSUME TypeOK, NEW r \in runs, RunStep(r)
    PROVE  TypeOK'
    <1>1. CASE Check(r)
      <2>1. runs' \subseteq Run /\ pending' \in [Process -> SUBSET (Schedule \X Nat)]
        <3>1. CASE Advance(r, "running") /\ UNCHANGED pending
          BY <3>1, AdvanceTyped DEF TypeOK, Phase
        <3>2. CASE Return(r) \/ Reject(r)
          BY <3>2, EndTyped
        <3>3. QED
          BY <1>1, <3>1, <3>2 DEF Check
      <2>2. QED
        BY <1>1, <2>1 DEF TypeOK, Check, rowVars, reviewVars, history
    <1>2. CASE CreateTask(r)
      <2>1. runs' \subseteq Run
        BY <1>2, AdvanceTyped DEF TypeOK, CreateTask, Phase
      <2>2. NewTask(r) \in Task
        BY DEF TypeOK, NewTask, Task, Run, Row
      <2>3. r.sched \in Schedule
        BY DEF TypeOK, Run
      <2>4. tasks' \in [Schedule -> SUBSET Task]
        BY <1>2, <2>2, <2>3 DEF TypeOK, CreateTask
      <2>5. QED
        BY <1>2, <2>1, <2>4 DEF TypeOK, CreateTask, rowVars, reviewVars, history
    <1>3. CASE HandlerEnds(r)
      <2>1. runs' \subseteq Run
        BY <1>3, AdvanceTyped DEF TypeOK, HandlerEnds, Phase
      <2>2. QED
        BY <1>3, <2>1 DEF TypeOK, HandlerEnds, rowVars, reviewVars, history
    <1>4. CASE RecordSuccess(r)
      <2>1. runs' \subseteq Run /\ pending' \in [Process -> SUBSET (Schedule \X Nat)]
        <3>1. CASE Advance(r, "failed") /\ UNCHANGED pending
          BY <3>1, AdvanceTyped DEF TypeOK, Phase
        <3>2. CASE Return(r)
          BY <3>2, EndTyped
        <3>3. QED
          BY <1>4, <3>1, <3>2 DEF RecordSuccess
      <2>2. CASE RecordSuccessRow(r)
        BY <2>1, <2>2, RecordTyped DEF TypeOK, reviewVars
      <2>3. CASE NotRecorded
        BY <2>1, <2>3 DEF TypeOK, NotRecorded, rowVars, reviewVars, history
      <2>4. QED
        BY <1>4, <2>2, <2>3 DEF RecordSuccess
    <1>5. CASE RecordFailure(r)
      <2>1. runs' \subseteq Run /\ pending' \in [Process -> SUBSET (Schedule \X Nat)]
        BY <1>5, EndTyped DEF RecordFailure
      <2>2. CASE RecordFailureRow(r)
        BY <2>1, <2>2, RecordTyped DEF TypeOK, reviewVars
      <2>3. CASE NotRecorded
        BY <2>1, <2>3 DEF TypeOK, NotRecorded, rowVars, reviewVars, history
      <2>4. QED
        BY <1>5, <2>2, <2>3 DEF RecordFailure
    <1>6. QED
      BY <1>1, <1>2, <1>3, <1>4, <1>5 DEF RunStep

\* Every edit by a user writes a row.
LEMMA UserEditWritesRow ==
    ASSUME TypeOK, NEW s \in Schedule, UserEdit(s)
    PROVE  \E new \in Row : Edit(s, new)
    <1>0. row[s] \in Row /\ Future \subseteq Nat
      BY InstantsTyped DEF TypeOK
    <1>1. CASE Remove(s)
      BY <1>0, <1>1, FunctionsTyped DEF Remove
    <1>2. CASE Pause(s)
      BY <1>0, <1>2, FunctionsTyped DEF Pause
    <1>3. CASE Resume(s)
      BY <1>0, <1>3, FunctionsTyped DEF Resume
    <1>4. CASE \E once \in BOOLEAN : Upsert(s, once)
      BY <1>0, <1>4, FunctionsTyped DEF Upsert
    <1>5. CASE \E once \in BOOLEAN : Reschedule(s, once)
      BY <1>0, <1>5, FunctionsTyped DEF Reschedule
    <1>6. QED
      BY <1>1, <1>2, <1>3, <1>4, <1>5 DEF UserEdit

\* Every edit by a user is typed.
LEMMA UserEditTyped ==
    ASSUME TypeOK, NEW s \in Schedule, UserEdit(s)
    PROVE  TypeOK'
    <1>1. UNCHANGED reviewVars
      BY DEF UserEdit, Remove, Pause, Resume, Upsert, Reschedule
    <1>2. QED
      BY <1>1, UserEditWritesRow, EditTyped DEF TypeOK, reviewVars

\* A health action writes a row.
LEMMA ApplyWritesRow ==
    ASSUME TypeOK, NEW s \in Schedule, NEW v \in reviews, Apply(v, s)
    PROVE  \E new \in Row : Edit(s, new)
    <1>1. row[s] \in Row /\ Future \subseteq Nat
      BY InstantsTyped DEF TypeOK
    <1>2. QED
      BY <1>1, FunctionsTyped DEF Apply

\* A health action is typed.
LEMMA ApplyTyped ==
    ASSUME TypeOK, NEW v \in reviews, ApplyHealthAction(v)
    PROVE  TypeOK'
    <1>1. v.sched \in Schedule /\ v.suggestion \in Suggestion
      BY DEF TypeOK, Review
    <1>2. reviews' \subseteq Review
      BY DEF TypeOK, ApplyHealthAction
    <1>3. CASE Apply(v, v.sched)
      <2>1. \E new \in Row : Edit(v.sched, new)
        BY <1>1, <1>3, ApplyWritesRow
      <2>2. applied' \in [Schedule -> SUBSET Suggestion]
        BY <1>1, <1>3 DEF TypeOK, Apply
      <2>3. QED
        BY <1>1, <1>2, <2>1, <2>2, EditTyped DEF TypeOK
    <1>4. CASE UNCHANGED <<applied, rowVars, runVars, tasks, history>>
      BY <1>2, <1>4 DEF TypeOK, rowVars, runVars, history
    <1>5. QED
      BY <1>3, <1>4 DEF ApplyHealthAction

\* Claiming schedules is typed.
LEMMA TickTyped ==
    ASSUME TypeOK, NEW p \in Process, NEW claimed \in SUBSET Schedule,
           Tick(p, claimed)
    PROVE  TypeOK'
    <1>1. issued' \in [Schedule -> Nat] /\ token' \in [Schedule -> Nat]
      BY DEF TypeOK, Tick
    <1>2. live' \in [Schedule -> BOOLEAN]
      BY DEF TypeOK, Tick
    <1>3. runs' \subseteq Run
      <2>1. ASSUME NEW s \in claimed
            PROVE  [proc |-> p, sched |-> s, token |-> issued[s] + 1, item |-> row[s],
                    phase |-> "claimed", edits |-> edits[s], slot |-> slot[s],
                    fenced |-> FALSE] \in Run
        BY <2>1 DEF TypeOK, Run, Phase
      <2>2. QED
        BY <2>1 DEF TypeOK, Tick
    <1>4. pending' \in [Process -> SUBSET (Schedule \X Nat)]
      BY DEF TypeOK, Tick
    <1>5. QED
      BY <1>1, <1>2, <1>3, <1>4 DEF TypeOK, Tick, reviewVars, history

\* No step takes a variable out of its type.
LEMMA SchedulerTypeStep ==
    ASSUME TypeOK, [Next]_vars
    PROVE  TypeOK'
    <1>1. CASE \E s \in Schedule : UserEdit(s)
      BY <1>1, UserEditTyped
    <1>2. CASE Pass
      BY <1>2 DEF Pass, TypeOK, runVars, reviewVars, history
    <1>3. CASE \E s \in Schedule : Expire(s)
      <2> PICK s \in Schedule : Expire(s)
        BY <1>3
      <2>1. runs' \subseteq Run
        BY FenceTyped DEF TypeOK, Expire
      <2>2. QED
        BY <2>1 DEF Expire, TypeOK, reviewVars, history
    <1>4. CASE \E s \in Schedule, g \in Suggestion : ReadForReview(s, g)
      <2> PICK s \in Schedule, g \in Suggestion : ReadForReview(s, g)
        BY <1>4
      <2>1. reviews' \subseteq Review
        BY DEF ReadForReview, TypeOK, Review
      <2>2. QED
        BY <2>1 DEF ReadForReview, TypeOK, rowVars, runVars, history
    <1>5. CASE \E v \in reviews : ApplyHealthAction(v)
      BY <1>5, ApplyTyped
    <1>6. CASE \E p \in Process : Crash(p)
      BY <1>6 DEF Crash, TypeOK, rowVars, reviewVars, history
    <1>7. CASE \E p \in Process : \E claimed \in SUBSET Schedule : Tick(p, claimed)
      BY <1>7, TickTyped
    <1>8. CASE \E r \in runs : RunStep(r)
      BY <1>8, RunStepTyped
    <1>9. CASE UNCHANGED vars
      BY <1>9 DEF vars, TypeOK, rowVars, runVars, reviewVars, history
    <1>10. QED
      BY <1>1, <1>2, <1>3, <1>4, <1>5, <1>6, <1>7, <1>8, <1>9 DEF Next

\* The state of the scheduler always has its type.
THEOREM SchedulerTyped == Spec => []TypeOK
    <1>1. Init => TypeOK
      BY DEF Init, TypeOK, NoRow, Row, Last
    <1>2. TypeOK /\ [Next]_vars => TypeOK'
      BY SchedulerTypeStep
    <1>3. QED
      BY <1>1, <1>2, PTL DEF Spec
-----------------------------------------------------------------------------
(* The inductive invariant.                                                *)

ClaimInv == TokenInv /\ HeldInv /\ SnapshotInv

\* What voiding the claims of s makes of each run.
LEMMA FenceShape ==
    ASSUME runs \subseteq Run, NEW s \in Schedule, NEW q \in Fence(s)
    PROVE  \E r \in runs :
             /\ q.sched = r.sched /\ q.token = r.token
             /\ q.item = r.item /\ q.phase = r.phase
             /\ r.sched = s => q.fenced
             /\ q = IF r.sched = s THEN [r EXCEPT !.fenced = TRUE] ELSE r
    BY DEF Fence, Run

\* Voided claims are still told apart by their tokens.
LEMMA FenceUnique ==
    ASSUME runs \subseteq Run, TokenInv, NEW s \in Schedule
    PROVE  \A q, t \in Fence(s) : q.sched = t.sched /\ q.token = t.token => q = t
    <1> SUFFICES ASSUME NEW q \in Fence(s), NEW t \in Fence(s),
                        q.sched = t.sched, q.token = t.token
                 PROVE  q = t
      OBVIOUS
    <1>1. PICK r \in runs : /\ q.sched = r.sched /\ q.token = r.token
                            /\ q = IF r.sched = s THEN [r EXCEPT !.fenced = TRUE] ELSE r
      BY FenceShape
    <1>2. PICK u \in runs : /\ t.sched = u.sched /\ t.token = u.token
                            /\ t = IF u.sched = s THEN [u EXCEPT !.fenced = TRUE] ELSE u
      BY FenceShape
    <1>3. r = u
      BY <1>1, <1>2 DEF TokenInv
    <1>4. QED
      BY <1>1, <1>2, <1>3

\* What going on makes of a run.
LEMMA AdvanceShape ==
    ASSUME runs \subseteq Run, NEW r \in runs, NEW phase \in Phase,
           Advance(r, phase), NEW q \in runs'
    PROVE  \/ q \in runs
           \/ /\ q = [r EXCEPT !.phase = phase]
              /\ q.sched = r.sched /\ q.token = r.token /\ q.item = r.item
              /\ q.fenced = r.fenced /\ q.phase = phase
    BY DEF Advance, Run

\* Fewer runs and an unchanged row keep the invariant.
LEMMA ClaimFewerRuns ==
    ASSUME ClaimInv, runs' \subseteq runs, UNCHANGED <<row, token, live, issued>>
    PROVE  ClaimInv'
    BY DEF ClaimInv, TokenInv, HeldInv, SnapshotInv

\* So does a run that goes on.
LEMMA ClaimAdvance ==
    ASSUME TypeOK, ClaimInv, NEW r \in runs, NEW phase \in Phase,
           Advance(r, phase), r.phase # "failed",
           UNCHANGED <<row, token, live, issued>>
    PROVE  ClaimInv'
    <1>1. runs \subseteq Run
      BY DEF TypeOK
    <1>2. TokenInv'
      <2>1. \A q \in runs' : 0 < q.token /\ q.token <= issued[q.sched]
        BY <1>1, AdvanceShape DEF ClaimInv, TokenInv
      <2>2. \A q, t \in runs' : q.sched = t.sched /\ q.token = t.token => q = t
        <3> SUFFICES ASSUME NEW q \in runs', NEW t \in runs',
                            q.sched = t.sched, q.token = t.token
                     PROVE  q = t
          OBVIOUS
        <3>1. \A u \in runs' : u # [r EXCEPT !.phase = phase] => u \in runs \ {r}
          BY DEF Advance
        <3>2. QED
          BY <1>1, <3>1, AdvanceShape DEF ClaimInv, TokenInv
      <2>3. QED
        BY <2>1, <2>2 DEF ClaimInv, TokenInv
    <1>3. HeldInv'
      BY <1>1, AdvanceShape DEF ClaimInv, HeldInv
    <1>4. SnapshotInv'
      BY <1>1, AdvanceShape DEF ClaimInv, SnapshotInv
    <1>5. QED
      BY <1>2, <1>3, <1>4 DEF ClaimInv

\* An edit voids every claim of its row.
LEMMA ClaimEdit ==
    ASSUME TypeOK, ClaimInv, NEW s \in Schedule, NEW new \in Row, Edit(s, new)
    PROVE  ClaimInv'
    <1>1. runs \subseteq Run /\ runs' = Fence(s)
      BY DEF TypeOK, Edit
    <1>2. \A u \in Schedule : /\ u # s => /\ token'[u] = token[u]
                                          /\ live'[u] = live[u]
                                          /\ row'[u] = row[u]
                              /\ token'[s] = 0 /\ ~live'[s]
      BY DEF TypeOK, Edit
    <1>3. issued' = issued
      BY DEF Edit
    <1>4. \A r \in runs : r.sched \in Schedule /\ r.token \in Nat
      BY <1>1 DEF Run
    <1>5. TokenInv'
      <2>1. \A u \in Schedule : token'[u] <= issued[u]
        BY <1>2 DEF TypeOK, ClaimInv, TokenInv
      <2>2. \A q \in runs' : 0 < q.token /\ q.token <= issued[q.sched]
        BY <1>1, FenceShape DEF ClaimInv, TokenInv
      <2>3. \A q, t \in runs' : q.sched = t.sched /\ q.token = t.token => q = t
        BY <1>1, FenceUnique DEF ClaimInv
      <2>4. QED
        BY <1>3, <2>1, <2>2, <2>3 DEF TokenInv
    <1>6. HeldInv'
      <2> SUFFICES ASSUME NEW q \in runs'
                   PROVE  /\ ~q.fenced /\ q.phase # "failed" =>
                               token'[q.sched] = q.token /\ live'[q.sched]
                          /\ q.fenced /\ token'[q.sched] = q.token => ~live'[q.sched]
        BY DEF HeldInv
      <2>1. PICK r \in runs : /\ q.sched = r.sched /\ q.token = r.token
                              /\ r.sched = s => q.fenced
                              /\ q = IF r.sched = s THEN [r EXCEPT !.fenced = TRUE]
                                                    ELSE r
        BY <1>1, FenceShape
      <2>2. CASE r.sched = s
        BY <1>2, <2>1, <2>2
      <2>3. CASE r.sched # s
        BY <1>2, <1>4, <2>1, <2>3 DEF ClaimInv, HeldInv
      <2>4. QED
        BY <2>2, <2>3
    <1>7. SnapshotInv'
      BY <1>1, <1>2, <1>4, FenceShape DEF ClaimInv, SnapshotInv, TokenInv
    <1>8. QED
      BY <1>5, <1>6, <1>7 DEF ClaimInv

\* Expiry voids them too; the token stays.
LEMMA ClaimExpire ==
    ASSUME TypeOK, ClaimInv, NEW s \in Schedule, Expire(s)
    PROVE  ClaimInv'
    <1>1. runs \subseteq Run /\ runs' = Fence(s)
      BY DEF TypeOK, Expire
    <1>2. \A u \in Schedule : u # s => live'[u] = live[u]
      BY DEF TypeOK, Expire
    <1>3. ~live'[s] /\ UNCHANGED <<issued, token, row>>
      BY DEF TypeOK, Expire
    <1>4. \A r \in runs : r.sched \in Schedule
      BY <1>1 DEF Run
    <1>5. TokenInv'
      <2>1. \A q \in runs' : 0 < q.token /\ q.token <= issued[q.sched]
        BY <1>1, FenceShape DEF ClaimInv, TokenInv
      <2>2. \A q, t \in runs' : q.sched = t.sched /\ q.token = t.token => q = t
        BY <1>1, FenceUnique DEF ClaimInv
      <2>3. QED
        BY <1>3, <2>1, <2>2 DEF ClaimInv, TokenInv
    <1>6. HeldInv'
      <2> SUFFICES ASSUME NEW q \in runs'
                   PROVE  /\ ~q.fenced /\ q.phase # "failed" =>
                               token'[q.sched] = q.token /\ live'[q.sched]
                          /\ q.fenced /\ token'[q.sched] = q.token => ~live'[q.sched]
        BY DEF HeldInv
      <2>1. PICK r \in runs : /\ q.sched = r.sched /\ q.token = r.token
                              /\ r.sched = s => q.fenced
                              /\ q = IF r.sched = s THEN [r EXCEPT !.fenced = TRUE]
                                                    ELSE r
        BY <1>1, FenceShape
      <2>2. CASE r.sched = s
        BY <1>3, <2>1, <2>2
      <2>3. CASE r.sched # s
        BY <1>2, <1>3, <1>4, <2>1, <2>3 DEF ClaimInv, HeldInv
      <2>4. QED
        BY <2>2, <2>3
    <1>7. SnapshotInv'
      BY <1>1, <1>3, FenceShape DEF ClaimInv, SnapshotInv
    <1>8. QED
      BY <1>5, <1>6, <1>7 DEF ClaimInv

\* A claim is given to a row whose earlier claims are all void.
LEMMA ClaimTick ==
    ASSUME TypeOK, ClaimInv, NEW p \in Process, NEW claimed \in SUBSET Schedule,
           Tick(p, claimed)
    PROVE  ClaimInv'
    <1> DEFINE New(s) ==
          [proc |-> p, sched |-> s, token |-> issued[s] + 1, item |-> row[s],
           phase |-> "claimed", edits |-> edits[s], slot |-> slot[s],
           fenced |-> FALSE]
    <1>1. \A q \in runs' : q \in runs \/ \E s \in claimed : q = New(s)
      BY DEF Tick
    <1>2. \A s \in Schedule : /\ s \in claimed => /\ issued'[s] = issued[s] + 1
                                                  /\ token'[s] = issued[s] + 1
                                                  /\ live'[s] /\ ~live[s]
                                                  /\ row[s].enabled
                              /\ s \notin claimed => /\ issued'[s] = issued[s]
                                                     /\ token'[s] = token[s]
                                                     /\ live'[s] = live[s]
      BY DEF TypeOK, Tick, Claimable, Due
    <1>3. \A s \in Schedule : issued[s] \in Nat /\ token[s] \in Nat
      BY DEF TypeOK
    <1>4. \A r \in runs : r.sched \in Schedule /\ r.token \in Nat
      BY DEF TypeOK, Run
    <1>5. row' = row
      BY DEF Tick
    <1>6. TokenInv'
      <2>1. \A s \in Schedule : token'[s] <= issued'[s]
        BY <1>2, <1>3 DEF ClaimInv, TokenInv
      <2>2. \A q \in runs' : 0 < q.token /\ q.token <= issued'[q.sched]
        BY <1>1, <1>2, <1>3, <1>4 DEF ClaimInv, TokenInv
      <2>3. \A q, t \in runs' : q.sched = t.sched /\ q.token = t.token => q = t
        <3> SUFFICES ASSUME NEW q \in runs', NEW t \in runs',
                            q.sched = t.sched, q.token = t.token
                     PROVE  q = t
          OBVIOUS
        <3>1. \A r \in runs : r.token <= issued[r.sched]
          BY DEF ClaimInv, TokenInv
        <3>2. \A s \in claimed : New(s).sched = s /\ New(s).token = issued[s] + 1
          OBVIOUS
        <3> HIDE DEF New
        <3>3. CASE q \in runs /\ t \in runs
          BY <3>3 DEF ClaimInv, TokenInv
        <3>4. CASE q \in runs /\ t \notin runs
          BY <1>1, <1>3, <1>4, <3>1, <3>2, <3>4
        <3>5. CASE q \notin runs /\ t \in runs
          BY <1>1, <1>3, <1>4, <3>1, <3>2, <3>5
        <3>6. CASE q \notin runs /\ t \notin runs
          BY <1>1, <3>2, <3>6
        <3>7. QED
          BY <3>3, <3>4, <3>5, <3>6
      <2>4. QED
        BY <2>1, <2>2, <2>3 DEF TokenInv
    <1>7. HeldInv'
      <2>1. ASSUME NEW q \in runs
            PROVE  /\ ~q.fenced /\ q.phase # "failed" =>
                        token'[q.sched] = q.token /\ live'[q.sched]
                   /\ q.fenced /\ token'[q.sched] = q.token => ~live'[q.sched]
        BY <1>2, <1>3, <1>4 DEF ClaimInv, HeldInv, TokenInv
      <2>2. \A s \in claimed : token'[s] = New(s).token /\ live'[s] /\ ~New(s).fenced
        BY <1>2
      <2>3. QED
        BY <1>1, <2>1, <2>2 DEF HeldInv
    <1>8. SnapshotInv'
      <2>1. \A q \in runs : q.item.enabled
                            /\ (token'[q.sched] = q.token => q.item = row[q.sched])
        BY <1>2, <1>3, <1>4 DEF ClaimInv, SnapshotInv, TokenInv
      <2>2. \A s \in claimed : New(s).item = row[s] /\ row[s].enabled
        BY <1>2
      <2>3. QED
        BY <1>1, <1>5, <2>1, <2>2 DEF SnapshotInv
    <1>9. QED
      BY <1>6, <1>7, <1>8 DEF ClaimInv

\* Recording an outcome ends the claim it was recorded under, and only that.
LEMMA ClaimRecord ==
    ASSUME TypeOK, ClaimInv, NEW r \in runs, NEW new \in Row, Holds(r),
           Record(r.sched, new), Return(r) \/ Reject(r) \/ Advance(r, "failed")
    PROVE  ClaimInv'
    <1>1. runs \subseteq Run
      BY DEF TypeOK
    <1>2. \A q \in runs : q.sched \in Schedule /\ q.token \in Nat
      BY <1>1 DEF Run
    <1>3. \A u \in Schedule : /\ u # r.sched => /\ token'[u] = token[u]
                                                /\ live'[u] = live[u]
                                                /\ row'[u] = row[u]
                              /\ token'[r.sched] = 0 /\ ~live'[r.sched]
      BY <1>2 DEF TypeOK, Record
    <1>4. issued' = issued
      BY DEF Record
    <1>5. \A q \in runs' : \/ q \in runs /\ q # r
                           \/ /\ q = [r EXCEPT !.phase = "failed"]
                              /\ q.sched = r.sched /\ q.token = r.token
                              /\ q.item = r.item /\ q.phase = "failed"
      BY <1>1 DEF Return, Reject, Advance, Run
    <1>6. \A q \in runs : q.sched = r.sched /\ ~q.fenced /\ q.phase # "failed" => q = r
      BY DEF Holds, ClaimInv, HeldInv, TokenInv
    <1>7. TokenInv'
      <2>1. \A u \in Schedule : token'[u] <= issued[u]
        BY <1>3 DEF TypeOK, ClaimInv, TokenInv
      <2>2. \A q \in runs' : 0 < q.token /\ q.token <= issued[q.sched]
        BY <1>5 DEF ClaimInv, TokenInv
      <2>3. \A q, t \in runs' : q.sched = t.sched /\ q.token = t.token => q = t
        BY <1>5 DEF ClaimInv, TokenInv
      <2>4. QED
        BY <1>4, <2>1, <2>2, <2>3 DEF TokenInv
    <1>8. HeldInv'
      BY <1>2, <1>3, <1>5, <1>6 DEF ClaimInv, HeldInv, TokenInv
    <1>9. SnapshotInv'
      BY <1>2, <1>3, <1>5 DEF ClaimInv, SnapshotInv, TokenInv
    <1>10. QED
      BY <1>7, <1>8, <1>9 DEF ClaimInv

\* Every step of one run keeps the claims in order.
LEMMA ClaimRunStep ==
    ASSUME TypeOK, ClaimInv, NEW r \in runs, RunStep(r)
    PROVE  ClaimInv'
    <1>0. Return(r) \/ Reject(r) => runs' \subseteq runs
      BY DEF Return, Reject
    <1>1. CASE Check(r)
      <2>1. UNCHANGED <<row, token, live, issued>>
        BY <1>1 DEF Check, rowVars
      <2>2. CASE Advance(r, "running")
        BY <1>1, <2>1, <2>2, ClaimAdvance DEF Check, Phase
      <2>3. QED
        BY <1>0, <1>1, <2>1, <2>2, ClaimFewerRuns DEF Check
    <1>2. CASE CreateTask(r)
      BY <1>2, ClaimAdvance DEF CreateTask, Phase, rowVars
    <1>3. CASE HandlerEnds(r)
      BY <1>3, ClaimAdvance DEF HandlerEnds, Phase, rowVars
    <1>4. CASE RecordSuccess(r)
      <2>1. CASE Holds(r) /\ RecordSuccessRow(r)
        <3>1. PICK new \in Row : Record(r.sched, new)
          BY <2>1, OutcomeIsRow
        <3>2. QED
          BY <1>4, <2>1, <3>1, ClaimRecord DEF RecordSuccess
      <2>2. CASE NotRecorded
        <3>1. UNCHANGED <<row, token, live, issued>>
          BY <2>2 DEF NotRecorded, rowVars
        <3>2. CASE Advance(r, "failed")
          BY <1>4, <3>1, <3>2, ClaimAdvance DEF RecordSuccess, Phase
        <3>3. QED
          BY <1>0, <1>4, <3>1, <3>2, ClaimFewerRuns DEF RecordSuccess
      <2>3. QED
        BY <1>4, <2>1, <2>2 DEF RecordSuccess
    <1>5. CASE RecordFailure(r)
      <2>1. CASE Holds(r) /\ RecordFailureRow(r)
        <3>1. PICK new \in Row : Record(r.sched, new)
          BY <2>1, OutcomeIsRow
        <3>2. QED
          BY <1>5, <2>1, <3>1, ClaimRecord DEF RecordFailure
      <2>2. CASE NotRecorded
        BY <1>0, <1>5, <2>2, ClaimFewerRuns DEF RecordFailure, NotRecorded, rowVars
      <2>3. QED
        BY <1>5, <2>1, <2>2 DEF RecordFailure
    <1>6. QED
      BY <1>1, <1>2, <1>3, <1>4, <1>5 DEF RunStep

\* Every step of the scheduler keeps the claims in order.
LEMMA ClaimNext ==
    ASSUME TypeOK, ClaimInv, [Next]_vars
    PROVE  ClaimInv'
    <1>1. CASE \E s \in Schedule : UserEdit(s)
      <2> PICK s \in Schedule : UserEdit(s)
        BY <1>1
      <2>1. PICK new \in Row : Edit(s, new)
        BY UserEditWritesRow
      <2>2. QED
        BY <2>1, ClaimEdit
    <1>2. CASE Pass
      BY <1>2, ClaimFewerRuns DEF Pass, runVars
    <1>3. CASE \E s \in Schedule : Expire(s)
      BY <1>3, ClaimExpire
    <1>4. CASE \E s \in Schedule, g \in Suggestion : ReadForReview(s, g)
      BY <1>4, ClaimFewerRuns DEF ReadForReview, rowVars, runVars
    <1>5. CASE \E v \in reviews : ApplyHealthAction(v)
      <2> PICK v \in reviews : ApplyHealthAction(v)
        BY <1>5
      <2>1. v.sched \in Schedule
        BY DEF TypeOK, Review
      <2>2. CASE Apply(v, v.sched)
        <3>1. PICK new \in Row : Edit(v.sched, new)
          BY <2>1, <2>2, ApplyWritesRow
        <3>2. QED
          BY <2>1, <3>1, ClaimEdit
      <2>3. CASE UNCHANGED <<applied, rowVars, runVars, tasks, history>>
        BY <2>3, ClaimFewerRuns DEF rowVars, runVars
      <2>4. QED
        BY <2>2, <2>3 DEF ApplyHealthAction
    <1>6. CASE \E p \in Process : Crash(p)
      BY <1>6, ClaimFewerRuns DEF Crash, rowVars
    <1>7. CASE \E p \in Process : \E claimed \in SUBSET Schedule : Tick(p, claimed)
      BY <1>7, ClaimTick
    <1>8. CASE \E r \in runs : RunStep(r)
      BY <1>8, ClaimRunStep
    <1>9. CASE UNCHANGED vars
      BY <1>9, ClaimFewerRuns DEF vars, rowVars, runVars
    <1>10. QED
      BY <1>1, <1>2, <1>3, <1>4, <1>5, <1>6, <1>7, <1>8, <1>9 DEF Next

\* A claim that nothing has voided is a lock: two runs of a schedule never hold
\* one at the same time.
LEMMA HeldClaimsAreUnique ==
    ClaimInv => OneRunPerClaim
    BY DEF ClaimInv, TokenInv, HeldInv, OneRunPerClaim

\* The scheduler's claims are always in order.
LEMMA ClaimsInOrder == Spec => [](TypeOK /\ ClaimInv)
    <1>1. Init => ClaimInv
      BY DEF Init, ClaimInv, TokenInv, HeldInv, SnapshotInv
    <1>2. TypeOK /\ ClaimInv /\ [Next]_vars => ClaimInv'
      BY ClaimNext
    <1>3. QED
      BY <1>1, <1>2, SchedulerTyped, PTL DEF Spec

\* For any number of schedules and processes, however they crash, are edited or
\* outlive their claims: two handlers of one schedule overlap only when the
\* claim of the first has expired or was cleared by an edit.
THEOREM ClaimsExclude == Spec => []OneRunPerClaim
    BY ClaimsInOrder, HeldClaimsAreUnique, PTL

\* An outcome is recorded only by a run that holds its claim.
LEMMA OutcomeNeedsClaim ==
    ASSUME [Next]_vars, outcomes' # outcomes
    PROVE  \E t \in runs : Holds(t) /\ runs \ {t} \subseteq runs'
    <1>1. PICK t \in runs : RecordSuccess(t) \/ RecordFailure(t)
      <2>1. ~Pass /\ ~\E s \in Schedule : UserEdit(s) \/ Expire(s)
        BY DEF UserEdit, Remove, Pause, Resume, Upsert, Reschedule, Edit, Pass,
               Expire, history
      <2>2. ~\E s \in Schedule, g \in Suggestion : ReadForReview(s, g)
        BY DEF ReadForReview, history
      <2>3. ~\E v \in reviews : ApplyHealthAction(v)
        BY DEF ApplyHealthAction, Apply, Edit, history
      <2>4. ~\E p \in Process : Crash(p) \/ \E claimed \in SUBSET Schedule : Tick(p, claimed)
        BY DEF Crash, Tick, history
      <2>5. ~UNCHANGED vars
        BY DEF vars, history
      <2>6. \A t \in runs : RunStep(t) => RecordSuccess(t) \/ RecordFailure(t)
        BY DEF RunStep, Check, CreateTask, HandlerEnds, history
      <2>7. QED
        BY <2>1, <2>2, <2>3, <2>4, <2>5, <2>6 DEF Next
    <1>2. Holds(t)
      BY <1>1 DEF RecordSuccess, RecordFailure, NotRecorded, history
    <1>3. runs \ {t} \subseteq runs'
      BY <1>1 DEF RecordSuccess, RecordFailure, Return, Reject, Advance
    <1>4. QED
      BY <1>2, <1>3

\* A handler is started only for a run that holds its claim.
LEMMA StartNeedsClaim ==
    ASSUME TypeOK, [Next]_vars, NEW q \in runs', q.phase = "running"
    PROVE  \E t \in runs : /\ t.sched = q.sched /\ t.token = q.token
                           /\ t.phase = "running" \/ Holds(t)
    <1>0. runs \subseteq Run
      BY DEF TypeOK
    <1>1. CASE q \in runs
      BY <1>1
    <1>2. CASE \E s \in Schedule : runs' = Fence(s)
      BY <1>0, <1>2, FenceShape
    <1>3. CASE \E p \in Process : \E claimed \in SUBSET Schedule : Tick(p, claimed)
      BY <1>1, <1>3 DEF Tick
    <1>4. ASSUME NEW t \in runs, RunStep(t), q \notin runs
          PROVE  t.sched = q.sched /\ t.token = q.token /\ Holds(t)
      <2>1. CASE Check(t)
        <3>1. Holds(t) /\ Advance(t, "running")
          BY <1>4, <2>1 DEF Check, Return, Reject
        <3>2. QED
          BY <1>0, <1>4, <3>1, AdvanceShape DEF Phase
      <2>2. CASE ~Check(t)
        <3>1. CASE \E phase \in Phase \ {"running"} : Advance(t, phase)
          BY <1>0, <1>4, <3>1, AdvanceShape
        <3>2. CASE Return(t) \/ Reject(t)
          BY <1>4, <3>2 DEF Return, Reject
        <3>3. QED
          BY <1>4, <2>2, <3>1, <3>2
          DEF RunStep, CreateTask, HandlerEnds, RecordSuccess, RecordFailure, Phase
      <2>3. QED
        BY <2>1, <2>2
    <1>5. CASE runs' \subseteq runs
      BY <1>1, <1>5
    <1>6. QED
      <2>1. ASSUME NEW s \in Schedule, UserEdit(s)
            PROVE  runs' = Fence(s)
        BY <2>1 DEF UserEdit, Remove, Pause, Resume, Upsert, Reschedule, Edit
      <2>2. ASSUME NEW s \in Schedule, Expire(s)
            PROVE  runs' = Fence(s)
        BY <2>2 DEF Expire
      <2>3. ASSUME NEW v \in reviews, ApplyHealthAction(v)
            PROVE  v.sched \in Schedule /\ (runs' = Fence(v.sched) \/ runs' = runs)
        <3>1. v.sched \in Schedule
          BY DEF TypeOK, Review
        <3>2. QED
          BY <2>3, <3>1 DEF ApplyHealthAction, Apply, Edit, runVars
      <2>4. ASSUME NEW s \in Schedule, NEW g \in Suggestion, ReadForReview(s, g)
            PROVE  runs' = runs
        BY <2>4 DEF ReadForReview, runVars
      <2>5. ASSUME NEW p \in Process, Crash(p)
            PROVE  runs' \subseteq runs
        BY <2>5 DEF Crash
      <2>6. Pass \/ UNCHANGED vars => runs' = runs
        BY DEF Pass, vars, runVars
      <2>7. QED
        BY <1>1, <1>2, <1>3, <1>4, <1>5, <2>1, <2>2, <2>3, <2>4, <2>5, <2>6 DEF Next

\* However processes, edits and expiry interleave: a run whose claim was voided
\* never starts its handler, and its outcome is dropped, so an old execution
\* overwrites neither a newer configuration nor a newer claim.
THEOREM OldRunsArePowerless == Spec => FencedRunIsPowerless
    <1>1. ASSUME TypeOK, ClaimInv, [Next]_vars, NEW r \in runs, r.fenced
          PROVE  /\ ~\E q \in runs' : /\ r.phase = "claimed" /\ q.phase = "running"
                                      /\ q.sched = r.sched /\ q.token = r.token
                 /\ r \notin runs' => outcomes' = outcomes
      <2>1. ~Holds(r)
        BY <1>1 DEF ClaimInv, HeldInv, Holds
      <2>2. ASSUME NEW q \in runs', r.phase = "claimed", q.phase = "running",
                   q.sched = r.sched, q.token = r.token
            PROVE  FALSE
        <3>1. PICK t \in runs : /\ t.sched = q.sched /\ t.token = q.token
                                /\ t.phase = "running" \/ Holds(t)
          BY <1>1, <2>2, StartNeedsClaim
        <3>2. t = r
          BY <1>1, <2>2, <3>1 DEF ClaimInv, TokenInv
        <3>3. QED
          BY <2>1, <2>2, <3>1, <3>2
      <2>3. r \notin runs' => outcomes' = outcomes
        BY <1>1, <2>1, OutcomeNeedsClaim
      <2>4. QED
        BY <2>2, <2>3
    <1>2. TypeOK /\ ClaimInv /\ [Next]_vars
            => [\A r \in runs : r.fenced =>
                  /\ ~\E q \in runs' : /\ r.phase = "claimed" /\ q.phase = "running"
                                       /\ q.sched = r.sched /\ q.token = r.token
                  /\ r \notin runs' => outcomes' = outcomes]_vars
      BY <1>1
    <1>3. QED
      BY <1>2, ClaimsInOrder, PTL DEF Spec, FencedRunIsPowerless

\* The functions on a schedule keep dead letters in order.
LEMMA DeadLetterFunctions ==
    ASSUME NEW item \in Row, NEW n \in Nat, NEW once \in BOOLEAN
    PROVE  /\ DeadLetterRow(NoRow) /\ DeadLetterRow(Created(item, once, n))
           /\ DeadLetterRow(MarkSuccess(item, n)) /\ DeadLetterRow(Resumed(item, n))
           /\ DeadLetterRow(item) => /\ DeadLetterRow(Paused(item))
                                    /\ DeadLetterRow(Rescheduled(item, once, n))
           /\ DeadLetterRow(item) /\ item.enabled => DeadLetterRow(MarkFailure(item, n))
    <1>1. DeadLetterRow(NoRow) /\ DeadLetterRow(Created(item, once, n))
      BY SchedulerAssumption DEF DeadLetterRow, NoRow, Created
    <1>2. DeadLetterRow(MarkSuccess(item, n)) /\ DeadLetterRow(Resumed(item, n))
      BY SchedulerAssumption DEF DeadLetterRow, MarkSuccess, Resumed
    <1>3. DeadLetterRow(item) => /\ DeadLetterRow(Paused(item))
                                /\ DeadLetterRow(Rescheduled(item, once, n))
      BY DEF DeadLetterRow, Paused, Rescheduled
    <1>4. ASSUME DeadLetterRow(item), item.enabled
          PROVE  DeadLetterRow(MarkFailure(item, n))
      <2>1. item.failures \in Nat /\ item.failures < MaxFailures
        BY <1>4, SchedulerAssumption DEF DeadLetterRow, Row
      <2>2. QED
        BY <2>1, SchedulerAssumption DEF DeadLetterRow, MarkFailure
    <1>5. QED
      BY <1>1, <1>2, <1>3, <1>4

\* So do the edits of users and reviewers.
LEMMA DeadLetterEdit ==
    ASSUME TypeOK, DeadLetterInv, NEW s \in Schedule,
           UserEdit(s) \/ \E v \in reviews : Apply(v, s)
    PROVE  DeadLetterInv'
    <1>1. row[s] \in Row /\ Future \subseteq Nat /\ DeadLetterRow(row[s])
      BY InstantsTyped DEF TypeOK, DeadLetterInv
    <1>2. \E new : Edit(s, new) /\ DeadLetterRow(new)
      <2>1. CASE Remove(s)
        BY <1>1, <2>1, DeadLetterFunctions DEF Remove
      <2>2. CASE Pause(s)
        BY <1>1, <2>2, DeadLetterFunctions DEF Pause
      <2>3. CASE Resume(s)
        BY <1>1, <2>3, DeadLetterFunctions DEF Resume
      <2>4. CASE \E once \in BOOLEAN : Upsert(s, once)
        BY <1>1, <2>4, DeadLetterFunctions DEF Upsert
      <2>5. CASE \E once \in BOOLEAN : Reschedule(s, once)
        BY <1>1, <2>5, DeadLetterFunctions DEF Reschedule
      <2>6. CASE \E v \in reviews : Apply(v, s)
        BY <1>1, <2>6, DeadLetterFunctions DEF Apply
      <2>7. QED
        BY <2>1, <2>2, <2>3, <2>4, <2>5, <2>6 DEF UserEdit
    <1>3. QED
      BY <1>2 DEF TypeOK, Edit, DeadLetterInv

\* And so does an outcome, because the run started from the row as it is.
LEMMA DeadLetterOutcome ==
    ASSUME TypeOK, ClaimInv, DeadLetterInv, NEW r \in runs, Holds(r),
           RecordSuccessRow(r) \/ RecordFailureRow(r)
    PROVE  DeadLetterInv'
    <1>1. r.item = row[r.sched] /\ r.item.enabled
      BY DEF Holds, ClaimInv, SnapshotInv
    <1>2. r.sched \in Schedule /\ r.item \in Row
      BY DEF TypeOK, Run
    <1>3. \A n \in Future \cup {now} : /\ DeadLetterRow(MarkSuccess(r.item, n))
                                       /\ DeadLetterRow(MarkFailure(r.item, n))
      BY <1>1, <1>2, InstantsTyped, DeadLetterFunctions DEF DeadLetterInv
    <1>4. QED
      BY <1>2, <1>3
      DEF TypeOK, RecordSuccessRow, RecordFailureRow, Record, DeadLetterInv

\* A schedule is a dead letter exactly when it has failed MaxFailures times in a
\* row, and then it stays disabled until somebody resumes or replaces it.
THEOREM DeadLettersInOrder == Spec => []DeadLetterInv
    <1>1. Init => DeadLetterInv
      BY SchedulerAssumption DEF Init, DeadLetterInv, DeadLetterRow, NoRow
    <1>2. TypeOK /\ ClaimInv /\ DeadLetterInv /\ [Next]_vars => DeadLetterInv'
      <2> SUFFICES ASSUME TypeOK, ClaimInv, DeadLetterInv, [Next]_vars
                   PROVE  DeadLetterInv'
        OBVIOUS
      <2>1. CASE row' = row
        BY <2>1 DEF DeadLetterInv
      <2>2. CASE \E s \in Schedule : UserEdit(s)
        BY <2>2, DeadLetterEdit
      <2>3. CASE \E v \in reviews : ApplyHealthAction(v)
        <3> PICK v \in reviews : ApplyHealthAction(v)
          BY <2>3
        <3>1. v.sched \in Schedule
          BY DEF TypeOK, Review
        <3>2. CASE Apply(v, v.sched)
          BY <3>1, <3>2, DeadLetterEdit
        <3>3. QED
          BY <2>1, <3>2 DEF ApplyHealthAction, rowVars
      <2>4. CASE \E r \in runs : RunStep(r)
        <3> PICK r \in runs : RunStep(r)
          BY <2>4
        <3>1. row' = row \/ (Holds(r) /\ (RecordSuccessRow(r) \/ RecordFailureRow(r)))
          BY DEF RunStep, Check, CreateTask, HandlerEnds, RecordSuccess,
                 RecordFailure, NotRecorded, rowVars
        <3>2. QED
          BY <2>1, <3>1, DeadLetterOutcome
      <2>5. QED
        BY <2>1, <2>2, <2>3, <2>4
        DEF Next, Pass, Expire, ReadForReview, Crash, Tick, vars, rowVars
    <1>3. QED
      BY <1>1, <1>2, ClaimsInOrder, PTL DEF Spec

-----------------------------------------------------------------------------
(* Occurrences, their attempts, and what a reviewer has read.              *)

\* The invariants of claims and dead letters, in one.
LEMMA ClaimsAndDeadLetters == Spec => [](TypeOK /\ ClaimInv /\ DeadLetterInv)
    BY ClaimsInOrder, DeadLettersInOrder, PTL

\* The clock does not go back.
LEMMA ClockStep ==
    ASSUME TypeOK, [Next]_vars
    PROVE  now \in Nat /\ now' \in Nat /\ now <= now'
    <1>1. now' = now \/ (now' = now + 1)
      BY DEF Next, UserEdit, Remove, Pause, Resume, Upsert, Reschedule, Edit,
             Expire, Pass, ReadForReview, ApplyHealthAction, Apply, Crash, Tick,
             RunStep, Check, CreateTask, HandlerEnds, RecordSuccess,
             RecordFailure, RecordSuccessRow, RecordFailureRow, Record,
             NotRecorded, vars, rowVars
    <1>2. QED
      BY <1>1 DEF TypeOK

\* What an edit does to a schedule.
Edited(s) ==
    /\ edits'[s] = edits[s] + 1
    /\ outcomes'[s] = outcomes[s]
    /\ \/ /\ slot'[s] = slot[s]
          /\ row'[s].next = row[s].next /\ row'[s].failures = row[s].failures
       \/ slot'[s] = slot[s] + 1

\* What a success does to it, and a failure.
Succeeded(s) ==
    /\ edits'[s] = edits[s]
    /\ outcomes'[s] = outcomes[s] + 1
    /\ slot'[s] = slot[s] + 1
    /\ \E n \in Nat : n > now /\ row'[s] = MarkSuccess(row[s], n)
Failed(s) ==
    /\ edits'[s] = edits[s]
    /\ outcomes'[s] = outcomes[s] + 1
    /\ slot'[s] = slot[s]
    /\ \E n \in Nat : /\ row'[s] = MarkFailure(row[s], n)
                      /\ n > now \/ ~row'[s].enabled

\* Nothing but edits and outcomes changes a schedule.
Untouched(s) ==
    /\ row'[s] = row[s] /\ slot'[s] = slot[s]
    /\ edits'[s] = edits[s] /\ outcomes'[s] = outcomes[s]

\* An edit of one schedule is an edit of it and of no other.
LEMMA EditShape ==
    ASSUME TypeOK, NEW s \in Schedule, NEW new \in Row, Edit(s, new),
           NEW u \in Schedule
    PROVE  Edited(u) \/ Untouched(u)
    <1>1. CASE u = s
      <2>1. row'[s] = new /\ edits'[s] = edits[s] + 1 /\ outcomes'[s] = outcomes[s]
        BY DEF Edit, TypeOK
      <2>2. slot'[s] = IF new.next = row[s].next /\ new.failures = row[s].failures
                       THEN slot[s] ELSE slot[s] + 1
        BY DEF Edit, TypeOK
      <2>3. QED
        BY <1>1, <2>1, <2>2 DEF Edited
    <1>2. CASE u # s
      BY <1>2 DEF Edit, TypeOK, Untouched
    <1>3. QED
      BY <1>1, <1>2

\* A step of a run leaves every schedule alone or records its outcome.
LEMMA RunShape ==
    ASSUME TypeOK, ClaimInv, NEW r \in runs, RunStep(r), NEW u \in Schedule
    PROVE  \/ Untouched(u)
           \/ /\ u = r.sched /\ r.item = row[u] /\ row[u].enabled
              /\ Succeeded(u) \/ Failed(u)
    <1>1. CASE UNCHANGED <<row, slot, edits, outcomes>>
      BY <1>1 DEF Untouched
    <1>2. CASE Holds(r) /\ (RecordSuccessRow(r) \/ RecordFailureRow(r))
      <2>1. r.item = row[r.sched] /\ r.item.enabled
        BY <1>2 DEF Holds, ClaimInv, SnapshotInv
      <2>2. r.sched \in Schedule
        BY DEF TypeOK, Run
      <2>3. CASE u # r.sched
        BY <1>2, <2>3 DEF RecordSuccessRow, RecordFailureRow, Record, TypeOK, Untouched
      <2>4. CASE u = r.sched /\ RecordSuccessRow(r)
        <3>1. PICK n \in Future : Record(u, MarkSuccess(r.item, n))
          BY <2>4 DEF RecordSuccessRow
        <3>2. n \in Nat /\ n > now
          BY InstantsTyped DEF Future, TypeOK
        <3>3. Succeeded(u)
          BY <2>1, <2>4, <3>1, <3>2 DEF RecordSuccessRow, Record, TypeOK, Succeeded
        <3>4. QED
          BY <2>1, <2>4, <3>3
      <2>5. CASE u = r.sched /\ RecordFailureRow(r)
        <3>1. PICK n \in Future \cup {now} :
                /\ n = now <=> MarkFailure(r.item, n).last = "dead-letter"
                /\ Record(u, MarkFailure(r.item, n))
          BY <2>5 DEF RecordFailureRow
        <3>2. n \in Nat /\ (n # now => n > now)
          BY InstantsTyped DEF Future, TypeOK
        <3>3. n = now => ~MarkFailure(r.item, n).enabled
          BY <3>1 DEF MarkFailure
        <3>4. row'[u] = MarkFailure(row[u], n)
          BY <2>1, <2>5, <3>1 DEF Record, TypeOK
        <3>5. Failed(u)
          BY <2>1, <2>5, <3>1, <3>2, <3>3, <3>4
          DEF RecordFailureRow, Record, TypeOK, Failed
        <3>6. QED
          BY <2>1, <2>5, <3>5
      <2>6. QED
        BY <1>2, <2>3, <2>4, <2>5
    <1>3. QED
      BY <1>1, <1>2
      DEF RunStep, Check, CreateTask, HandlerEnds, RecordSuccess, RecordFailure,
          NotRecorded, rowVars, history

\* What a step does to a schedule: nothing, an edit, or an outcome.
LEMMA ScheduleShape ==
    ASSUME TypeOK, ClaimInv, [Next]_vars, NEW u \in Schedule
    PROVE  \/ Untouched(u)
           \/ Edited(u)
           \/ /\ \E r \in runs : r.sched = u /\ r.item = row[u]
              /\ row[u].enabled
              /\ Succeeded(u) \/ Failed(u)
    <1>1. CASE UNCHANGED <<row, slot, edits, outcomes>>
      BY <1>1 DEF Untouched
    <1>2. ASSUME NEW s \in Schedule, UserEdit(s)
          PROVE  Edited(u) \/ Untouched(u)
      BY <1>2, UserEditWritesRow, EditShape
    <1>3. ASSUME NEW v \in reviews, Apply(v, v.sched)
          PROVE  Edited(u) \/ Untouched(u)
      <2>1. v.sched \in Schedule
        BY DEF TypeOK, Review
      <2>2. QED
        BY <1>3, <2>1, ApplyWritesRow, EditShape
    <1>4. CASE \E r \in runs : RunStep(r)
      BY <1>4, RunShape
    <1>5. QED
      BY <1>1, <1>2, <1>3, <1>4
      DEF Next, Expire, Pass, ReadForReview, ApplyHealthAction, Crash, Tick, vars,
          rowVars, history

\* A run was there before, or has just claimed its schedule, which was due.
LEMMA RunOrigin ==
    ASSUME TypeOK, [Next]_vars, NEW q \in runs'
    PROVE  \/ \E r \in runs : q.sched = r.sched /\ q.item = r.item /\ q.slot = r.slot
           \/ /\ q.sched \in Schedule /\ Due(q.sched)
              /\ q.item = row[q.sched] /\ q.slot = slot[q.sched]
    <1>1. runs \subseteq Run
      BY DEF TypeOK
    <1>2. ASSUME NEW s \in Schedule, runs' = Fence(s)
          PROVE  \E r \in runs : q.sched = r.sched /\ q.item = r.item /\ q.slot = r.slot
      BY <1>1, <1>2 DEF Fence, Run
    <1>3. CASE \E s \in Schedule : UserEdit(s) \/ Expire(s)
      BY <1>2, <1>3
      DEF UserEdit, Remove, Pause, Resume, Upsert, Reschedule, Edit, Expire
    <1>4. CASE \E v \in reviews : ApplyHealthAction(v)
      <2> PICK v \in reviews : ApplyHealthAction(v)
        BY <1>4
      <2>1. v.sched \in Schedule
        BY DEF TypeOK, Review
      <2>2. QED
        BY <1>2, <2>1 DEF ApplyHealthAction, Apply, Edit, runVars
    <1>5. CASE \E p \in Process, claimed \in SUBSET Schedule : Tick(p, claimed)
      <2> PICK p \in Process, claimed \in SUBSET Schedule : Tick(p, claimed)
        BY <1>5
      <2>1. q \in runs \/ \E s \in claimed :
              q = [proc |-> p, sched |-> s, token |-> issued[s] + 1, item |-> row[s],
                   phase |-> "claimed", edits |-> edits[s], slot |-> slot[s],
                   fenced |-> FALSE]
        BY DEF Tick
      <2>2. \A s \in claimed : s \in Schedule /\ Due(s)
        BY DEF Tick, Claimable
      <2>3. QED
        BY <2>1, <2>2
    <1>6. CASE \E r \in runs : RunStep(r)
      <2> PICK r \in runs : RunStep(r)
        BY <1>6
      <2>1. \/ runs' = runs \ {r}
            \/ \E phase \in Phase : Advance(r, phase)
        BY DEF RunStep, Check, CreateTask, HandlerEnds, RecordSuccess,
               RecordFailure, Return, Reject, Phase
      <2>2. QED
        BY <1>1, <2>1, AdvanceShape DEF Run
    <1>7. QED
      BY <1>3, <1>4, <1>5, <1>6
      DEF Next, Pass, ReadForReview, Crash, vars, runVars

\* A task was there before, or is the one of a run.
LEMMA TaskOrigin ==
    ASSUME TypeOK, [Next]_vars, NEW s \in Schedule, NEW t \in tasks'[s]
    PROVE  t \in tasks[s] \/ \E r \in runs : r.sched = s /\ t = NewTask(r)
    <1>1. CASE tasks' = tasks
      BY <1>1
    <1>2. CASE \E r \in runs : CreateTask(r)
      BY <1>2 DEF CreateTask, TypeOK, Run
    <1>3. QED
      BY <1>1, <1>2
      DEF Next, UserEdit, Remove, Pause, Resume, Upsert, Reschedule, Edit, Expire,
          Pass, ReadForReview, ApplyHealthAction, Apply, Crash, Tick, RunStep,
          Check, HandlerEnds, RecordSuccess, RecordFailure, RecordSuccessRow,
          RecordFailureRow, Record, NotRecorded, vars

\* What a run holds was due when it claimed it, and had not failed too often.
LEMMA DueStep ==
    ASSUME TypeOK, ClaimInv, DeadLetterInv, DueInv, [Next]_vars
    PROVE  DueInv'
    <1> SUFFICES ASSUME NEW q \in runs'
                 PROVE  q.item.next <= now' /\ q.item.failures < MaxFailures
      BY DEF DueInv
    <1>1. now \in Nat /\ now' \in Nat /\ now <= now'
      BY ClockStep
    <1>2. CASE \E r \in runs : q.item = r.item
      <2> PICK r \in runs : q.item = r.item
        BY <1>2
      <2>1. r.item.next \in Nat /\ r.item.next <= now
        BY DEF TypeOK, Run, Row, DueInv
      <2>2. QED
        BY <1>1, <2>1 DEF DueInv
    <1>3. CASE q.sched \in Schedule /\ Due(q.sched) /\ q.item = row[q.sched]
      <2>1. row[q.sched] \in Row /\ DeadLetterRow(row[q.sched])
        BY <1>3 DEF TypeOK, DeadLetterInv
      <2>2. row[q.sched].next \in Nat /\ row[q.sched].failures \in Nat
        BY <2>1 DEF Row
      <2>3. row[q.sched].failures < MaxFailures
        BY <1>3, <2>1, <2>2, SchedulerAssumption DEF Due, DeadLetterRow
      <2>4. QED
        BY <1>1, <1>3, <2>2, <2>3 DEF Due
    <1>4. QED
      BY <1>2, <1>3, RunOrigin

\* The row's attempt.
RowAttempt(s) == [slot |-> slot[s], failures |-> row[s].failures, next |-> row[s].next]

\* Attempts are attempts.
LEMMA AttemptsTyped ==
    ASSUME TypeOK, NEW s \in Schedule
    PROVE  Attempts(s) \subseteq Attempt /\ RowAttempt(s) \in Attempts(s)
    <1>1. RowAttempt(s) \in Attempt
      BY DEF TypeOK, Row, RowAttempt, Attempt
    <1>2. \A r \in runs :
            [slot |-> r.slot, failures |-> r.item.failures, next |-> r.item.next] \in Attempt
      BY DEF TypeOK, Run, Row, Attempt
    <1>3. \A t \in tasks[s] :
            [slot |-> t.slot, failures |-> t.failures, next |-> t.key] \in Attempt
      BY DEF TypeOK, Task, Attempt
    <1>4. QED
      BY <1>1, <1>2, <1>3 DEF Attempts, RowAttempt

\* A step gives an occurrence no attempt but that of its row.
LEMMA AttemptOrigin ==
    ASSUME TypeOK, [Next]_vars, NEW s \in Schedule, NEW a \in Attempts(s)'
    PROVE  a \in Attempts(s) \/ a = RowAttempt(s)'
    <1>1. CASE a = RowAttempt(s)'
      BY <1>1
    <1>2. ASSUME NEW q \in runs', q.sched = s,
                 a = [slot |-> q.slot, failures |-> q.item.failures, next |-> q.item.next]
          PROVE  a \in Attempts(s)
      BY <1>2, RunOrigin DEF Attempts
    <1>3. ASSUME NEW t \in tasks'[s],
                 a = [slot |-> t.slot, failures |-> t.failures, next |-> t.key]
          PROVE  a \in Attempts(s)
      <2>1. CASE t \in tasks[s]
        BY <1>3, <2>1 DEF Attempts
      <2>2. CASE \E r \in runs : r.sched = s /\ t = NewTask(r)
        <3> PICK r \in runs : r.sched = s /\ t = NewTask(r)
          BY <2>2
        <3>1. a = [slot |-> r.slot, failures |-> r.item.failures, next |-> r.item.next]
          BY <1>3 DEF NewTask
        <3>2. QED
          BY <3>1 DEF Attempts
      <2>3. QED
        BY <2>1, <2>2, TaskOrigin
    <1>4. QED
      BY <1>1, <1>2, <1>3 DEF Attempts, RowAttempt

\* The failures of an occurrence tell its attempts apart.
LEMMA AttemptStep ==
    ASSUME TypeOK, ClaimInv, DueInv, AttemptInv, [Next]_vars
    PROVE  AttemptInv'
    <1> SUFFICES ASSUME NEW s \in Schedule
                 PROVE  /\ \A a, b \in Attempts(s)' :
                             a.slot = b.slot /\ a.failures = b.failures
                               => a.next = b.next
                        /\ \A a \in Attempts(s)' :
                             /\ a.slot <= slot'[s]
                             /\ a.slot = slot'[s] => a.failures <= row'[s].failures
                        /\ \A t \in tasks'[s] : t.failures < MaxFailures
      BY DEF AttemptInv
    <1> DEFINE new == RowAttempt(s)'
               old == RowAttempt(s)
    <1>1. TypeOK'
      BY SchedulerTypeStep
    <1>2. Attempts(s) \subseteq Attempt /\ old \in Attempts(s) /\ new \in Attempt
      BY <1>1, AttemptsTyped DEF TypeOK, Row, RowAttempt, Attempt
    <1>3. Attempts(s)' \subseteq Attempts(s) \cup {new}
      BY AttemptOrigin
    <1>4. /\ \A a, b \in Attempts(s) :
               a.slot = b.slot /\ a.failures = b.failures => a.next = b.next
          /\ \A a \in Attempts(s) :
               /\ a.slot <= old.slot
               /\ a.slot = old.slot => a.failures <= old.failures
      BY DEF AttemptInv, RowAttempt
    <1>5. \/ new = old
          \/ new.slot = old.slot + 1
          \/ new.slot = old.slot /\ new.failures = old.failures + 1
      <2>1. CASE Untouched(s) \/ Edited(s)
        BY <2>1 DEF Untouched, Edited, RowAttempt
      <2>2. CASE Succeeded(s)
        BY <2>2 DEF Succeeded, RowAttempt
      <2>3. CASE Failed(s)
        BY <2>3 DEF Failed, RowAttempt, MarkFailure
      <2>4. QED
        BY <2>1, <2>2, <2>3, ScheduleShape
    <1>6. \A t \in tasks'[s] : t.failures < MaxFailures
      BY TaskOrigin DEF AttemptInv, DueInv, NewTask
    <1>7. /\ slot'[s] = new.slot /\ row'[s].failures = new.failures
      BY DEF RowAttempt
    <1> HIDE DEF new, old
    <1>8. /\ \A a \in Attempts(s) : a.slot \in Nat /\ a.failures \in Nat
          /\ new.slot \in Nat /\ new.failures \in Nat
          /\ old.slot \in Nat /\ old.failures \in Nat
      BY <1>2 DEF Attempt
    <1>9. \A a \in Attempts(s) :
            \/ new = old
            \/ a.slot < new.slot
            \/ a.slot = new.slot /\ a.failures < new.failures
      BY <1>4, <1>5, <1>8
    <1>10. \A a \in Attempts(s) :
             /\ a.slot <= new.slot
             /\ a.slot = new.slot => a.failures <= new.failures
             /\ a.slot = new.slot /\ a.failures = new.failures => a.next = new.next
      BY <1>2, <1>4, <1>8, <1>9
    <1>11. QED
      BY <1>3, <1>4, <1>6, <1>7, <1>8, <1>10

\* However processes overlap, crash or lose their outcomes, one occurrence
\* starts at most MaxFailures tasks, for any number of schedules and processes.
LEMMA AttemptsBoundTasks ==
    ASSUME TypeOK, AttemptInv
    PROVE  TasksBounded
    <1> SUFFICES ASSUME NEW s \in Schedule, NEW t \in tasks[s]
                 PROVE  Cardinality({u \in tasks[s] : u.slot = t.slot}) <= MaxFailures
      BY DEF TasksBounded
    <1> DEFINE S == {u \in tasks[s] : u.slot = t.slot}
               T == 0..(MaxFailures - 1)
               f == [u \in S |-> u.failures]
    <1>1. \A u \in S : u \in Task /\ u.failures \in T
      BY SchedulerAssumption DEF TypeOK, Task, AttemptInv
    <1>2. ASSUME NEW u \in S, NEW w \in S, u.failures = w.failures
          PROVE  u = w
      <2>1. /\ [slot |-> u.slot, failures |-> u.failures, next |-> u.key] \in Attempts(s)
            /\ [slot |-> w.slot, failures |-> w.failures, next |-> w.key] \in Attempts(s)
        BY DEF Attempts
      <2>2. u.key = w.key
        BY <1>2, <2>1 DEF AttemptInv
      <2>3. QED
        BY <1>1, <1>2, <2>2 DEF Task
    <1>3. f \in Injection(S, T)
      BY <1>1, <1>2 DEF Injection, IsInjective
    <1>4. IsFiniteSet(T) /\ Cardinality(T) = MaxFailures
      <2>1. 0 \in Int /\ MaxFailures - 1 \in Int /\ ~(0 > MaxFailures - 1)
        BY SchedulerAssumption
      <2>2. (MaxFailures - 1) - 0 + 1 = MaxFailures
        BY SchedulerAssumption
      <2>3. QED
        BY <2>1, <2>2, FS_Interval
    <1> HIDE DEF S, T, f
    <1>5. Cardinality(S) <= Cardinality(T)
      BY <1>3, <1>4, FS_Injection
    <1>6. QED
      BY <1>4, <1>5 DEF S

\* What a request read, and the outcomes since.
LEMMA ReviewStep ==
    ASSUME TypeOK, ClaimInv, DueInv, ReviewInv, [Next]_vars
    PROVE  ReviewInv'
    <1> SUFFICES ASSUME NEW v \in reviews'
                 PROVE  /\ v.edits <= edits'[v.sched]
                        /\ v.edits = edits'[v.sched] =>
                             \/ /\ outcomes'[v.sched] = v.outcomes
                                /\ row'[v.sched] = v.expected
                             \/ /\ v.expected.enabled
                                /\ \/ row'[v.sched].next > v.expected.next
                                   \/ ~row'[v.sched].enabled
      BY DEF ReviewInv
    <1>1. CASE v \notin reviews
      <2>1. PICK s \in Schedule, g \in Suggestion : ReadForReview(s, g)
        BY <1>1
        DEF Next, UserEdit, Remove, Pause, Resume, Upsert, Reschedule, Expire, Pass,
            ApplyHealthAction, Crash, Tick, RunStep, Check, CreateTask, HandlerEnds,
            RecordSuccess, RecordFailure, RecordSuccessRow, RecordFailureRow, Record,
            NotRecorded, vars, reviewVars
      <2>2. /\ v.sched = s /\ v.expected = row[s]
            /\ v.edits = edits[s] /\ v.outcomes = outcomes[s]
        BY <1>1, <2>1 DEF ReadForReview
      <2>3. row' = row /\ edits' = edits /\ outcomes' = outcomes /\ edits[s] \in Nat
        BY <2>1 DEF ReadForReview, rowVars, history, TypeOK
      <2>4. QED
        BY <2>2, <2>3
    <1>2. CASE v \in reviews
      <2> DEFINE s == v.sched
      <2>1. /\ s \in Schedule /\ v \in Review /\ v.expected \in Row
            /\ v.edits \in Nat /\ edits[s] \in Nat /\ row[s] \in Row
        BY <1>2 DEF TypeOK, Review
      <2>2. /\ v.edits <= edits[s]
            /\ v.edits = edits[s] =>
                 \/ outcomes[s] = v.outcomes /\ row[s] = v.expected
                 \/ /\ v.expected.enabled
                    /\ row[s].next > v.expected.next \/ ~row[s].enabled
        BY <1>2 DEF ReviewInv
      <2> HIDE DEF s
      <2>3. CASE Untouched(s)
        BY <2>2, <2>3 DEF Untouched, s
      <2>4. CASE Edited(s)
        BY <2>1, <2>2, <2>4 DEF Edited, s
      <2>5. ASSUME row[s].enabled, Succeeded(s) \/ Failed(s),
                   NEW r \in runs, r.item = row[s]
            PROVE  /\ v.edits <= edits'[s]
                   /\ v.edits = edits'[s] =>
                        /\ v.expected.enabled
                        /\ row'[s].next > v.expected.next \/ ~row'[s].enabled
        <3>1. edits'[s] = edits[s]
          BY <2>5 DEF Succeeded, Failed
        <3>2. row[s].next <= now
          BY <2>5 DEF DueInv
        <3>3. ~row'[s].enabled \/ row'[s].next > now
          <4>1. ASSUME NEW n \in Nat, n > now, row'[s] = MarkSuccess(row[s], n)
                PROVE  ~row'[s].enabled \/ row'[s].next > now
            BY <4>1 DEF MarkSuccess
          <4>2. ASSUME NEW n \in Nat, row'[s] = MarkFailure(row[s], n)
                PROVE  row'[s].next = n
            BY <4>2 DEF MarkFailure
          <4>3. QED
            BY <2>5, <4>1, <4>2 DEF Succeeded, Failed
        <3>4. row[s].next \in Nat /\ v.expected.next \in Nat /\ now \in Nat
          BY <2>1 DEF Row, TypeOK
        <3>5. row'[s].next \in Nat
          BY <2>1, SchedulerTypeStep DEF TypeOK, Row
        <3>6. v.edits = edits[s] =>
                v.expected.enabled /\ v.expected.next <= row[s].next
          BY <2>2, <2>5, <3>4
        <3>7. v.expected.next <= row[s].next /\ row'[s].next > now
                => row'[s].next > v.expected.next
          BY <3>2, <3>4, <3>5
        <3>8. QED
          BY <2>2, <3>1, <3>3, <3>6, <3>7
      <2>6. QED
        BY <2>1, <2>3, <2>4, <2>5, ScheduleShape DEF s
    <1>3. QED
      BY <1>1, <1>2

\* The scheduler's whole inductive invariant holds.
THEOREM SchedulerCorrect == Spec => []SchedulerInv
    <1>1. Init => DueInv /\ AttemptInv /\ ReviewInv
      <2> SUFFICES ASSUME Init PROVE DueInv /\ AttemptInv /\ ReviewInv
        OBVIOUS
      <2>1. DueInv /\ ReviewInv
        BY DEF Init, DueInv, ReviewInv
      <2>2. \A s \in Schedule : /\ slot[s] = 0 /\ row[s].failures = 0
                                /\ tasks[s] = {} /\ runs = {}
        BY DEF Init, NoRow
      <2>3. \A s \in Schedule : Attempts(s) =
              {[slot |-> slot[s], failures |-> row[s].failures, next |-> row[s].next]}
        BY <2>2 DEF Attempts
      <2>4. QED
        BY <2>1, <2>2, <2>3 DEF AttemptInv
    <1>2. TypeOK /\ ClaimInv /\ DeadLetterInv /\ (DueInv /\ AttemptInv /\ ReviewInv)
            /\ [Next]_vars => (DueInv /\ AttemptInv /\ ReviewInv)'
      BY DueStep, AttemptStep, ReviewStep
    <1>3. ClaimInv /\ OneRunPerClaim /\ DeadLetterInv /\ DueInv /\ AttemptInv
            /\ ReviewInv => SchedulerInv
      BY DEF ClaimInv, SchedulerInv
    <1>4. QED
      BY <1>1, <1>2, <1>3, ClaimsAndDeadLetters, ClaimsExclude, PTL DEF Spec

\* However processes overlap, crash or lose their outcomes, one occurrence
\* starts at most MaxFailures tasks (enqueueTask).
THEOREM OccurrencesAreBounded == Spec => []TasksBounded
    <1>1. TypeOK /\ SchedulerInv => TasksBounded
      BY AttemptsBoundTasks DEF SchedulerInv
    <1>2. QED
      BY <1>1, SchedulerTyped, SchedulerCorrect, PTL

\* A confirmed health suggestion is never applied over an outcome recorded since
\* the request read the schedule, unless users have edited it in between
\* (applyHealthAction).
THEOREM ReviewsSeeOutcomes == Spec => ReviewSeesOutcomes
    <1>1. ASSUME TypeOK, SchedulerInv, [Next]_vars, NEW v \in reviews,
                 v \notin reviews', applied'[v.sched] # applied[v.sched]
          PROVE  outcomes[v.sched] = v.outcomes \/ edits[v.sched] # v.edits
      <2>1. ApplyHealthAction(v)
        BY <1>1
        DEF Next, UserEdit, Remove, Pause, Resume, Upsert, Reschedule, ReadForReview,
            Expire, Pass, ApplyHealthAction, Crash, Tick, RunStep, Check, CreateTask,
            HandlerEnds, RecordSuccess, RecordFailure, RecordSuccessRow,
            RecordFailureRow, Record, NotRecorded, vars, reviewVars
      <2>2. SameHealthState(row[v.sched], v.expected)
        BY <1>1, <2>1 DEF ApplyHealthAction, MayApply
      <2>3. v.sched \in Schedule /\ row[v.sched] \in Row /\ v.expected \in Row
        BY <1>1 DEF TypeOK, Review
      <2>4. row[v.sched].next \in Nat
        BY <2>3 DEF Row
      <2>5. QED
        BY <2>2, <2>4, <1>1 DEF SchedulerInv, ReviewInv, SameHealthState
    <1>2. TypeOK /\ SchedulerInv /\ [Next]_vars
            => [\A v \in reviews :
                  v \notin reviews' /\ applied'[v.sched] # applied[v.sched] =>
                      outcomes[v.sched] = v.outcomes \/ edits[v.sched] # v.edits]_vars
      BY <1>1
    <1>3. QED
      BY <1>2, SchedulerTyped, SchedulerCorrect, PTL DEF Spec, ReviewSeesOutcomes
=============================================================================
