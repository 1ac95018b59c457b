----------------------------- MODULE Scheduler -----------------------------
(***************************************************************************)
(* PostgresScheduler (scheduler.ts): several API processes poll one        *)
(* schedules table, claim the schedules that are due, run a handler for    *)
(* each and record its outcome, while users edit the same rows.            *)
(*                                                                         *)
(* Every store operation is one statement or one transaction, so it is one *)
(* action; execute() awaits between its check, the handler and the update  *)
(* that records the outcome, so it is one action per await.  The handler   *)
(* is enqueueScheduledTrigger (taskApi.ts): it creates a task under the    *)
(* key "schedule:<id>:<nextRunAt>".                                        *)
(*                                                                         *)
(* Instants are numbers on the database's clock "now".  A claim is         *)
(* identified by its token; "live" says that claimed_until has not passed, *)
(* which is not tied to the clock: five minutes may hold any number of     *)
(* the instants that matter to a schedule.                                 *)
(***************************************************************************)
EXTENDS Integers, FiniteSets

CONSTANTS
    Schedule,     \* schedule ids
    Process,      \* API processes that run a PostgresScheduler
    MaxFailures,  \* MAX_SCHEDULE_FAILURES
    Suggestion,   \* ids of health suggestions
    MaxTime,      \* bound: the clock stops here
    MaxEdits,     \* bound: edits per schedule
    MaxClaims,    \* bound: claims per schedule
    MaxReviews    \* bound: health-action requests in progress

ASSUME SchedulerAssumption ==
    /\ MaxFailures \in Nat \ {0}
    /\ {MaxTime, MaxEdits, MaxClaims, MaxReviews} \subseteq Nat

VARIABLES
    row,      \* Schedule -> the columns of schedules that edits and outcomes set
    now,      \* the database's clock
    token,    \* Schedule -> claim_token, 0 for NULL
    live,     \* Schedule -> claimed_until is in the future
    issued,   \* Schedule -> number of tokens issued so far
    runs,     \* calls of execute() in progress in some process
    pending,  \* Process -> tokens its tick() is waiting for ("ticking" when any)
    applied,  \* Schedule -> suggestions in schedule_health_actions
    reviews,  \* health-action requests in progress
    tasks,    \* Schedule -> tasks created, [key, slot, failures]; the latter two
              \* (history) are the occurrence and the failures it had by then
    edits,    \* Schedule -> number of edits (history)
    outcomes, \* Schedule -> number of outcomes recorded (history)
    slot      \* Schedule -> the occurrence next_run_at is for (history); a
              \* retry after a failure is for the occurrence that failed, and
              \* an edit that moves it or forgets its failures is for another

rowVars == <<row, now, token, live, slot>>
runVars == <<issued, runs, pending>>
reviewVars == <<applied, reviews>>
history == <<edits, outcomes>>
vars == <<rowVars, runVars, reviewVars, tasks, history>>

Last == {"none", "success", "failed", "dead-letter"}
Row == [exists : BOOLEAN, enabled : BOOLEAN, once : BOOLEAN, next : Nat,
        failures : Nat, last : Last, revision : Nat]
NoRow == [exists |-> FALSE, enabled |-> FALSE, once |-> FALSE, next |-> 0,
          failures |-> 0, last |-> "none", revision |-> 0]

Phase == {"claimed", "running", "created", "succeeded", "failed"}
\* One call of execute(): the trigger it was given, its token, and (history)
\* the edits and the occurrence it was claimed under, and whether its claim has
\* since expired or been cleared.
Run == [proc : Process, sched : Schedule, token : Nat, item : Row,
        phase : Phase, edits : Nat, slot : Nat, fenced : BOOLEAN]

\* One health-action request: the schedule it read and confirms a change of,
\* and (history) how many outcomes had been recorded by then.
Review == [sched : Schedule, suggestion : Suggestion, expected : Row,
           edits : Nat, outcomes : Nat]

Task == [key : Nat, slot : Nat, failures : Nat]

TypeOK ==
    /\ row \in [Schedule -> Row]
    /\ now \in Nat
    /\ token \in [Schedule -> Nat]
    /\ live \in [Schedule -> BOOLEAN]
    /\ issued \in [Schedule -> Nat]
    /\ runs \subseteq Run
    /\ pending \in [Process -> SUBSET (Schedule \X Nat)]
    /\ applied \in [Schedule -> SUBSET Suggestion]
    /\ reviews \subseteq Review
    /\ tasks \in [Schedule -> SUBSET Task]
    /\ edits \in [Schedule -> Nat]
    /\ outcomes \in [Schedule -> Nat]
    /\ slot \in [Schedule -> Nat]

Init ==
    /\ row = [s \in Schedule |-> NoRow]
    /\ now = 0
    /\ token = [s \in Schedule |-> 0]
    /\ live = [s \in Schedule |-> FALSE]
    /\ issued = [s \in Schedule |-> 0]
    /\ runs = {}
    /\ pending = [p \in Process |-> {}]
    /\ applied = [s \in Schedule |-> {}]
    /\ reviews = {}
    /\ tasks = [s \in Schedule |-> {}]
    /\ edits = [s \in Schedule |-> 0]
    /\ outcomes = [s \in Schedule |-> 0]
    /\ slot = [s \in Schedule |-> 0]

-----------------------------------------------------------------------------
(* Pure functions on a schedule.                                           *)

MarkSuccess(item, n) ==
    [exists |-> item.exists, enabled |-> IF item.once THEN FALSE ELSE item.enabled,
     once |-> item.once, next |-> IF item.once THEN item.next ELSE n,
     failures |-> 0, last |-> "success", revision |-> item.revision + 1]

\* The next attempt is put off (back-off), or the schedule is a dead letter as
\* of now; n is that instant.
MarkFailure(item, n) ==
    LET dead == item.failures + 1 >= MaxFailures IN
    [exists |-> item.exists, enabled |-> IF dead THEN FALSE ELSE item.enabled,
     once |-> item.once, next |-> n, failures |-> item.failures + 1,
     last |-> IF dead THEN "dead-letter" ELSE "failed",
     revision |-> item.revision + 1]

\* Mistake: the failures that made it a dead letter are kept.
ResumedKeepingFailures(item, n) ==
    [exists |-> item.exists, enabled |-> TRUE, once |-> item.once, next |-> n,
     failures |-> item.failures, last |-> "none", revision |-> item.revision + 1]

Resumed(item, n) ==
    [exists |-> item.exists, enabled |-> TRUE, once |-> item.once, next |-> n,
     failures |-> 0, last |-> "none", revision |-> item.revision + 1]

Rescheduled(item, once, n) ==
    [exists |-> item.exists, enabled |-> item.enabled, once |-> once, next |-> n,
     failures |-> item.failures, last |-> item.last, revision |-> item.revision + 1]

Paused(item) ==
    [exists |-> item.exists, enabled |-> FALSE, once |-> item.once,
     next |-> item.next, failures |-> item.failures, last |-> item.last,
     revision |-> item.revision + 1]

\* createTrigger: enabled, with nothing of what was there but its revision.
Created(item, once, n) ==
    [exists |-> TRUE, enabled |-> TRUE, once |-> once, next |-> n,
     failures |-> 0, last |-> "none", revision |-> item.revision + 1]

\* Mistake: the instant of the next run is not compared.
SameHealthStateButNext(a, b) ==
    /\ a.enabled = b.enabled /\ a.once = b.once
    /\ a.failures = b.failures /\ a.last = b.last

SameHealthState(a, b) ==
    /\ a.enabled = b.enabled /\ a.once = b.once /\ a.next = b.next
    /\ a.failures = b.failures /\ a.last = b.last

\* nextRunAtForCadence and the back-off: some instant after now.
Future == (now + 1)..(MaxTime + 1)

-----------------------------------------------------------------------------
(* Edits.  Each clears the claim and increments the revision.              *)

\* Claims of s are void from now on.
Fence(s) == {IF r.sched = s THEN [r EXCEPT !.fenced = TRUE] ELSE r : r \in runs}

Edit(s, new) ==
    /\ edits[s] < MaxEdits
    /\ row' = [row EXCEPT ![s] = new]
    /\ slot' = [slot EXCEPT ![s] =
         IF new.next = row[s].next /\ new.failures = row[s].failures THEN @ ELSE @ + 1]
    /\ token' = [token EXCEPT ![s] = 0]
    /\ live' = [live EXCEPT ![s] = FALSE]
    /\ runs' = Fence(s)
    /\ edits' = [edits EXCEPT ![s] = @ + 1]
    /\ UNCHANGED <<now, issued, pending, tasks, outcomes>>

\* INSERT ... ON CONFLICT DO UPDATE: create, or replace whatever is there.
Upsert(s, once) ==
    /\ \E n \in Future : Edit(s, Created(row[s], once, n))
    /\ UNCHANGED reviewVars

Remove(s) ==
    /\ row[s].exists
    /\ Edit(s, NoRow)
    /\ UNCHANGED reviewVars

Pause(s) ==
    /\ row[s].exists
    /\ Edit(s, Paused(row[s]))
    /\ UNCHANGED reviewVars

Resume(s) ==
    /\ row[s].exists
    /\ \E n \in Future : Edit(s, Resumed(row[s], n))
    /\ UNCHANGED reviewVars

Reschedule(s, once) ==
    /\ row[s].exists
    /\ \E n \in Future : Edit(s, Rescheduled(row[s], once, n))
    /\ UNCHANGED reviewVars

\* POST /schedules/:id/health-action reads the schedule, then recomputes the
\* suggestions; the state it read is the one the action expects.
ReadForReview(s, g) ==
    /\ row[s].exists
    /\ Cardinality(reviews) < MaxReviews
    /\ reviews' = reviews \cup {[sched |-> s, suggestion |-> g, expected |-> row[s],
                                 edits |-> edits[s], outcomes |-> outcomes[s]]}
    /\ UNCHANGED <<applied, rowVars, runVars, tasks, history>>

\* applyHealthAction: a suggestion counts once, and only while the row still has
\* the state that was read.
MayApply(v) ==
    /\ row[v.sched].exists
    /\ v.suggestion \notin applied[v.sched]
    /\ SameHealthState(row[v.sched], v.expected)

Apply(v, s) ==
    /\ \/ Edit(s, Paused(row[s]))
       \/ \E n \in Future :
            \/ Edit(s, Resumed(row[s], n))
            \/ \E once \in BOOLEAN : Edit(s, Rescheduled(row[s], once, n))
    /\ applied' = [applied EXCEPT ![s] = @ \cup {v.suggestion}]

ApplyHealthAction(v) ==
    /\ reviews' = reviews \ {v}
    /\ \/ MayApply(v) /\ Apply(v, v.sched)
       \/ ~MayApply(v) /\ UNCHANGED <<applied, rowVars, runVars, tasks, history>>

-----------------------------------------------------------------------------
(* tick() and execute().                                                   *)

Due(s) == row[s].exists /\ row[s].enabled /\ row[s].next <= now

\* Mistake: a claim whose lease has passed is still respected.
ClaimableUnclaimed(s) == Due(s) /\ issued[s] < MaxClaims /\ token[s] = 0

Claimable(s) ==
    /\ Due(s)
    /\ ~live[s]
    /\ issued[s] < MaxClaims

\* One transaction claims rows that are due.  Rows another transaction has
\* locked are skipped, so it may be any of the claimable ones.
Tick(p, claimed) ==
    /\ pending[p] = {}
    /\ claimed # {} /\ \A s \in claimed : Claimable(s)
    /\ issued' = [s \in Schedule |-> IF s \in claimed THEN issued[s] + 1 ELSE issued[s]]
    /\ token' = [s \in Schedule |-> IF s \in claimed THEN issued'[s] ELSE token[s]]
    /\ live' = [s \in Schedule |-> s \in claimed \/ live[s]]
    /\ runs' = runs \cup
         {[proc |-> p, sched |-> s, token |-> issued[s] + 1, item |-> row[s],
           phase |-> "claimed", edits |-> edits[s], slot |-> slot[s],
           fenced |-> FALSE] : s \in claimed}
    /\ pending' = [pending EXCEPT ![p] = {<<s, issued[s] + 1>> : s \in claimed}]
    /\ UNCHANGED <<row, now, slot, reviewVars, tasks, history>>

\* Mistake: only the token is compared, not the lease.
HoldsByTokenOnly(r) == row[r.sched].exists /\ token[r.sched] = r.token

\* The row still has the revision and the unexpired claim the run was given.
Holds(r) ==
    /\ row[r.sched].exists
    /\ row[r.sched].revision = r.item.revision
    /\ token[r.sched] = r.token
    /\ live[r.sched]

Advance(r, phase) ==
    runs' = (runs \ {r}) \cup {[r EXCEPT !.phase = phase]}

\* execute() returns; tick() ends when it was the last one it waited for.
Return(r) ==
    /\ runs' = runs \ {r}
    /\ pending' = [pending EXCEPT ![r.proc] = @ \ {<<r.sched, r.token>>}]

\* execute() rejects on a database error: tick() ends at once, and the other
\* runs of its batch go on unobserved.
Reject(r) ==
    /\ runs' = runs \ {r}
    /\ pending' = [pending EXCEPT ![r.proc] =
                     IF <<r.sched, r.token>> \in @ THEN {} ELSE @]

\* The check before the handler is called: it passes, fails, or errors.
Check(r) ==
    /\ r.phase = "claimed"
    /\ \/ Holds(r) /\ row[r.sched].enabled /\ Advance(r, "running") /\ UNCHANGED pending
       \/ ~(Holds(r) /\ row[r.sched].enabled) /\ Return(r)
       \/ Reject(r)
    /\ UNCHANGED <<rowVars, issued, reviewVars, tasks, history>>

\* Mistake: the task is created without looking for its key.
NewTaskUnkeyed(r) ==
    [key |-> Cardinality(tasks[r.sched]), slot |-> r.slot,
     failures |-> r.item.failures]

\* The task of the run, under the key made from next_run_at.
NewTask(r) ==
    [key |-> r.item.next, slot |-> r.slot, failures |-> r.item.failures]

\* enqueueTask: the task is created unless one has the same key.
CreateTask(r) ==
    /\ r.phase = "running"
    /\ tasks' = [tasks EXCEPT ![r.sched] =
         IF \E t \in @ : t.key = NewTask(r).key THEN @ ELSE @ \cup {NewTask(r)}]
    /\ Advance(r, "created")
    /\ UNCHANGED <<rowVars, issued, pending, reviewVars, history>>

\* The handler returns, or it throws: before the task exists (routing, a
\* credential, the database) or after (the task.created event is not stored).
HandlerEnds(r) ==
    /\ \/ r.phase = "created" /\ Advance(r, "succeeded")
       \/ r.phase \in {"running", "created"} /\ Advance(r, "failed")
    /\ UNCHANGED <<rowVars, issued, pending, reviewVars, tasks, history>>

\* The outcome is written under the guard on revision, token and lease.
Record(s, new) ==
    /\ row' = [row EXCEPT ![s] = new]
    /\ token' = [token EXCEPT ![s] = 0]
    /\ live' = [live EXCEPT ![s] = FALSE]
    /\ outcomes' = [outcomes EXCEPT ![s] = @ + 1]
    /\ UNCHANGED <<now, issued, reviewVars, tasks, edits>>

RecordSuccessRow(r) ==
    /\ \E n \in Future : Record(r.sched, MarkSuccess(r.item, n))
    /\ slot' = [slot EXCEPT ![r.sched] = @ + 1]

\* Only a dead letter has now as its next run, and it is disabled.
RecordFailureRow(r) ==
    /\ \E n \in Future \cup {now} :
         /\ n = now <=> MarkFailure(r.item, n).last = "dead-letter"
         /\ Record(r.sched, MarkFailure(r.item, n))
    /\ UNCHANGED slot

NotRecorded == UNCHANGED <<rowVars, issued, reviewVars, tasks, history>>

\* An error of this update, before or after its commit, lands in the handler's
\* catch block: the run is then treated as failed.
RecordSuccess(r) ==
    /\ r.phase = "succeeded"
    /\ \/ Holds(r) /\ RecordSuccessRow(r) /\ Return(r)
       \/ ~Holds(r) /\ NotRecorded /\ Return(r)
       \/ /\ Advance(r, "failed") /\ UNCHANGED pending
          /\ NotRecorded \/ (Holds(r) /\ RecordSuccessRow(r))

RecordFailure(r) ==
    /\ r.phase = "failed"
    /\ \/ Holds(r) /\ RecordFailureRow(r) /\ (Return(r) \/ Reject(r))
       \/ ~Holds(r) /\ NotRecorded /\ Return(r)
       \/ NotRecorded /\ Reject(r)

\* A process dies; its claims stay until they expire.
Crash(p) ==
    /\ \E r \in runs : r.proc = p
    /\ runs' = {r \in runs : r.proc # p}
    /\ pending' = [pending EXCEPT ![p] = {}]
    /\ UNCHANGED <<rowVars, issued, reviewVars, tasks, history>>

-----------------------------------------------------------------------------
(* Time.                                                                   *)

Pass ==
    /\ now < MaxTime
    /\ now' = now + 1
    /\ UNCHANGED <<row, token, live, slot, runVars, reviewVars, tasks, history>>

\* Five minutes have passed since the claim; its handler may still be running.
Expire(s) ==
    /\ live[s]
    /\ live' = [live EXCEPT ![s] = FALSE]
    /\ runs' = Fence(s)
    /\ UNCHANGED <<row, now, token, slot, issued, pending, reviewVars, tasks, history>>

RunStep(r) ==
    Check(r) \/ CreateTask(r) \/ HandlerEnds(r) \/ RecordSuccess(r) \/ RecordFailure(r)

UserEdit(s) ==
    \/ Remove(s) \/ Pause(s) \/ Resume(s)
    \/ \E once \in BOOLEAN : Upsert(s, once) \/ Reschedule(s, once)

Next ==
    \/ \E s \in Schedule : UserEdit(s) \/ Expire(s)
    \/ Pass
    \/ \E s \in Schedule, g \in Suggestion : ReadForReview(s, g)
    \/ \E v \in reviews : ApplyHealthAction(v)
    \/ \E p \in Process : Crash(p) \/ \E claimed \in SUBSET Schedule : Tick(p, claimed)
    \/ \E r \in runs : RunStep(r)

Spec == Init /\ [][Next]_vars

(***************************************************************************)
(* Fairness.  tick() runs every second in every live process and claims    *)
(* everything it can; execute() goes on (the handler's model calls have a  *)
(* timeout); wall-clock time passes.  Edits and crashes just happen.       *)
(***************************************************************************)
TickAll(p) == Tick(p, {s \in Schedule : Claimable(s)})

FairSpec ==
    /\ Spec
    /\ \A p \in Process : WF_vars(TickAll(p))
    /\ \A p \in Process : WF_vars(\E r \in runs : r.proc = p /\ RunStep(r))
    /\ \A s \in Schedule : WF_vars(Expire(s))

-----------------------------------------------------------------------------
(* Properties.                                                             *)

\* A run whose claim expired or was cleared by an edit does not start its
\* handler any more, and the outcome of one that had started is dropped: it
\* never touches a newer configuration or a newer claim (execute).
FencedRunIsPowerless ==
    [][\A r \in runs : r.fenced =>
          /\ ~\E q \in runs' : /\ r.phase = "claimed" /\ q.phase = "running"
                               /\ q.sched = r.sched /\ q.token = r.token
          /\ r \notin runs' => outcomes' = outcomes]_vars

\* Two handlers of one schedule overlap only when the claim of the first has
\* expired or was cleared by an edit (the claim in tick).
OneRunPerClaim ==
    \A r, q \in runs :
        /\ r.sched = q.sched
        /\ ~r.fenced /\ r.phase # "failed"
        /\ ~q.fenced /\ q.phase # "failed"
        => r = q

\* A schedule is a dead letter exactly when it has failed MaxFailures times in
\* a row since it was last created, resumed or successful, and then it is
\* disabled until somebody resumes or replaces it (markFailure, resumedTrigger).
DeadLetterRow(item) ==
    /\ item.last = "dead-letter" <=> item.failures >= MaxFailures
    /\ item.last = "dead-letter" => ~item.enabled
    /\ item.failures <= MaxFailures
DeadLetterInv == \A s \in Schedule : DeadLetterRow(row[s])

\* However processes overlap, crash or lose their outcomes, one occurrence
\* starts at most MaxFailures tasks: a run repeated for the same next_run_at
\* finds the task of the earlier one (enqueueTask).  A user who resumes or
\* replaces the schedule asks for an occurrence of its own.
TasksBounded ==
    \A s \in Schedule : \A t \in tasks[s] :
        Cardinality({u \in tasks[s] : u.slot = t.slot}) <= MaxFailures

\* docs/execution-loop.md: "Scheduled triggers use a deterministic key for each
\* scheduled occurrence", so that a retry does not create duplicate work.
OneTaskPerOccurrence ==
    \A s \in Schedule : \A t, u \in tasks[s] : t.slot = u.slot => t = u

\* A confirmed health suggestion is not applied over an outcome recorded since
\* the request read the schedule, unless users have edited the schedule in
\* between: only an edit can bring back the state that was read, which has no
\* revision (applyHealthAction, scheduleHealthState).
ReviewSeesOutcomes ==
    [][\A v \in reviews :
          v \notin reviews' /\ applied'[v.sched] # applied[v.sched] =>
              outcomes[v.sched] = v.outcomes \/ edits[v.sched] # v.edits]_vars

\* A schedule that is due is claimed, even when the process that had claimed
\* it before died or failed to record its outcome.
Unattended(s) ==
    /\ Due(s) /\ issued[s] < MaxClaims
    /\ ~\E r \in runs : r.sched = s /\ ~r.fenced
DueIsClaimed == \A s \in Schedule : Unattended(s) ~> ~Unattended(s)
-----------------------------------------------------------------------------
(* Why the safety properties hold: the inductive invariant behind them.    *)

\* Tokens identify runs, and come from the count of those issued.
TokenInv ==
    /\ \A s \in Schedule : token[s] <= issued[s]
    /\ \A r \in runs : 0 < r.token /\ r.token <= issued[r.sched]
    /\ \A r, q \in runs : r.sched = q.sched /\ r.token = q.token => r = q

\* A claim that nothing has voided is the row's, and a voided one is not, or
\* has expired.  (A run may be "failed" though its success was committed.)
HeldInv ==
    \A r \in runs :
        /\ ~r.fenced /\ r.phase # "failed" =>
              token[r.sched] = r.token /\ live[r.sched]
        /\ r.fenced /\ token[r.sched] = r.token => ~live[r.sched]

\* While the row carries a run's token it is as the run found it: enabled.
SnapshotInv ==
    \A r \in runs :
        /\ r.item.enabled
        /\ token[r.sched] = r.token => r.item = row[r.sched]

\* What a run claimed was due, and had not failed too often.
DueInv ==
    \A r \in runs : r.item.next <= now /\ r.item.failures < MaxFailures

\* The attempts of one occurrence: those of the row, of the runs that claimed it
\* and of the tasks they created.
Attempt == [slot : Nat, failures : Nat, next : Nat]
Attempts(s) ==
    {[slot |-> slot[s], failures |-> row[s].failures, next |-> row[s].next]}
    \cup {[slot |-> r.slot, failures |-> r.item.failures, next |-> r.item.next] :
              r \in {q \in runs : q.sched = s}}
    \cup {[slot |-> t.slot, failures |-> t.failures, next |-> t.key] : t \in tasks[s]}

\* The failures an occurrence has had tell its attempts apart, the row's
\* attempt is the last one, and a task was created before the last failure.
AttemptInv ==
    \A s \in Schedule :
        /\ \A a, b \in Attempts(s) :
              a.slot = b.slot /\ a.failures = b.failures => a.next = b.next
        /\ \A a \in Attempts(s) :
              /\ a.slot <= slot[s]
              /\ a.slot = slot[s] => a.failures <= row[s].failures
        /\ \A t \in tasks[s] : t.failures < MaxFailures

\* Since a request read the schedule, and as long as nobody edits it, outcomes
\* only put its next run off or disable it.
ReviewInv ==
    \A v \in reviews :
        /\ v.edits <= edits[v.sched]
        /\ v.edits = edits[v.sched] =>
              \/ outcomes[v.sched] = v.outcomes /\ row[v.sched] = v.expected
              \/ /\ v.expected.enabled
                 /\ row[v.sched].next > v.expected.next \/ ~row[v.sched].enabled

SchedulerInv ==
    /\ TokenInv /\ HeldInv /\ SnapshotInv /\ OneRunPerClaim /\ DeadLetterInv
    /\ DueInv /\ AttemptInv /\ ReviewInv
=============================================================================
