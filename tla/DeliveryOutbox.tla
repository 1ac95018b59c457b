--------------------------- MODULE DeliveryOutbox ---------------------------
(***************************************************************************)
(* The webhook outbox (outboundNotifications.ts).  Notifications of the    *)
(* in-app feed are put into a table of deliveries, one row per channel and *)
(* notification; every API process takes rows that are due, POSTs them to  *)
(* the user's server and records what came of it.                          *)
(*                                                                         *)
(* A store operation is one statement or one transaction and so one        *)
(* action; deliver() awaits the channel, the server and the store in turn, *)
(* so it is one action per await.  The POST itself travels: it may arrive  *)
(* after its sender has given up or died, and its answer may be lost.      *)
(*                                                                         *)
(* next_attempt_at is a fact, "due"; lease_expires_at is the set of claims *)
(* whose time is not over.  A row and the call of deliver() that claimed   *)
(* it both read it there: the processes' clocks agree with the database's. *)
(***************************************************************************)
EXTENDS Integers, FiniteSets

CONSTANTS
    Channel,      \* webhook channels of one user
    Notification, \* entries of that user's in-app feed
    Process,      \* API processes that run an OutboundNotificationManager
    NoDelivery,   \* what an idle process is delivering
    MaxAttempts,  \* maxDeliveryAttempts
    MaxRetries,   \* bound: retries by hand per row
    MaxMade,      \* bound: rows made for a channel and a notification
    MaxEdits      \* bound: changes of channels

ASSUME OutboxAssumption ==
    /\ MaxAttempts \in Nat \ {0}
    /\ {MaxRetries, MaxMade, MaxEdits} \subseteq Nat
    /\ NoDelivery \notin Channel \X Notification

VARIABLES
    channel,   \* Channel -> the columns enabled and deleted_at
    patches,   \* PATCH requests that have read their channel
    edits,     \* number of changes of channels (bounded)
    inserting, \* deliveries a reconciliation is about to insert
    row,       \* Delivery -> the columns status, attempt_count, next_attempt_at
    made,      \* Delivery -> number of rows made for it; the last one's id
    retries,   \* Delivery -> retries by hand of this row (bounded)
    token,     \* Delivery -> lease_token, 0 for NULL
    unexpired, \* Delivery -> tokens whose lease_expires_at is in the future
    issued,    \* Delivery -> number of lease tokens issued so far
    run,       \* Process -> the call of deliver() in progress
    wire,      \* POSTs on their way
    accepted,  \* Delivery -> ids the user's server has accepted
    sent       \* Delivery -> POSTs since the row was made or retried (history)

channelVars == <<channel, patches, edits>>
rowVars == <<row, made, retries, token, unexpired, issued>>
vars == <<channelVars, inserting, rowVars, run, wire, accepted, sent>>

Delivery == Channel \X Notification

\* What is left to do of a row, and the three ways it can end.
Open == {"pending", "delivering", "retrying"}
Ended == {"delivered", "dead_letter", "absent"}
Row == [status : Open \cup Ended, attempts : Nat, due : BOOLEAN]
Absent == [status |-> "absent", attempts |-> 0, due |-> FALSE]

Post == [at : Delivery, id : Nat, token : Nat]

Phase == {"idle", "claimed", "sending", "waiting", "accepted", "failed", "refused"}
Run == [phase : Phase, at : Delivery \cup {NoDelivery}, id : Nat, token : Nat]
Idle == [phase |-> "idle", at |-> NoDelivery, id |-> 0, token |-> 0]

TypeOK ==
    /\ channel \in [Channel -> {"none", "enabled", "disabled", "deleted"}]
    /\ patches \subseteq [channel : Channel, enabled : BOOLEAN]
    /\ edits \in Nat
    /\ inserting \subseteq Delivery
    /\ row \in [Delivery -> Row]
    /\ made \in [Delivery -> Nat]
    /\ retries \in [Delivery -> Nat]
    /\ token \in [Delivery -> Nat]
    /\ unexpired \in [Delivery -> SUBSET Nat]
    /\ issued \in [Delivery -> Nat]
    /\ run \in [Process -> Run]
    /\ wire \subseteq Post
    /\ accepted \in [Delivery -> SUBSET Nat]
    /\ sent \in [Delivery -> Nat]

Init ==
    /\ channel = [c \in Channel |-> "none"]
    /\ patches = {}
    /\ edits = 0
    /\ inserting = {}
    /\ row = [d \in Delivery |-> Absent]
    /\ made = [d \in Delivery |-> 0]
    /\ retries = [d \in Delivery |-> 0]
    /\ token = [d \in Delivery |-> 0]
    /\ unexpired = [d \in Delivery |-> {}]
    /\ issued = [d \in Delivery |-> 0]
    /\ run = [p \in Process |-> Idle]
    /\ wire = {}
    /\ accepted = [d \in Delivery |-> {}]
    /\ sent = [d \in Delivery |-> 0]

-----------------------------------------------------------------------------
(* The user's channels (notification-channels in taskApi.ts).              *)

Saved(enabled) == IF enabled THEN "enabled" ELSE "disabled"

CreateChannel(c, enabled) ==
    /\ channel[c] = "none"
    /\ edits < MaxEdits
    /\ channel' = [channel EXCEPT ![c] = Saved(enabled)]
    /\ edits' = edits + 1
    /\ UNCHANGED <<patches, inserting, rowVars, run, wire, accepted, sent>>

\* PATCH reads the channel, then saves what it read with what it changes ...
ReadPatch(c, enabled) ==
    /\ channel[c] \in {"enabled", "disabled"}
    /\ edits < MaxEdits
    /\ patches' = patches \cup {[channel |-> c, enabled |-> enabled]}
    /\ edits' = edits + 1
    /\ UNCHANGED <<channel, inserting, rowVars, run, wire, accepted, sent>>

\* ... and saveChannel sets deleted_at back to NULL.
WritePatch(q) ==
    /\ q \in patches
    /\ patches' = patches \ {q}
    /\ channel' = [channel EXCEPT ![q.channel] = Saved(q.enabled)]
    /\ UNCHANGED <<edits, inserting, rowVars, run, wire, accepted, sent>>

DeleteChannel(c) ==
    /\ channel[c] \in {"enabled", "disabled"}
    /\ edits < MaxEdits
    /\ channel' = [channel EXCEPT ![c] = "deleted"]
    /\ edits' = edits + 1
    /\ UNCHANGED <<patches, inserting, rowVars, run, wire, accepted, sent>>

-----------------------------------------------------------------------------
(* Rows come from the feed: enqueue reads the channels that are enabled,   *)
(* then inserts one row for each (ON CONFLICT DO NOTHING).                 *)

ReadFeed(d) ==
    /\ channel[d[1]] = "enabled"
    /\ inserting' = inserting \cup {d}
    /\ UNCHANGED <<channelVars, rowVars, run, wire, accepted, sent>>

Insert(d) ==
    /\ d \in inserting
    /\ inserting' = inserting \ {d}
    /\ IF row[d].status = "absent"
         THEN /\ made[d] < MaxMade
              /\ row' = [row EXCEPT ![d] =
                            [status |-> "pending", attempts |-> 0, due |-> TRUE]]
              /\ made' = [made EXCEPT ![d] = @ + 1]
              /\ retries' = [retries EXCEPT ![d] = 0]
              /\ sent' = [sent EXCEPT ![d] = 0]
         ELSE UNCHANGED <<row, made, retries, sent>>
    /\ UNCHANGED <<channelVars, token, unexpired, issued, run, wire, accepted>>

\* next_attempt_at passes.
FallDue(d) ==
    /\ row[d].status \in Open
    /\ ~row[d].due
    /\ row' = [row EXCEPT ![d].due = TRUE]
    /\ UNCHANGED <<channelVars, inserting, made, retries, token, unexpired, issued,
                   run, wire, accepted, sent>>

Retryable(d) == row[d].status = "dead_letter"

RetriedAttempts(d) == 0

Retry(d) ==
    /\ Retryable(d)
    /\ retries[d] < MaxRetries
    /\ retries' = [retries EXCEPT ![d] = @ + 1]
    /\ row' = [row EXCEPT ![d] =
                  [status |-> "pending", attempts |-> RetriedAttempts(d), due |-> TRUE]]
    /\ token' = [token EXCEPT ![d] = 0]
    /\ unexpired' = [unexpired EXCEPT ![d] = {}]
    /\ sent' = [sent EXCEPT ![d] = 0]
    /\ UNCHANGED <<channelVars, inserting, made, issued, run, wire, accepted>>

\* pruneDeliveries removes what ended longer ago than the retention period.
Prune(d) ==
    /\ row[d].status \in {"delivered", "dead_letter"}
    /\ row' = [row EXCEPT ![d] = Absent]
    /\ UNCHANGED <<channelVars, inserting, made, retries, token, unexpired, issued,
                   run, wire, accepted, sent>>

-----------------------------------------------------------------------------
(* Claims.                                                                 *)

\* The row has a lease_expires_at in the future.
Leased(d) == token[d] \in unexpired[d]

\* Mistake: what a dead process was delivering is never taken over.
OverdueUnclaimed(d) ==
    /\ row[d].status \in {"pending", "retrying"}
    /\ row[d].due
    /\ ~Leased(d)

\* Mistake: a lease does not keep other processes away.
OverdueIgnoringLease(d) == row[d].status \in Open /\ row[d].due

Overdue(d) == row[d].status \in Open /\ row[d].due /\ ~Leased(d)

Exhausted(d) == row[d].attempts >= MaxAttempts

\* Mistake: an attempt is counted when its outcome is recorded.
AttemptUncounted(r) == [status |-> "delivering", attempts |-> r.attempts, due |-> r.due]

Attempt(r) == [status |-> "delivering", attempts |-> r.attempts + 1, due |-> r.due]

Buried(r) == [status |-> "dead_letter", attempts |-> r.attempts, due |-> r.due]

\* claimNext(p) over the rows of "scope", all of them or one id: rows whose
\* last attempt was interrupted are given up, then a row is claimed if any is.
ClaimNext(p, scope) ==
    LET over == {d \in scope : Overdue(d) /\ Exhausted(d)}
        open == {d \in scope : Overdue(d) /\ ~Exhausted(d)}
    IN
    /\ run[p] = Idle
    /\ over \cup open # {}
    /\ \E e \in IF open = {} THEN {NoDelivery} ELSE open :
         /\ row' = [d \in Delivery |-> IF d \in over THEN Buried(row[d])
                                      ELSE IF d = e THEN Attempt(row[d]) ELSE row[d]]
         /\ token' = [d \in Delivery |-> IF d \in over THEN 0
                                        ELSE IF d = e THEN issued[d] + 1 ELSE token[d]]
         /\ unexpired' = [d \in Delivery |->
                            IF d \in over THEN {}
                            ELSE IF d = e THEN unexpired[d] \cup {issued[d] + 1}
                            ELSE unexpired[d]]
         /\ issued' = [d \in Delivery |-> IF d = e THEN issued[d] + 1 ELSE issued[d]]
         /\ run' = IF e = NoDelivery THEN run
                   ELSE [run EXCEPT ![p] = [phase |-> "claimed", at |-> e, id |-> made[e],
                                            token |-> issued[e] + 1]]
    /\ UNCHANGED <<channelVars, inserting, made, retries, wire, accepted, sent>>

\* lease_expires_at passes.
Expire(d) ==
    /\ \E t \in unexpired[d] : unexpired' = [unexpired EXCEPT ![d] = @ \ {t}]
    /\ UNCHANGED <<channelVars, inserting, row, made, retries, token, issued,
                   run, wire, accepted, sent>>

Crash(p) ==
    /\ run[p] # Idle
    /\ run' = [run EXCEPT ![p] = Idle]
    /\ UNCHANGED <<channelVars, inserting, rowVars, wire, accepted, sent>>

-----------------------------------------------------------------------------
(* deliver(), await by await.                                              *)

InPhase(p, phase) == run[p].phase = phase

Become(p, phase) == run' = [run EXCEPT ![p].phase = phase]

Message(p) == [at |-> run[p].at, id |-> run[p].id, token |-> run[p].token]

\* Mistake: the row being delivered is taken for the one that was claimed.
OwnsAnyClaim(p) ==
    LET d == run[p].at IN
    /\ row[d].status = "delivering"
    /\ made[d] = run[p].id
    /\ Leased(d)

\* The guard of markDelivered and markFailed.
Owns(p) ==
    LET d == run[p].at IN
    /\ row[d].status = "delivering"
    /\ made[d] = run[p].id
    /\ token[d] = run[p].token
    /\ Leased(d)

\* remainingLeaseMs, which a call of deliver() computes from the row it was given.
HasTime(p) == run[p].token \in unexpired[run[p].at]

\* getChannel: the channel may be gone or off, or cannot be read.
ReadChannel(p) ==
    /\ InPhase(p, "claimed")
    /\ \/ channel[run[p].at[1]] = "enabled" /\ Become(p, "sending")
       \/ channel[run[p].at[1]] # "enabled" /\ Become(p, "refused")
       \/ Become(p, "failed")
    /\ UNCHANGED <<channelVars, inserting, rowVars, wire, accepted, sent>>

\* The POST goes out if the lease has time left, or the address is no good.
Send(p) ==
    /\ InPhase(p, "sending")
    /\ \/ /\ HasTime(p)
          /\ Become(p, "waiting")
          /\ wire' = wire \cup {Message(p)}
          /\ sent' = [sent EXCEPT ![run[p].at] = @ + 1]
       \/ /\ ~HasTime(p)
          /\ run' = [run EXCEPT ![p] = Idle]
          /\ UNCHANGED <<wire, sent>>
       \/ /\ Become(p, "failed")
          /\ UNCHANGED <<wire, sent>>
    /\ UNCHANGED <<channelVars, inserting, rowVars, accepted>>

\* Mistake: any answer will do.
OutcomeOfAnyAnswer(verdict) == "accepted"

\* 2xx; 4xx but 408, 409, 425 and 429; anything else.
Outcome(verdict) == verdict

\* A POST reaches the server, whose answer its sender may wait for or not ...
Arrive(m, verdict) ==
    /\ m \in wire
    /\ wire' = wire \ {m}
    /\ accepted' = IF verdict = "accepted"
                   THEN [accepted EXCEPT ![m.at] = @ \cup {m.id}] ELSE accepted
    /\ \/ \E p \in Process :
            /\ InPhase(p, "waiting")
            /\ Message(p) = m
            /\ Become(p, Outcome(verdict))
       \/ UNCHANGED run
    /\ UNCHANGED <<channelVars, inserting, rowVars, sent>>

\* ... or it is lost.
Lose(m) ==
    /\ m \in wire
    /\ wire' = wire \ {m}
    /\ UNCHANGED <<channelVars, inserting, rowVars, run, accepted, sent>>

\* AbortSignal.timeout, or the connection fails.
TimeOut(p) ==
    /\ InPhase(p, "waiting")
    /\ Become(p, "failed")
    /\ UNCHANGED <<channelVars, inserting, rowVars, wire, accepted, sent>>

\* The row gets status, the lease is given up.
Record(d, status, due) ==
    /\ row' = [row EXCEPT ![d] = [status |-> status, attempts |-> @.attempts, due |-> due]]
    /\ token' = [token EXCEPT ![d] = 0]
    /\ unexpired' = [unexpired EXCEPT ![d] = {}]
    /\ UNCHANGED <<made, retries, issued>>

\* markDelivered.  It may fail, before or after its commit: the exception leads
\* to markFailed.
MarkDelivered(p) ==
    /\ InPhase(p, "accepted")
    /\ \/ /\ Owns(p)
          /\ Record(run[p].at, "delivered", row[run[p].at].due)
          /\ \/ run' = [run EXCEPT ![p] = Idle]
             \/ Become(p, "failed")
       \/ /\ UNCHANGED rowVars
          /\ \/ ~Owns(p) /\ run' = [run EXCEPT ![p] = Idle]
             \/ Become(p, "failed")
    /\ UNCHANGED <<channelVars, inserting, wire, accepted, sent>>

\* markFailed; if the store fails, flush() rejects and the lease runs out.
MarkFailed(p) ==
    /\ run[p].phase \in {"failed", "refused"}
    /\ \/ /\ Owns(p)
          /\ IF InPhase(p, "refused") \/ Exhausted(run[p].at)
               THEN Record(run[p].at, "dead_letter", FALSE)
               ELSE Record(run[p].at, "retrying", FALSE)
       \/ UNCHANGED rowVars
    /\ run' = [run EXCEPT ![p] = Idle]
    /\ UNCHANGED <<channelVars, inserting, wire, accepted, sent>>

-----------------------------------------------------------------------------
Claims(p) == \E scope \in {Delivery} \cup {{d} : d \in Delivery} : ClaimNext(p, scope)

Deliver(p) ==
    ReadChannel(p) \/ Send(p) \/ TimeOut(p) \/ MarkDelivered(p) \/ MarkFailed(p)

Channels ==
    \/ \E c \in Channel, enabled \in BOOLEAN : CreateChannel(c, enabled) \/ ReadPatch(c, enabled)
    \/ \E c \in Channel : DeleteChannel(c)
    \/ \E q \in patches : WritePatch(q)

Server ==
    \E m \in wire : Lose(m) \/ \E v \in {"accepted", "failed", "refused"} : Arrive(m, v)

Next ==
    \/ Channels
    \/ Server
    \/ \E d \in Delivery : ReadFeed(d) \/ Insert(d) \/ FallDue(d) \/ Retry(d)
                             \/ Prune(d) \/ Expire(d)
    \/ \E p \in Process : Claims(p) \/ Deliver(p) \/ Crash(p)

Spec == Init /\ [][Next]_vars

\* flush() runs every second in every process, a call of deliver() goes on
\* while its process lives, and instants pass.  Processes may crash for ever.
Fairness ==
    /\ \A p \in Process : WF_vars(Claims(p)) /\ WF_vars(Deliver(p))
    /\ \A d \in Delivery : WF_vars(FallDue(d)) /\ WF_vars(Expire(d))

FairSpec == Spec /\ Fairness

-----------------------------------------------------------------------------
(* Properties.                                                             *)

\* A claim stands for one attempt of one process: a call of deliver() that has
\* time left is delivering the row as it is, no other call with time left
\* delivers that row, and one that has not sent yet has an attempt left to send.
ClaimsExclude ==
    /\ \A p \in Process : ~InPhase(p, "idle") /\ HasTime(p) =>
         /\ Owns(p)
         /\ run[p].phase \in {"claimed", "sending"} =>
              sent[run[p].at] < row[run[p].at].attempts
    /\ \A p, q \in Process :
         p # q /\ ~InPhase(p, "idle") /\ ~InPhase(q, "idle") /\ run[p].at = run[q].at
           => ~(HasTime(p) /\ HasTime(q))

\* docs/stability-upgrade-20260906.md: an attempt is counted when it is claimed,
\* so not even processes that keep dying send a row more than five times.
AttemptBudget ==
    \A d \in Delivery : row[d].status # "absent" =>
        sent[d] <= row[d].attempts /\ row[d].attempts <= MaxAttempts

\* A row is delivered only if the server accepted a POST that carried its id,
\* whatever answers were lost or came too late.
DeliveredIsEarned ==
    \A d \in Delivery : row[d].status = "delivered" => made[d] \in accepted[d]

\* A call of deliver() whose claim another process has taken over, or which was
\* settled or retried, does not touch the row.
OldClaimsArePowerless ==
    [][\A p \in Process : run'[p] # run[p] /\ ~InPhase(p, "idle")
          /\ token[run[p].at] # run[p].token => UNCHANGED row]_vars

\* What is delivered stays so until it is pruned, and is not sent again.
DeliveredIsFinal ==
    [][\A d \in Delivery : row[d].status = "delivered" =>
          /\ row'[d].status \in {"delivered", "absent"}
          /\ \A m \in wire' \ wire : m.at # d]_vars

\* docs/outbound-notifications.md: a notification has one row per channel, so a
\* server that treats an id as handled handles a notification once.
OneRecordPerNotification ==
    \A d \in Delivery : \A i, j \in accepted[d] : i = j

\* Every delivery ends: it is delivered or becomes a dead letter, even if every
\* attempt at it dies with its process.
Settles == \A d \in Delivery : row[d].status \in Open ~> row[d].status \in Ended

-----------------------------------------------------------------------------
(* Why the safety properties hold: the inductive invariant behind them.    *)

\* Tokens come from the count of those issued, and the only claim of a row that
\* may have time left is the row's, while it is being delivered.
LeaseInv ==
    \A d \in Delivery :
        /\ token[d] <= issued[d]
        /\ \A t \in unexpired[d] :
             t # 0 /\ t = token[d] /\ row[d].status = "delivering"

\* A call of deliver() has a claim, and believes it was accepted only if it was.
CallInv ==
    \A p \in Process : ~InPhase(p, "idle") =>
        /\ run[p].at \in Delivery
        /\ 0 < run[p].token /\ run[p].token <= issued[run[p].at]
        /\ InPhase(p, "accepted") => run[p].id \in accepted[run[p].at]

\* Tokens identify calls of deliver().
TokenInv ==
    \A p, q \in Process :
        /\ ~InPhase(p, "idle") /\ ~InPhase(q, "idle")
        /\ run[p].at = run[q].at /\ run[p].token = run[q].token
        => p = q

\* A call that has time left has the row it was given, and until it sends it an
\* attempt that nothing was sent for.
TimeInv ==
    \A p \in Process : ~InPhase(p, "idle") /\ HasTime(p) =>
        /\ run[p].id = made[run[p].at]
        /\ run[p].phase \in {"claimed", "sending"} =>
             sent[run[p].at] < row[run[p].at].attempts

OutboxInv ==
    LeaseInv /\ CallInv /\ TokenInv /\ TimeInv /\ AttemptBudget /\ DeliveredIsEarned
=============================================================================
