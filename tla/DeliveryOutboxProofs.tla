------------------------ MODULE DeliveryOutboxProofs ------------------------
(***************************************************************************)
(* Proofs about DeliveryOutbox: a claim is a lock on a row for as long as  *)
(* its lease lasts, attempts stay within their limit whoever dies, and a   *)
(* row is delivered only when the user's server accepted it.               *)
(*                                                                         *)
(* LeaseInv is the heart: the only claim that may have time left is the    *)
(* row's, and only while the row is being delivered.  So a call that has   *)
(* time left owns its row (TimeInv), two calls never do (TokenInv), and an *)
(* attempt is counted before anything is sent for it (AttemptBudget).      *)
(***************************************************************************)
EXTENDS DeliveryOutbox, TLAPS

IInv == TypeOK /\ OutboxInv

\* What the invariant is about.
coreVars == <<row, made, token, unexpired, issued, run, accepted, sent>>

-----------------------------------------------------------------------------
(* What the helpers do.                                                    *)

\* A call of deliver() that goes on keeps its claim.
LEMMA BecomeShape ==
    ASSUME run \in [Process -> Run], NEW p \in Process, NEW phase \in Phase,
           Become(p, phase)
    PROVE  /\ run' \in [Process -> Run]
           /\ run'[p].phase = phase /\ run'[p].at = run[p].at
           /\ run'[p].id = run[p].id /\ run'[p].token = run[p].token
           /\ \A q \in Process : q # p => run'[q] = run[q]
    <1>1. run[p] \in Run
      OBVIOUS
    <1>2. run'[p] = [run[p] EXCEPT !.phase = phase]
      BY DEF Become
    <1>3. [run[p] EXCEPT !.phase = phase] = [phase |-> phase, at |-> run[p].at,
                                            id |-> run[p].id, token |-> run[p].token]
      BY <1>1 DEF Run
    <1>4. run'[p] \in Run
      BY <1>1, <1>2, <1>3 DEF Run
    <1>5. QED
      BY <1>2, <1>3, <1>4 DEF Become

\* Rows that are changed as claims and outcomes change them are rows.
LEMMA RowsTyped ==
    ASSUME NEW r \in Row, NEW status \in Open \cup Ended, NEW due \in BOOLEAN
    PROVE  /\ [status |-> status, attempts |-> r.attempts, due |-> due] \in Row
           /\ Buried(r) \in Row /\ Attempt(r) \in Row /\ Absent \in Row
           /\ [r EXCEPT !.due = due] =
                [status |-> r.status, attempts |-> r.attempts, due |-> due]
    <1>1. /\ [status |-> status, attempts |-> r.attempts, due |-> due] \in Row
          /\ Buried(r) \in Row /\ Attempt(r) \in Row /\ Absent \in Row
      BY DEF Row, Buried, Attempt, Absent, Open, Ended
    <1>2. [r EXCEPT !.due = due] =
             [status |-> r.status, attempts |-> r.attempts, due |-> due]
      BY DEF Row
    <1>3. QED
      BY <1>1, <1>2

\* What recording an outcome does to the row and its claim.
LEMMA RecordShape ==
    ASSUME TypeOK, NEW d \in Delivery, NEW status \in Open \cup Ended,
           NEW due \in BOOLEAN, Record(d, status, due)
    PROVE  /\ row' \in [Delivery -> Row]
           /\ token' \in [Delivery -> Nat]
           /\ unexpired' \in [Delivery -> SUBSET Nat]
           /\ row'[d].status = status /\ row'[d].attempts = row[d].attempts
           /\ token'[d] = 0 /\ unexpired'[d] = {}
           /\ \A e \in Delivery : e # d =>
                row'[e] = row[e] /\ token'[e] = token[e] /\ unexpired'[e] = unexpired[e]
           /\ UNCHANGED <<made, retries, issued>>
    <1>1. [status |-> status, attempts |-> row[d].attempts, due |-> due] \in Row
      BY RowsTyped DEF TypeOK
    <1>2. QED
      BY <1>1 DEF TypeOK, Record

\* A call that owns its row has what markDelivered and markFailed ask for.
LEMMA OwnerDelivers ==
    ASSUME LeaseInv, NEW p \in Process, run[p].at \in Delivery, HasTime(p)
    PROVE  /\ token[run[p].at] = run[p].token
           /\ row[run[p].at].status = "delivering"
           /\ Leased(run[p].at)
    BY DEF LeaseInv, HasTime, Leased

\* Posts are typed.
LEMMA MessageTyped ==
    ASSUME run \in [Process -> Run], NEW p \in Process, run[p].at \in Delivery
    PROVE  Message(p) \in Post
    BY DEF Message, Post, Run

-----------------------------------------------------------------------------
(* Steps of the calls of deliver().                                        *)

\* A call stays as it is, ends, or goes on with its claim: it is never again
\* before its POST, and takes the POST for accepted only if it was.
GoesOn(q) ==
    \/ run'[q] = run[q]
    \/ run'[q].phase = "idle"
    \/ /\ run[q].phase # "idle"
       /\ run'[q].at = run[q].at /\ run'[q].id = run[q].id
       /\ run'[q].token = run[q].token
       /\ run'[q].phase \in {"claimed", "sending"} =>
             run[q].phase \in {"claimed", "sending"}
       /\ run'[q].phase = "accepted" => run[q].id \in accepted'[run[q].at]

\* Calls that go on while the rows and what was sent stay as they are.
LEMMA CallStep ==
    ASSUME IInv, UNCHANGED <<row, made, token, unexpired, issued, sent>>,
           \A q \in Process : GoesOn(q),
           \A d \in Delivery : accepted[d] \subseteq accepted'[d]
    PROVE  OutboxInv'
    <1> USE DEF IInv, OutboxInv
    <1>1. LeaseInv'
      BY DEF LeaseInv
    <1>2. CallInv'
      BY DEF CallInv, GoesOn, InPhase
    <1>3. TokenInv'
      BY DEF TokenInv, GoesOn, InPhase
    <1>4. TimeInv'
      BY DEF TimeInv, GoesOn, InPhase, HasTime
    <1>5. AttemptBudget'
      BY DEF AttemptBudget
    <1>6. DeliveredIsEarned'
      BY DEF DeliveredIsEarned
    <1>7. QED
      BY <1>1, <1>2, <1>3, <1>4, <1>5, <1>6

\* Recording an outcome that was earned, by a call that goes on or ends.
LEMMA RecordStep ==
    ASSUME IInv, NEW d \in Delivery, row[d].status = "delivering",
           row'[d].attempts = row[d].attempts, token'[d] = 0, unexpired'[d] = {},
           row'[d].status = "delivered" => made[d] \in accepted[d],
           \A e \in Delivery : e # d =>
             row'[e] = row[e] /\ token'[e] = token[e] /\ unexpired'[e] = unexpired[e],
           UNCHANGED <<made, issued, sent, accepted>>,
           \A q \in Process : GoesOn(q)
    PROVE  OutboxInv'
    <1> USE DEF IInv, OutboxInv
    <1>1. LeaseInv'
      BY DEF LeaseInv, TypeOK
    <1>2. CallInv'
      BY DEF CallInv, GoesOn, InPhase
    <1>3. TokenInv'
      BY DEF TokenInv, GoesOn, InPhase
    <1>4. TimeInv'
      <2> SUFFICES ASSUME NEW p \in Process, (~InPhase(p, "idle"))', HasTime(p)'
                   PROVE  /\ run'[p].id = made'[run'[p].at]
                          /\ run'[p].phase \in {"claimed", "sending"} =>
                               sent'[run'[p].at] < row'[run'[p].at].attempts
        BY DEF TimeInv
      <2>1. /\ ~InPhase(p, "idle") /\ run'[p].at = run[p].at /\ run'[p].id = run[p].id
            /\ run'[p].token = run[p].token
            /\ run'[p].phase \in {"claimed", "sending"} =>
                 run[p].phase \in {"claimed", "sending"}
        BY DEF GoesOn, InPhase
      <2>2. run[p].at \in Delivery /\ run[p].at # d
        BY <2>1 DEF CallInv, HasTime
      <2>3. HasTime(p)
        BY <2>1, <2>2 DEF HasTime
      <2>4. QED
        BY <2>1, <2>2, <2>3 DEF TimeInv
    <1>5. AttemptBudget'
      BY DEF AttemptBudget
    <1>6. DeliveredIsEarned'
      BY DEF DeliveredIsEarned
    <1>7. QED
      BY <1>1, <1>2, <1>3, <1>4, <1>5, <1>6

\* deliver() and what the network and the server do to its POSTs.
LEMMA CallsStep ==
    ASSUME IInv, TypeOK', NEW p \in Process,
           ReadChannel(p) \/ TimeOut(p) \/ Crash(p)
    PROVE  OutboxInv'
    <1>1. CASE ReadChannel(p)
      <2>1. \E phase \in {"sending", "refused", "failed"} : Become(p, phase)
        BY <1>1 DEF ReadChannel
      <2>2. PICK phase \in {"sending", "refused", "failed"} : Become(p, phase)
        BY <2>1
      <2>3. \A q \in Process : GoesOn(q)
        BY <1>1, <2>2, BecomeShape DEF IInv, TypeOK, Phase, GoesOn, ReadChannel, InPhase
      <2>4. QED
        BY <1>1, <2>3, CallStep DEF ReadChannel, rowVars
    <1>2. CASE TimeOut(p)
      <2>1. \A q \in Process : GoesOn(q)
        BY <1>2, BecomeShape DEF IInv, TypeOK, Phase, GoesOn, TimeOut, InPhase
      <2>2. QED
        BY <1>2, <2>1, CallStep DEF TimeOut, rowVars
    <1>3. CASE Crash(p)
      <2>1. \A q \in Process : GoesOn(q)
        BY <1>3 DEF IInv, TypeOK, GoesOn, Crash, Idle
      <2>2. QED
        BY <1>3, <2>1, CallStep DEF Crash, rowVars
    <1>4. QED
      BY <1>1, <1>2, <1>3

LEMMA ArriveStep ==
    ASSUME IInv, TypeOK', NEW m \in wire, NEW v \in {"accepted", "failed", "refused"},
           Arrive(m, v)
    PROVE  OutboxInv'
    <1>0. m.at \in Delivery
      BY DEF IInv, TypeOK, Post
    <1>1. \A d \in Delivery : accepted[d] \subseteq accepted'[d]
      BY <1>0 DEF IInv, TypeOK, Arrive
    <1>2. \A q \in Process : GoesOn(q)
      <2>1. CASE UNCHANGED run
        BY <2>1 DEF GoesOn
      <2>2. CASE \E p \in Process :
                   InPhase(p, "waiting") /\ Message(p) = m /\ Become(p, Outcome(v))
        <3>1. PICK p \in Process :
                InPhase(p, "waiting") /\ Message(p) = m /\ Become(p, v)
          BY <2>2 DEF Outcome
        <3>2. m.at = run[p].at /\ m.id = run[p].id
          BY <3>1 DEF Message
        <3>3. v = "accepted" => run[p].id \in accepted'[run[p].at]
          BY <1>0, <3>2 DEF IInv, TypeOK, Arrive
        <3>4. QED
          BY <3>1, <3>3, BecomeShape DEF IInv, TypeOK, Phase, GoesOn, InPhase
      <2>3. QED
        BY <2>1, <2>2 DEF Arrive
    <1>3. QED
      BY <1>1, <1>2, CallStep DEF Arrive, rowVars

\* The POST uses the attempt that was counted for it.
LEMMA SendStep ==
    ASSUME IInv, TypeOK', NEW p \in Process, Send(p)
    PROVE  OutboxInv'
    <1>1. CASE Become(p, "failed") /\ UNCHANGED <<wire, sent>>
      <2>1. \A q \in Process : GoesOn(q)
        BY <1>1, BecomeShape DEF IInv, TypeOK, Phase, GoesOn, Send, InPhase
      <2>2. QED
        BY <1>1, <2>1, CallStep DEF Send, rowVars
    <1>2. CASE run' = [run EXCEPT ![p] = Idle] /\ UNCHANGED <<wire, sent>>
      <2>1. \A q \in Process : GoesOn(q)
        BY <1>2 DEF IInv, TypeOK, GoesOn, Idle
      <2>2. QED
        BY <1>2, <2>1, CallStep DEF Send, rowVars
    <1>3. CASE /\ HasTime(p) /\ Become(p, "waiting")
               /\ sent' = [sent EXCEPT ![run[p].at] = @ + 1]
      <2>1. InPhase(p, "sending") /\ ~InPhase(p, "idle")
        BY DEF Send, InPhase
      <2>2. run[p].at \in Delivery
        BY <2>1 DEF IInv, OutboxInv, CallInv
      <2>3. UNCHANGED <<row, made, token, unexpired, issued, accepted>>
        BY DEF Send, rowVars
      <2>4. /\ run'[p].phase = "waiting" /\ run'[p].at = run[p].at
            /\ run'[p].id = run[p].id /\ run'[p].token = run[p].token
            /\ \A q \in Process : q # p => run'[q] = run[q]
        BY <1>3, BecomeShape DEF IInv, TypeOK, Phase
      <2>5. sent[run[p].at] < row[run[p].at].attempts
        BY <1>3, <2>1 DEF IInv, OutboxInv, TimeInv, InPhase
      <2> USE DEF IInv, OutboxInv
      <2>6. LeaseInv'
        BY <2>3 DEF LeaseInv
      <2>7. CallInv'
        BY <2>1, <2>3, <2>4 DEF CallInv, InPhase
      <2>8. TokenInv'
        BY <2>1, <2>4 DEF TokenInv, InPhase
      <2>9. TimeInv'
        <3> SUFFICES ASSUME NEW q \in Process, (~InPhase(q, "idle"))', HasTime(q)'
                     PROVE  /\ run'[q].id = made'[run'[q].at]
                            /\ run'[q].phase \in {"claimed", "sending"} =>
                                 sent'[run'[q].at] < row'[run'[q].at].attempts
          BY DEF TimeInv
        <3>1. CASE q = p
          BY <1>3, <2>1, <2>3, <2>4, <3>1 DEF TimeInv
        <3>2. CASE q # p
          <4>1. run'[q] = run[q] /\ ~InPhase(q, "idle") /\ HasTime(q)
            BY <2>3, <2>4, <3>2 DEF InPhase, HasTime
          <4>2. run[q].at # run[p].at
            BY <1>3, <2>1, <2>2, <3>2, <4>1 DEF LeaseInv, TokenInv, HasTime
          <4>3. run[q].at \in Delivery /\ sent'[run[q].at] = sent[run[q].at]
            BY <1>3, <2>2, <4>1, <4>2 DEF CallInv, TypeOK
          <4>4. QED
            BY <2>3, <4>1, <4>3 DEF TimeInv
        <3>3. QED
          BY <3>1, <3>2
      <2>10. AttemptBudget'
        BY <1>3, <2>2, <2>3, <2>5 DEF AttemptBudget, TypeOK, Row
      <2>11. DeliveredIsEarned'
        BY <2>3 DEF DeliveredIsEarned
      <2>12. QED
        BY <2>6, <2>7, <2>8, <2>9, <2>10, <2>11
    <1>4. QED
      BY <1>1, <1>2, <1>3 DEF Send

\* Outcomes are recorded by the owner of the row; "delivered" only by a call whose
\* POST was accepted.
LEMMA MarkStep ==
    ASSUME IInv, TypeOK', NEW p \in Process, MarkDelivered(p) \/ MarkFailed(p)
    PROVE  OutboxInv'
    <1>1. ~InPhase(p, "idle") /\ run[p].at \in Delivery
      <2>1. ~InPhase(p, "idle")
        BY DEF MarkDelivered, MarkFailed, InPhase
      <2>2. QED
        BY <2>1 DEF IInv, OutboxInv, CallInv
    <1>2. \A q \in Process : GoesOn(q)
      <2>1. CASE run' = [run EXCEPT ![p] = Idle]
        BY <2>1 DEF IInv, TypeOK, GoesOn, Idle
      <2>2. CASE Become(p, "failed")
        BY <1>1, <2>2, BecomeShape DEF IInv, TypeOK, Phase, GoesOn, InPhase
      <2>3. QED
        BY <2>1, <2>2 DEF MarkDelivered, MarkFailed
    <1>3. UNCHANGED <<accepted, sent>>
      BY DEF MarkDelivered, MarkFailed
    <1>4. CASE UNCHANGED rowVars
      BY <1>2, <1>3, <1>4, CallStep DEF rowVars
    <1>5. CASE /\ Owns(p) /\ InPhase(p, "accepted")
               /\ Record(run[p].at, "delivered", row[run[p].at].due)
      <2>1. row[run[p].at].due \in BOOLEAN
        BY <1>1 DEF IInv, TypeOK, Row
      <2>2. made[run[p].at] \in accepted[run[p].at]
        BY <1>1, <1>5 DEF IInv, OutboxInv, CallInv, Owns
      <2>3. row[run[p].at].status = "delivering"
        BY <1>5 DEF Owns
      <2>4. QED
        BY <1>1, <1>2, <1>3, <1>5, <2>1, <2>2, <2>3, RecordShape, RecordStep
        DEF IInv, Open, Ended
    <1>6. CASE /\ Owns(p)
               /\ \/ Record(run[p].at, "dead_letter", FALSE)
                  \/ Record(run[p].at, "retrying", FALSE)
      <2>1. PICK status \in {"dead_letter", "retrying"} : Record(run[p].at, status, FALSE)
        BY <1>6
      <2>2. row[run[p].at].status = "delivering"
        BY <1>6 DEF Owns
      <2>3. row'[run[p].at].status = status
        BY <1>1, <2>1, RecordShape DEF IInv, Open, Ended
      <2>4. QED
        BY <1>1, <1>2, <1>3, <2>1, <2>2, <2>3, RecordShape, RecordStep
        DEF IInv, Open, Ended
    <1>7. QED
      BY <1>4, <1>5, <1>6 DEF MarkDelivered, MarkFailed

-----------------------------------------------------------------------------
(* Steps of the table.                                                     *)

\* A step that leaves the calls alone and of the rows changes one that nobody is
\* delivering, or the time of one that somebody delivers.
LEMMA RowStep ==
    ASSUME IInv, TypeOK', NEW d \in Delivery, UNCHANGED <<issued, run, accepted>>,
           \A e \in Delivery : e # d =>
             UNCHANGED <<row[e], made[e], token[e], unexpired[e], sent[e]>>,
           token'[d] <= token[d], unexpired'[d] = {},
           row'[d].status # "absent" =>
             sent'[d] <= row'[d].attempts /\ row'[d].attempts <= MaxAttempts,
           row'[d].status = "delivered" => made'[d] \in accepted[d]
    PROVE  OutboxInv'
    <1> USE DEF IInv, OutboxInv
    <1>1. LeaseInv'
      <2> SUFFICES ASSUME NEW e \in Delivery
                   PROVE  /\ token'[e] <= issued'[e]
                          /\ \A t \in unexpired'[e] :
                               t # 0 /\ t = token'[e] /\ row'[e].status = "delivering"
        BY DEF LeaseInv
      <2>1. CASE e = d
        BY <2>1 DEF LeaseInv, TypeOK
      <2>2. CASE e # d
        BY <2>2 DEF LeaseInv
      <2>3. QED
        BY <2>1, <2>2
    <1>2. CallInv'
      BY DEF CallInv, InPhase
    <1>3. TokenInv'
      BY DEF TokenInv, InPhase
    <1>4. TimeInv'
      BY DEF TimeInv, CallInv, InPhase, HasTime
    <1>5. AttemptBudget'
      BY DEF AttemptBudget
    <1>6. DeliveredIsEarned'
      BY DEF DeliveredIsEarned
    <1>7. QED
      BY <1>1, <1>2, <1>3, <1>4, <1>5, <1>6

\* What is not being delivered has no claim with time left.
LEMMA NoTimeLeft ==
    ASSUME IInv, NEW d \in Delivery, row[d].status # "delivering" \/ ~Leased(d)
    PROVE  unexpired[d] = {}
    BY DEF IInv, OutboxInv, LeaseInv, Leased, TypeOK

LEMMA InsertStep ==
    ASSUME IInv, TypeOK', NEW d \in inserting, Insert(d)
    PROVE  OutboxInv'
    <1>0. d \in Delivery
      BY DEF IInv, TypeOK
    <1>1. CASE row[d].status # "absent"
      <2>1. UNCHANGED coreVars
        BY <1>1 DEF Insert, coreVars
      <2>2. \A q \in Process : GoesOn(q)
        BY <2>1 DEF GoesOn, coreVars
      <2>3. QED
        BY <2>1, <2>2, CallStep DEF coreVars
    <1>2. CASE row[d].status = "absent"
      <2>1. unexpired[d] = {}
        BY <1>0, <1>2, NoTimeLeft
      <2>2. /\ row'[d].status = "pending" /\ row'[d].attempts = 0 /\ sent'[d] = 0
            /\ UNCHANGED <<token, unexpired, issued, run, accepted>>
            /\ \A e \in Delivery : e # d => UNCHANGED <<row[e], made[e], sent[e]>>
        BY <1>0, <1>2 DEF Insert, IInv, TypeOK
      <2>3. token'[d] <= token[d]
        BY <1>0, <2>2 DEF IInv, TypeOK
      <2>4. QED
        BY <1>0, <2>1, <2>2, <2>3, RowStep, OutboxAssumption
    <1>3. QED
      BY <1>1, <1>2

LEMMA FallDueStep ==
    ASSUME IInv, TypeOK', NEW d \in Delivery, FallDue(d)
    PROVE  OutboxInv'
    <1>1. row[d] \in Row
      BY DEF IInv, TypeOK
    <1>2. row'[d] = [status |-> row[d].status, attempts |-> row[d].attempts, due |-> TRUE]
      BY <1>1, RowsTyped DEF FallDue, IInv, TypeOK, Open
    <1>3. \A e \in Delivery :
             row'[e].status = row[e].status /\ row'[e].attempts = row[e].attempts
      <2>1. \A e \in Delivery \ {d} : row'[e] = row[e]
        BY DEF FallDue, IInv, TypeOK
      <2> QED BY <1>2, <2>1
    <1>4. UNCHANGED <<made, token, unexpired, issued, run, accepted, sent>>
      BY DEF FallDue
    <1> USE DEF IInv, OutboxInv
    <1>5. LeaseInv'
      BY <1>3, <1>4 DEF LeaseInv
    <1>6. CallInv' /\ TokenInv'
      BY <1>4 DEF CallInv, TokenInv, InPhase
    <1>7. TimeInv'
      BY <1>3, <1>4 DEF TimeInv, CallInv, InPhase, HasTime
    <1>8. AttemptBudget' /\ DeliveredIsEarned'
      BY <1>3, <1>4 DEF AttemptBudget, DeliveredIsEarned
    <1>9. QED
      BY <1>5, <1>6, <1>7, <1>8

LEMMA RetryStep ==
    ASSUME IInv, TypeOK', NEW d \in Delivery, Retry(d)
    PROVE  OutboxInv'
    <1>1. /\ row'[d].status = "pending" /\ row'[d].attempts = 0 /\ sent'[d] = 0
          /\ token'[d] = 0 /\ unexpired'[d] = {}
          /\ UNCHANGED <<made, issued, run, accepted>>
          /\ \A e \in Delivery : e # d =>
               UNCHANGED <<row[e], token[e], unexpired[e], sent[e]>>
      BY DEF Retry, RetriedAttempts, IInv, TypeOK
    <1>2. token'[d] <= token[d]
      BY <1>1 DEF IInv, TypeOK
    <1>3. QED
      BY <1>1, <1>2, RowStep, OutboxAssumption

LEMMA PruneStep ==
    ASSUME IInv, TypeOK', NEW d \in Delivery, Prune(d)
    PROVE  OutboxInv'
    <1>1. unexpired[d] = {}
      BY NoTimeLeft DEF Prune
    <1>2. /\ row'[d].status = "absent"
          /\ UNCHANGED <<made, token, unexpired, issued, run, accepted, sent>>
          /\ \A e \in Delivery : e # d => UNCHANGED row[e]
      BY DEF Prune, Absent, IInv, TypeOK
    <1>3. token'[d] <= token[d]
      BY <1>2 DEF IInv, TypeOK
    <1>4. QED
      BY <1>1, <1>2, <1>3, RowStep

LEMMA ExpireStep ==
    ASSUME IInv, TypeOK', NEW d \in Delivery, Expire(d)
    PROVE  OutboxInv'
    <1>1. \A e \in Delivery : unexpired'[e] \subseteq unexpired[e]
      BY DEF Expire, IInv, TypeOK
    <1>2. UNCHANGED <<row, made, token, issued, run, accepted, sent>>
      BY DEF Expire
    <1> USE DEF IInv, OutboxInv
    <1>3. LeaseInv'
      BY <1>1, <1>2 DEF LeaseInv
    <1>4. CallInv' /\ TokenInv'
      BY <1>2 DEF CallInv, TokenInv, InPhase
    <1>5. TimeInv'
      BY <1>1, <1>2 DEF TimeInv, CallInv, InPhase, HasTime
    <1>6. AttemptBudget' /\ DeliveredIsEarned'
      BY <1>2 DEF AttemptBudget, DeliveredIsEarned
    <1>7. QED
      BY <1>3, <1>4, <1>5, <1>6

-----------------------------------------------------------------------------
(* Claims.                                                                 *)

\* What claimNext does to each row: nothing, give it up or claim it.
LEMMA ClaimShape ==
    ASSUME TypeOK, NEW p \in Process, NEW scope \in SUBSET Delivery, ClaimNext(p, scope)
    PROVE  \E e \in Delivery \cup {NoDelivery} :
             /\ \A d \in Delivery :
                  \/ /\ d = e /\ Overdue(d) /\ ~Exhausted(d)
                     /\ row'[d] = Attempt(row[d]) /\ token'[d] = issued[d] + 1
                     /\ unexpired'[d] = unexpired[d] \cup {issued[d] + 1}
                     /\ issued'[d] = issued[d] + 1
                  \/ /\ d # e /\ Overdue(d)
                     /\ row'[d] = Buried(row[d]) /\ token'[d] = 0
                     /\ unexpired'[d] = {} /\ issued'[d] = issued[d]
                  \/ /\ d # e
                     /\ row'[d] = row[d] /\ token'[d] = token[d]
                     /\ unexpired'[d] = unexpired[d] /\ issued'[d] = issued[d]
             /\ e = NoDelivery => run' = run
             /\ e # NoDelivery =>
                  run' = [run EXCEPT ![p] = [phase |-> "claimed", at |-> e, id |-> made[e],
                                             token |-> issued[e] + 1]]
    <1> DEFINE over == {d \in scope : Overdue(d) /\ Exhausted(d)}
               open == {d \in scope : Overdue(d) /\ ~Exhausted(d)}
    <1>1. PICK e \in IF open = {} THEN {NoDelivery} ELSE open :
            /\ row' = [d \in Delivery |-> IF d \in over THEN Buried(row[d])
                                         ELSE IF d = e THEN Attempt(row[d]) ELSE row[d]]
            /\ token' = [d \in Delivery |-> IF d \in over THEN 0
                                           ELSE IF d = e THEN issued[d] + 1 ELSE token[d]]
            /\ unexpired' = [d \in Delivery |->
                               IF d \in over THEN {}
                               ELSE IF d = e THEN unexpired[d] \cup {issued[d] + 1}
                               ELSE unexpired[d]]
            /\ issued' = [d \in Delivery |-> IF d = e THEN issued[d] + 1 ELSE issued[d]]
            /\ run' = IF e = NoDelivery THEN run
                      ELSE [run EXCEPT ![p] = [phase |-> "claimed", at |-> e,
                                               id |-> made[e], token |-> issued[e] + 1]]
      BY DEF ClaimNext
    <1>2. e \in open \/ (e = NoDelivery /\ e \notin Delivery)
      BY OutboxAssumption DEF Delivery
    <1>3. open \subseteq Delivery /\ over \subseteq Delivery
      OBVIOUS
    <1>4. ASSUME NEW d \in Delivery
          PROVE  \/ /\ d = e /\ Overdue(d) /\ ~Exhausted(d)
                    /\ row'[d] = Attempt(row[d]) /\ token'[d] = issued[d] + 1
                    /\ unexpired'[d] = unexpired[d] \cup {issued[d] + 1}
                    /\ issued'[d] = issued[d] + 1
                 \/ /\ d # e /\ Overdue(d)
                    /\ row'[d] = Buried(row[d]) /\ token'[d] = 0
                    /\ unexpired'[d] = {} /\ issued'[d] = issued[d]
                 \/ /\ d # e
                    /\ row'[d] = row[d] /\ token'[d] = token[d]
                    /\ unexpired'[d] = unexpired[d] /\ issued'[d] = issued[d]
      <2>1. CASE d = e
        <3>1. d \notin over /\ Overdue(d) /\ ~Exhausted(d)
          BY <1>2, <2>1
        <3>2. QED
          BY <1>1, <2>1, <3>1
      <2>2. CASE d # e /\ d \in over
        BY <1>1, <2>2
      <2>3. CASE d # e /\ d \notin over
        BY <1>1, <2>3
      <2>4. QED
        BY <2>1, <2>2, <2>3
    <1>5. /\ e = NoDelivery => run' = run
          /\ e # NoDelivery =>
               run' = [run EXCEPT ![p] = [phase |-> "claimed", at |-> e, id |-> made[e],
                                          token |-> issued[e] + 1]]
      BY <1>1
    <1>6. e \in Delivery \cup {NoDelivery}
      BY <1>2, <1>3
    <1> HIDE DEF over, open
    <1>7. QED
      BY <1>4, <1>5, <1>6

\* A claim is of a row nobody has time left for, and its attempt is counted.
LEMMA ClaimStep ==
    ASSUME IInv, TypeOK', NEW p \in Process, NEW scope \in SUBSET Delivery,
           ClaimNext(p, scope)
    PROVE  OutboxInv'
    <1> PICK e \in Delivery \cup {NoDelivery} :
             /\ \A d \in Delivery :
                  \/ /\ d = e /\ Overdue(d) /\ ~Exhausted(d)
                     /\ row'[d] = Attempt(row[d]) /\ token'[d] = issued[d] + 1
                     /\ unexpired'[d] = unexpired[d] \cup {issued[d] + 1}
                     /\ issued'[d] = issued[d] + 1
                  \/ /\ d # e /\ Overdue(d)
                     /\ row'[d] = Buried(row[d]) /\ token'[d] = 0
                     /\ unexpired'[d] = {} /\ issued'[d] = issued[d]
                  \/ /\ d # e
                     /\ row'[d] = row[d] /\ token'[d] = token[d]
                     /\ unexpired'[d] = unexpired[d] /\ issued'[d] = issued[d]
             /\ e = NoDelivery => run' = run
             /\ e # NoDelivery =>
                  run' = [run EXCEPT ![p] = [phase |-> "claimed", at |-> e, id |-> made[e],
                                             token |-> issued[e] + 1]]
      BY ClaimShape DEF IInv
    <1>1. UNCHANGED <<made, accepted, sent>> /\ run[p] = Idle
      BY DEF ClaimNext
    <1>2. \A d \in Delivery : Overdue(d) => unexpired[d] = {}
      BY NoTimeLeft DEF Overdue
    <1>3. \A q \in Process : q # p => run'[q] = run[q]
      BY DEF IInv, TypeOK
    <1>4. \/ run'[p] = run[p]
          \/ /\ e \in Delivery /\ run'[p].at = e /\ run'[p].phase = "claimed"
             /\ run'[p].id = made[e] /\ run'[p].token = issued[e] + 1
      BY DEF IInv, TypeOK
    <1>5. InPhase(p, "idle")
      BY <1>1 DEF InPhase, Idle
    <1>0. ASSUME NEW d \in Delivery
          PROVE  \/ /\ row[d].status # "absent" /\ row[d].attempts < MaxAttempts
                    /\ row'[d].status = "delivering"
                    /\ row'[d].attempts = row[d].attempts + 1
                    /\ token'[d] = issued[d] + 1 /\ issued'[d] = issued[d] + 1
                    /\ unexpired'[d] = {issued[d] + 1}
                 \/ /\ row[d].status # "absent"
                    /\ row'[d].status = "dead_letter"
                    /\ row'[d].attempts = row[d].attempts
                    /\ token'[d] = 0 /\ issued'[d] = issued[d] /\ unexpired'[d] = {}
                 \/ /\ row'[d] = row[d] /\ token'[d] = token[d]
                    /\ unexpired'[d] = unexpired[d] /\ issued'[d] = issued[d]
      <2>1. CASE /\ Overdue(d) /\ ~Exhausted(d)
                 /\ row'[d] = Attempt(row[d]) /\ token'[d] = issued[d] + 1
                 /\ unexpired'[d] = unexpired[d] \cup {issued[d] + 1}
                 /\ issued'[d] = issued[d] + 1
        <3>1. row[d].status # "absent" /\ row[d].attempts \in Nat
          BY <2>1 DEF Overdue, Open, IInv, TypeOK, Row
        <3>2. row[d].attempts < MaxAttempts
          BY <2>1, <3>1, OutboxAssumption DEF Exhausted
        <3>3. unexpired'[d] = {issued[d] + 1}
          BY <1>2, <2>1
        <3>4. row'[d].status = "delivering" /\ row'[d].attempts = row[d].attempts + 1
          BY <2>1 DEF Attempt
        <3>5. QED
          BY <2>1, <3>1, <3>2, <3>3, <3>4
      <2>2. CASE /\ Overdue(d) /\ row'[d] = Buried(row[d]) /\ token'[d] = 0
                 /\ unexpired'[d] = {} /\ issued'[d] = issued[d]
        BY <2>2 DEF Overdue, Open, Buried
      <2>3. QED
        BY <2>1, <2>2
    <1> USE DEF IInv, OutboxInv
    <1>6. LeaseInv'
      <2> SUFFICES ASSUME NEW d \in Delivery
                   PROVE  /\ token'[d] <= issued'[d]
                          /\ \A t \in unexpired'[d] :
                               t # 0 /\ t = token'[d] /\ row'[d].status = "delivering"
        BY DEF LeaseInv
      <2>1. issued[d] \in Nat
        BY DEF TypeOK
      <2>2. QED
        BY <1>0, <2>1 DEF LeaseInv
    <1>7. CallInv'
      <2> SUFFICES ASSUME NEW q \in Process, run'[q].phase # "idle"
                   PROVE  /\ run'[q].at \in Delivery
                          /\ 0 < run'[q].token /\ run'[q].token <= issued'[run'[q].at]
                          /\ run'[q].phase = "accepted" => run'[q].id \in accepted'[run'[q].at]
        BY DEF CallInv, InPhase
      <2>1. CASE run'[q] = run[q]
        <3>1. /\ run[q].at \in Delivery
              /\ 0 < run[q].token /\ run[q].token <= issued[run[q].at]
              /\ run[q].phase = "accepted" => run[q].id \in accepted[run[q].at]
          BY <2>1 DEF CallInv, InPhase
        <3>2. /\ issued[run[q].at] \in Nat /\ run[q].token \in Nat
              /\ issued'[run[q].at] \in {issued[run[q].at], issued[run[q].at] + 1}
          BY <3>1 DEF TypeOK, Run
        <3>3. QED
          BY <1>1, <2>1, <3>1, <3>2
      <2>2. CASE run'[q] # run[q]
        <3>1. q = p /\ e \in Delivery /\ issued[e] \in Nat
          BY <1>3, <1>4, <2>2 DEF TypeOK
        <3>2. issued'[e] = issued[e] + 1
          BY <3>1
        <3>3. QED
          BY <1>4, <2>2, <3>1, <3>2
      <2>3. QED
        BY <2>1, <2>2
    <1>8. \A q \in Process : q # p /\ ~InPhase(q, "idle") /\ run[q].at = e
             => run[q].token # issued[e] + 1
      BY DEF CallInv, TypeOK, Run
    <1>9. TokenInv'
      BY <1>3, <1>4, <1>5, <1>8 DEF TokenInv, InPhase
    <1>10. TimeInv'
      <2> SUFFICES ASSUME NEW q \in Process, run'[q].phase # "idle",
                          run'[q].token \in unexpired'[run'[q].at]
                   PROVE  /\ run'[q].id = made'[run'[q].at]
                          /\ run'[q].phase \in {"claimed", "sending"} =>
                               sent'[run'[q].at] < row'[run'[q].at].attempts
        BY DEF TimeInv, InPhase, HasTime
      <2>1. CASE run'[q] = run[q]
        <3>1. run[q].at \in Delivery /\ ~InPhase(q, "idle")
          BY <2>1 DEF CallInv, InPhase
        <3>2. q # p
          BY <1>5, <3>1
        <3>3. /\ row'[run[q].at] = row[run[q].at]
              /\ unexpired'[run[q].at] = unexpired[run[q].at]
          BY <1>2, <1>8, <2>1, <3>1, <3>2
        <3>4. QED
          BY <1>1, <2>1, <3>1, <3>3 DEF TimeInv, HasTime
      <2>2. CASE run'[q] # run[q]
        <3>1. /\ q = p /\ e \in Delivery /\ run'[q].at = e
              /\ run'[q].id = made[e] /\ row'[e] = Attempt(row[e]) /\ Overdue(e)
          BY <1>3, <1>4, <2>2
        <3>2. sent[e] <= row[e].attempts /\ sent[e] \in Nat /\ row[e].attempts \in Nat
          BY <3>1 DEF AttemptBudget, Overdue, Open, TypeOK, Row
        <3>3. QED
          BY <1>1, <3>1, <3>2 DEF Attempt
      <2>3. QED
        BY <2>1, <2>2
    <1>11. AttemptBudget'
      <2> SUFFICES ASSUME NEW d \in Delivery, row'[d].status # "absent"
                   PROVE  sent'[d] <= row'[d].attempts /\ row'[d].attempts <= MaxAttempts
        BY DEF AttemptBudget
      <2>1. row[d].attempts \in Nat /\ sent[d] \in Nat
        BY DEF TypeOK, Row
      <2>2. QED
        BY <1>0, <1>1, <2>1, OutboxAssumption DEF AttemptBudget
    <1>12. DeliveredIsEarned'
      BY <1>0, <1>1 DEF DeliveredIsEarned
    <1>13. QED
      BY <1>6, <1>7, <1>9, <1>10, <1>11, <1>12

-----------------------------------------------------------------------------
(* Types.                                                                  *)

\* Operations on channels and the feed.
LEMMA ChannelsTyped ==
    ASSUME TypeOK
    PROVE  /\ \A c \in Channel, enabled \in BOOLEAN :
                CreateChannel(c, enabled) \/ ReadPatch(c, enabled) => TypeOK'
           /\ \A c \in Channel : DeleteChannel(c) => TypeOK'
           /\ \A q \in patches : WritePatch(q) => TypeOK'
           /\ \A d \in Delivery : ReadFeed(d) => TypeOK'
    <1> USE DEF TypeOK, rowVars, channelVars
    <1>1. ASSUME NEW c \in Channel, NEW enabled \in BOOLEAN, CreateChannel(c, enabled)
          PROVE  TypeOK'
      BY <1>1 DEF CreateChannel, Saved
    <1>2. ASSUME NEW c \in Channel, NEW enabled \in BOOLEAN, ReadPatch(c, enabled)
          PROVE  TypeOK'
      BY <1>2 DEF ReadPatch
    <1>3. ASSUME NEW c \in Channel, DeleteChannel(c)
          PROVE  TypeOK'
      BY <1>3 DEF DeleteChannel
    <1>4. ASSUME NEW q \in patches, WritePatch(q)
          PROVE  TypeOK'
      <2>1. Saved(q.enabled) \in {"enabled", "disabled"}
        BY DEF Saved
      <2>2. QED
        BY <1>4, <2>1 DEF WritePatch
    <1>5. ASSUME NEW d \in Delivery, ReadFeed(d)
          PROVE  TypeOK'
      BY <1>5 DEF ReadFeed
    <1>6. QED
      BY <1>1, <1>2, <1>3, <1>4, <1>5

\* Operations on rows.
LEMMA RowStepsTyped ==
    ASSUME TypeOK, NEW d \in Delivery
    PROVE  /\ Insert(d) => TypeOK'
           /\ FallDue(d) => TypeOK'
           /\ Retry(d) => TypeOK'
           /\ Prune(d) => TypeOK'
           /\ Expire(d) => TypeOK'
    <1> USE DEF TypeOK, rowVars, channelVars
    <1>1. [status |-> "pending", attempts |-> 0, due |-> TRUE] \in Row
      BY DEF Row, Open
    <1>2. ASSUME Insert(d)
          PROVE  TypeOK'
      <2>1. CASE row[d].status = "absent"
        <3>1. /\ row' \in [Delivery -> Row] /\ made' \in [Delivery -> Nat]
              /\ retries' \in [Delivery -> Nat] /\ sent' \in [Delivery -> Nat]
          <4>1. /\ row' = [row EXCEPT ![d] =
                             [status |-> "pending", attempts |-> 0, due |-> TRUE]]
                /\ made' = [made EXCEPT ![d] = made[d] + 1]
                /\ retries' = [retries EXCEPT ![d] = 0]
                /\ sent' = [sent EXCEPT ![d] = 0]
            BY <1>2, <2>1 DEF Insert
          <4>2. row' \in [Delivery -> Row]
            BY <1>1, <4>1
          <4>3. /\ made' \in [Delivery -> Nat] /\ retries' \in [Delivery -> Nat]
                /\ sent' \in [Delivery -> Nat]
            BY <4>1
          <4>4. QED
            BY <4>2, <4>3
        <3>2. inserting' \subseteq Delivery
          BY <1>2 DEF Insert
        <3>3. QED
          BY <1>2, <3>1, <3>2 DEF Insert
      <2>2. CASE row[d].status # "absent"
        BY <1>2, <2>2 DEF Insert
      <2>3. QED
        BY <2>1, <2>2
    <1>3. ASSUME FallDue(d)
          PROVE  TypeOK'
      <2>1. row[d] \in Row /\ TRUE \in BOOLEAN
        OBVIOUS
      <2>2. [row[d] EXCEPT !.due = TRUE]
              = [status |-> row[d].status, attempts |-> row[d].attempts, due |-> TRUE]
        BY <2>1, RowsTyped DEF Open
      <2>3. [row[d] EXCEPT !.due = TRUE] \in Row
        BY <2>1, <2>2 DEF Row
      <2>4. QED
        BY <1>3, <2>3 DEF FallDue
    <1>4. ASSUME Retry(d)
          PROVE  TypeOK'
      BY <1>1, <1>4 DEF Retry, RetriedAttempts
    <1>5. ASSUME Prune(d)
          PROVE  TypeOK'
      <2>1. Absent \in Row
        BY DEF Absent, Row, Ended
      <2>2. QED
        BY <1>5, <2>1 DEF Prune
    <1>6. ASSUME Expire(d)
          PROVE  TypeOK'
      BY <1>6 DEF Expire
    <1>7. QED
      BY <1>2, <1>3, <1>4, <1>5, <1>6

LEMMA ClaimTyped ==
    ASSUME TypeOK, NEW p \in Process, NEW scope \in SUBSET Delivery, ClaimNext(p, scope)
    PROVE  TypeOK'
    <1>1. PICK e \in Delivery \cup {NoDelivery} :
            /\ e = NoDelivery => run' = run
            /\ e # NoDelivery =>
                 run' = [run EXCEPT ![p] = [phase |-> "claimed", at |-> e, id |-> made[e],
                                            token |-> issued[e] + 1]]
      BY ClaimShape
    <1>2. run' \in [Process -> Run]
      <2>1. CASE e = NoDelivery
        BY <1>1, <2>1 DEF TypeOK
      <2>2. CASE e # NoDelivery
        <3>1. [phase |-> "claimed", at |-> e, id |-> made[e], token |-> issued[e] + 1] \in Run
          BY <2>2 DEF TypeOK, Run, Phase
        <3>2. QED
          BY <1>1, <2>2, <3>1 DEF TypeOK
      <2>3. QED
        BY <2>1, <2>2
    <1>3. \A d \in Delivery : /\ Buried(row[d]) \in Row /\ Attempt(row[d]) \in Row
                              /\ row[d] \in Row
      BY RowsTyped DEF TypeOK, Open
    <1>4. /\ row' \in [Delivery -> Row] /\ token' \in [Delivery -> Nat]
          /\ unexpired' \in [Delivery -> SUBSET Nat] /\ issued' \in [Delivery -> Nat]
      <2> DEFINE over == {d \in scope : Overdue(d) /\ Exhausted(d)}
                 open == {d \in scope : Overdue(d) /\ ~Exhausted(d)}
      <2>1. PICK f \in IF open = {} THEN {NoDelivery} ELSE open :
              /\ row' = [d \in Delivery |-> IF d \in over THEN Buried(row[d])
                                           ELSE IF d = f THEN Attempt(row[d]) ELSE row[d]]
              /\ token' = [d \in Delivery |-> IF d \in over THEN 0
                                             ELSE IF d = f THEN issued[d] + 1 ELSE token[d]]
              /\ unexpired' = [d \in Delivery |->
                                 IF d \in over THEN {}
                                 ELSE IF d = f THEN unexpired[d] \cup {issued[d] + 1}
                                 ELSE unexpired[d]]
              /\ issued' = [d \in Delivery |-> IF d = f THEN issued[d] + 1 ELSE issued[d]]
        BY DEF ClaimNext
      <2> HIDE DEF over, open
      <2>2. row' \in [Delivery -> Row]
        BY <1>3, <2>1
      <2>3. token' \in [Delivery -> Nat] /\ issued' \in [Delivery -> Nat]
        BY <2>1 DEF TypeOK
      <2>4. unexpired' \in [Delivery -> SUBSET Nat]
        <3>1. \A d \in Delivery : unexpired[d] \cup {issued[d] + 1} \in SUBSET Nat
          BY DEF TypeOK
        <3>2. QED
          BY <2>1, <3>1 DEF TypeOK
      <2>5. QED
        BY <2>2, <2>3, <2>4
    <1>5. UNCHANGED <<channelVars, inserting, made, retries, wire, accepted, sent>>
      BY DEF ClaimNext
    <1>6. QED
      BY <1>2, <1>4, <1>5 DEF TypeOK, channelVars

\* deliver(), the network and the server.
LEMMA CallsTyped ==
    ASSUME TypeOK, CallInv, NEW p \in Process
    PROVE  /\ ReadChannel(p) \/ TimeOut(p) \/ Crash(p) => TypeOK'
           /\ Send(p) => TypeOK'
           /\ MarkDelivered(p) \/ MarkFailed(p) => TypeOK'
    <1>0. Idle \in Run
      BY DEF Idle, Run, Phase
    <1>1. [run EXCEPT ![p] = Idle] \in [Process -> Run]
      BY <1>0 DEF TypeOK
    <1>2. \A phase \in Phase : Become(p, phase) => run' \in [Process -> Run]
      BY BecomeShape DEF TypeOK
    <1> USE DEF rowVars, channelVars
    <1>3. ASSUME ReadChannel(p) \/ TimeOut(p) \/ Crash(p)
          PROVE  TypeOK'
      <2>1. run' \in [Process -> Run]
        BY <1>1, <1>2, <1>3 DEF ReadChannel, TimeOut, Crash, Phase
      <2>2. QED
        BY <1>3, <2>1 DEF TypeOK, ReadChannel, TimeOut, Crash
    <1>4. ASSUME Send(p)
          PROVE  TypeOK'
      <2>1. run' \in [Process -> Run]
        BY <1>1, <1>2, <1>4 DEF Send, Phase
      <2>2. run[p].at \in Delivery
        BY <1>4 DEF CallInv, Send, InPhase
      <2>3. Message(p) \in Post
        BY <2>2, MessageTyped DEF TypeOK
      <2>4. wire' \subseteq Post /\ sent' \in [Delivery -> Nat]
        BY <1>4, <2>2, <2>3 DEF TypeOK, Send
      <2>5. QED
        BY <1>4, <2>1, <2>4 DEF TypeOK, Send
    <1>5. ASSUME MarkDelivered(p) \/ MarkFailed(p)
          PROVE  TypeOK'
      <2>1. run' \in [Process -> Run]
        BY <1>1, <1>2, <1>5 DEF MarkDelivered, MarkFailed, Phase
      <2>2. run[p].at \in Delivery
        BY <1>5 DEF CallInv, MarkDelivered, MarkFailed, InPhase
      <2>3. row[run[p].at].due \in BOOLEAN
        BY <2>2 DEF TypeOK, Row
      <2>4. /\ row' \in [Delivery -> Row] /\ token' \in [Delivery -> Nat]
            /\ unexpired' \in [Delivery -> SUBSET Nat]
            /\ UNCHANGED <<made, retries, issued>>
        <3>1. CASE UNCHANGED rowVars
          BY <3>1 DEF TypeOK
        <3>2. CASE \E status \in {"delivered", "dead_letter", "retrying"}, due \in BOOLEAN :
                     Record(run[p].at, status, due)
          BY <2>2, <3>2, RecordShape DEF Open, Ended
        <3>3. QED
          BY <1>5, <2>3, <3>1, <3>2 DEF MarkDelivered, MarkFailed
      <2>5. QED
        BY <1>5, <2>1, <2>4 DEF TypeOK, MarkDelivered, MarkFailed
    <1>6. QED
      BY <1>3, <1>4, <1>5

LEMMA ServerTyped ==
    ASSUME TypeOK, NEW m \in wire, NEW v \in {"accepted", "failed", "refused"}
    PROVE  (Lose(m) => TypeOK') /\ (Arrive(m, v) => TypeOK')
    <1> USE DEF rowVars, channelVars
    <1>1. ASSUME Lose(m)
          PROVE  TypeOK'
      BY <1>1 DEF TypeOK, Lose
    <1>2. ASSUME Arrive(m, v)
          PROVE  TypeOK'
      <2>1. run' \in [Process -> Run]
        <3>1. CASE UNCHANGED run
          BY <3>1 DEF TypeOK
        <3>2. CASE \E p \in Process : Become(p, v)
          BY <3>2, BecomeShape DEF TypeOK, Phase
        <3>3. QED
          BY <1>2, <3>1, <3>2 DEF Arrive, Outcome
      <2>2. m.at \in Delivery /\ m.id \in Nat
        BY DEF TypeOK, Post
      <2>3. accepted' \in [Delivery -> SUBSET Nat]
        BY <1>2, <2>2 DEF TypeOK, Arrive
      <2>4. QED
        BY <1>2, <2>1, <2>3 DEF TypeOK, Arrive
    <1>3. QED
      BY <1>1, <1>2

-----------------------------------------------------------------------------
(* Theorems.                                                               *)

\* Every step keeps the types and the invariant.
LEMMA InvariantStep == IInv /\ [Next]_vars => IInv'
    <1> SUFFICES ASSUME IInv, [Next]_vars
                 PROVE  IInv'
      OBVIOUS
    <1>0. TypeOK /\ CallInv
      BY DEF IInv, OutboxInv
    <1>1. CASE UNCHANGED coreVars /\ TypeOK'
      <2>1. \A q \in Process : GoesOn(q)
        BY <1>1 DEF GoesOn, coreVars
      <2>2. QED
        BY <1>1, <2>1, CallStep DEF IInv, coreVars
    <1>2. CASE Channels
      <2>1. UNCHANGED coreVars
        BY <1>2 DEF Channels, CreateChannel, ReadPatch, DeleteChannel, WritePatch,
                    coreVars, rowVars
      <2>2. TypeOK'
        BY <1>0, <1>2, ChannelsTyped DEF Channels
      <2>3. QED
        BY <1>1, <2>1, <2>2
    <1>3. ASSUME NEW m \in wire, Lose(m)
          PROVE  IInv'
      <2>1. UNCHANGED coreVars
        BY <1>3 DEF Lose, coreVars, rowVars
      <2>2. TypeOK'
        BY <1>0, <1>3, ServerTyped
      <2>3. QED
        BY <1>1, <2>1, <2>2
    <1>4. ASSUME NEW m \in wire, NEW v \in {"accepted", "failed", "refused"}, Arrive(m, v)
          PROVE  IInv'
      BY <1>0, <1>4, ServerTyped, ArriveStep DEF IInv
    <1>5. ASSUME NEW d \in Delivery, ReadFeed(d)
          PROVE  IInv'
      <2>1. UNCHANGED coreVars
        BY <1>5 DEF ReadFeed, coreVars, rowVars
      <2>2. TypeOK'
        BY <1>0, <1>5, ChannelsTyped
      <2>3. QED
        BY <1>1, <2>1, <2>2
    <1>6. ASSUME NEW d \in Delivery, Insert(d)
          PROVE  IInv'
      <2>1. d \in inserting
        BY <1>6 DEF Insert
      <2>2. QED
        BY <1>0, <1>6, <2>1, RowStepsTyped, InsertStep DEF IInv
    <1>7. ASSUME NEW d \in Delivery, FallDue(d) \/ Retry(d) \/ Prune(d) \/ Expire(d)
          PROVE  IInv'
      BY <1>0, <1>7, RowStepsTyped, FallDueStep, RetryStep, PruneStep, ExpireStep DEF IInv
    <1>8. ASSUME NEW p \in Process, Claims(p)
          PROVE  IInv'
      <2>1. PICK scope \in SUBSET Delivery : ClaimNext(p, scope)
        BY <1>8 DEF Claims
      <2>2. QED
        BY <1>0, <2>1, ClaimTyped, ClaimStep DEF IInv
    <1>9. ASSUME NEW p \in Process, Deliver(p) \/ Crash(p)
          PROVE  IInv'
      BY <1>0, <1>9, CallsTyped, CallsStep, SendStep, MarkStep DEF IInv, Deliver
    <1>10. CASE UNCHANGED vars
      <2>1. TypeOK'
        BY <1>0, <1>10 DEF TypeOK, vars, channelVars, rowVars
      <2>2. UNCHANGED coreVars
        BY <1>10 DEF coreVars, vars, rowVars
      <2>3. QED
        BY <1>1, <2>1, <2>2
    <1>11. QED
      BY <1>2, <1>3, <1>4, <1>5, <1>6, <1>7, <1>8, <1>9, <1>10 DEF Next, Server

LEMMA InvariantHolds == Spec => []IInv
    <1>1. Init => IInv
      <2>1. Absent \in Row /\ Idle \in Run
        BY DEF Absent, Row, Ended, Idle, Run, Phase
      <2>2. Init => TypeOK
        BY <2>1 DEF Init, TypeOK
      <2>3. Init => OutboxInv
        BY DEF Init, OutboxInv, LeaseInv, CallInv, TokenInv, TimeInv, AttemptBudget,
               DeliveredIsEarned, InPhase, Idle, Absent
      <2>4. QED
        BY <2>2, <2>3 DEF IInv
    <1>2. QED
      BY <1>1, InvariantStep, PTL DEF Spec

\* The types of the tables, of the calls of deliver() and of what travels.
THEOREM OutboxTyped == Spec => []TypeOK
    <1>1. IInv => TypeOK
      BY DEF IInv
    <1>2. QED
      BY <1>1, InvariantHolds, PTL

\* The outbox's inductive invariant holds, however many processes die.
THEOREM OutboxCorrect == Spec => []OutboxInv
    <1>1. IInv => OutboxInv
      BY DEF IInv
    <1>2. QED
      BY <1>1, InvariantHolds, PTL

\* The lease is a lock (claimNext, deliver): who has time left owns the row alone.
THEOREM ClaimsAreLocks == Spec => []ClaimsExclude
    <1>1. IInv => ClaimsExclude
      <2> SUFFICES ASSUME IInv
                   PROVE  ClaimsExclude
        OBVIOUS
      <2> USE DEF IInv, OutboxInv
      <2>1. ASSUME NEW p \in Process, ~InPhase(p, "idle"), HasTime(p)
            PROVE  Owns(p) /\ token[run[p].at] = run[p].token
        <3>1. run[p].at \in Delivery
          BY <2>1 DEF CallInv
        <3>2. QED
          BY <2>1, <3>1, OwnerDelivers DEF TimeInv, Owns
      <2>2. \A p, q \in Process :
              p # q /\ ~InPhase(p, "idle") /\ ~InPhase(q, "idle") /\ run[p].at = run[q].at
                => ~(HasTime(p) /\ HasTime(q))
        BY <2>1 DEF TokenInv
      <2>3. QED
        BY <2>1, <2>2 DEF ClaimsExclude, TimeInv
    <1>2. QED
      BY <1>1, InvariantHolds, PTL

\* An attempt is counted before its POST (claimNext), so that no crash exceeds the
\* limit.
THEOREM AttemptsAreBounded == Spec => []AttemptBudget
    <1>1. IInv => AttemptBudget
      BY DEF IInv, OutboxInv
    <1>2. QED
      BY <1>1, InvariantHolds, PTL

\* A delivered row was accepted by the user's server under its id.
THEOREM DeliveriesAreEarned == Spec => []DeliveredIsEarned
    <1>1. IInv => DeliveredIsEarned
      BY DEF IInv, OutboxInv
    <1>2. QED
      BY <1>1, InvariantHolds, PTL

\* A call whose claim is not the row's any more changes no row (markDelivered,
\* markFailed).
THEOREM OldCallsArePowerless == Spec => OldClaimsArePowerless
    <1>1. IInv /\ [Next]_vars =>
            \A p \in Process : run'[p] # run[p] /\ ~InPhase(p, "idle")
              /\ token[run[p].at] # run[p].token => UNCHANGED row
      <2> SUFFICES ASSUME IInv, [Next]_vars, NEW p \in Process, run'[p] # run[p],
                          ~InPhase(p, "idle"), token[run[p].at] # run[p].token,
                          row' # row
                   PROVE  FALSE
        OBVIOUS
      <2>1. PICK q \in Process : Claims(q) \/ MarkDelivered(q) \/ MarkFailed(q)
        BY DEF Next, Channels, CreateChannel, ReadPatch, DeleteChannel, WritePatch,
               Server, Lose, Arrive, ReadFeed, Insert, FallDue, Retry, Prune, Expire,
               Deliver, ReadChannel, Send, TimeOut, Crash, vars, rowVars
      <2>2. CASE Claims(q)
        <3>1. PICK scope \in SUBSET Delivery : ClaimNext(q, scope)
          BY <2>2 DEF Claims
        <3>2. run[q].phase = "idle" /\ q # p
          BY <3>1 DEF ClaimNext, Idle, InPhase
        <3>3. run'[p] = run[p]
          BY <3>1, <3>2, ClaimShape DEF IInv, TypeOK
        <3>4. QED
          BY <3>3
      <2>3. CASE MarkDelivered(q) \/ MarkFailed(q)
        <3>1. Owns(q)
          BY <2>3 DEF MarkDelivered, MarkFailed, rowVars
        <3>2. q # p
          BY <3>1 DEF Owns
        <3>3. run'[p] = run[p]
          BY <2>3, <3>2 DEF MarkDelivered, MarkFailed, Become, IInv, TypeOK
        <3>4. QED
          BY <3>3
      <2>4. QED
        BY <2>1, <2>2, <2>3
    <1>2. QED
      BY <1>1, InvariantHolds, PTL DEF Spec, OldClaimsArePowerless

\* What is delivered is not sent again and stays delivered until it is pruned.
THEOREM DeliveriesAreFinal == Spec => DeliveredIsFinal
    <1>1. IInv /\ [Next]_vars =>
            \A d \in Delivery : row[d].status = "delivered" =>
              /\ row'[d].status \in {"delivered", "absent"}
              /\ \A m \in wire' \ wire : m.at # d
      <2> SUFFICES ASSUME IInv, [Next]_vars, NEW d \in Delivery, row[d].status = "delivered"
                   PROVE  /\ row'[d].status \in {"delivered", "absent"}
                          /\ \A m \in wire' \ wire : m.at # d
        OBVIOUS
      <2>1. TypeOK /\ TypeOK'
        BY InvariantStep DEF IInv
      <2>2. CASE row'[d] = row[d] /\ wire' \subseteq wire
        BY <2>2
      <2>3. CASE \E p \in Process : Send(p)
        <3>1. PICK p \in Process : Send(p)
          BY <2>3
        <3>2. row' = row
          BY <3>1 DEF Send, rowVars
        <3>3. run[p].at \in Delivery
          BY <3>1 DEF IInv, OutboxInv, CallInv, Send, InPhase
        <3>4. CASE wire' = wire \cup {Message(p)} /\ HasTime(p)
          <4>1. row[run[p].at].status = "delivering"
            BY <3>3, <3>4, OwnerDelivers DEF IInv, OutboxInv
          <4>2. Message(p).at # d
            BY <4>1 DEF Message
          <4>3. QED
            BY <3>2, <3>4, <4>2
        <3>5. CASE wire' = wire
          BY <3>2, <3>5
        <3>6. QED
          BY <3>1, <3>4, <3>5 DEF Send
      <2>4. CASE \E p \in Process : MarkDelivered(p) \/ MarkFailed(p)
        <3>1. PICK p \in Process : MarkDelivered(p) \/ MarkFailed(p)
          BY <2>4
        <3>2. row' = row \/ Owns(p)
          BY <3>1 DEF MarkDelivered, MarkFailed, rowVars
        <3>3. CASE Owns(p)
          <4>1. run[p].at # d
            BY <3>3 DEF Owns
          <4>2. row'[d] = row[d]
            BY <2>1, <3>1, <4>1 DEF MarkDelivered, MarkFailed, Record, rowVars, TypeOK
          <4>3. QED
            BY <2>2, <3>1, <4>2 DEF MarkDelivered, MarkFailed
        <3>4. QED
          BY <2>2, <3>1, <3>2, <3>3 DEF MarkDelivered, MarkFailed
      <2>5. CASE \E p \in Process : Claims(p)
        <3>1. PICK p \in Process, scope \in SUBSET Delivery : ClaimNext(p, scope)
          BY <2>5 DEF Claims
        <3>2. ~Overdue(d)
          BY DEF Overdue, Open
        <3>3. row'[d] = row[d]
          BY <2>1, <3>1, <3>2, ClaimShape
        <3>4. QED
          BY <2>2, <3>1, <3>3 DEF ClaimNext
      <2>6. CASE \E e \in Delivery : ReadFeed(e) \/ Insert(e) \/ FallDue(e) \/ Retry(e)
                                      \/ Prune(e) \/ Expire(e)
        <3>1. PICK e \in Delivery : ReadFeed(e) \/ Insert(e) \/ FallDue(e) \/ Retry(e)
                                    \/ Prune(e) \/ Expire(e)
          BY <2>6
        <3>2. wire' = wire
          BY <3>1 DEF ReadFeed, Insert, FallDue, Retry, Prune, Expire
        <3>3. row'[d] = row[d] \/ Prune(e)
          BY <2>1, <3>1 DEF ReadFeed, Insert, FallDue, Retry, Retryable, Expire, rowVars,
                            TypeOK, Open
        <3>4. CASE Prune(e)
          BY <2>1, <3>2, <3>4 DEF Prune, Absent, TypeOK
        <3>5. QED
          BY <3>2, <3>3, <3>4
      <2>7. QED
        BY <2>2, <2>3, <2>4, <2>5, <2>6
        DEF Next, Channels, CreateChannel, ReadPatch, DeleteChannel, WritePatch, Server,
            Lose, Arrive, Deliver, ReadChannel, TimeOut, Crash, vars, rowVars
    <1>2. QED
      BY <1>1, InvariantHolds, PTL DEF Spec, DeliveredIsFinal
=============================================================================
