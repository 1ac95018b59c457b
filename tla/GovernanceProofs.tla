-------------------------- MODULE GovernanceProofs --------------------------
(***************************************************************************)
(* Theorems about Governance, for any calls, sources, windows, policies    *)
(* and thresholds; only the set of calls in flight is finite, because the  *)
(* code counts them.                                                       *)
(*                                                                         *)
(* GovernanceInv is inductive together with TypeOK.  Every step but a      *)
(* reservation only takes from rows: it deletes them, lets their time pass *)
(* or records their outcome.  "Follows" says so of one row, and most cases *)
(* of the proof use nothing else of a step.                                *)
(***************************************************************************)
EXTENDS Governance, FiniteSetTheorems, TLAPS

\* What every step but its reservation does to the row of c: it remains the
\* same reservation, or goes, and no outcome is taken back.
Follows(c) ==
    lease'[c] # NoLease =>
      /\ lease[c] # NoLease
      /\ lease'[c].source = lease[c].source
      /\ lease'[c].probe = lease[c].probe
      /\ lease'[c].generation = lease[c].generation
      /\ lease'[c].time > 0 => lease[c].time > 0
      /\ lease[c].recorded => lease'[c].recorded

\* A step that leaves the circuits as they are, but for their cooldown.
SameCircuits ==
    \A s \in Source :
      /\ health'[s].status = health[s].status
      /\ health'[s].generation = health[s].generation
      /\ health'[s].successes = health[s].successes

-----------------------------------------------------------------------------
(* Fields of rows.                                                         *)

\* A row with a new time, or a new mark, is a row with the same other fields.
LEMMA LeaseTime ==
    ASSUME NEW r \in Lease, NEW t \in 0 .. LeaseTicks
    PROVE  /\ [r EXCEPT !.time = t] \in Lease
           /\ [r EXCEPT !.time = t].source = r.source
           /\ [r EXCEPT !.time = t].probe = r.probe
           /\ [r EXCEPT !.time = t].recorded = r.recorded
           /\ [r EXCEPT !.time = t].generation = r.generation
           /\ [r EXCEPT !.time = t].time = t
<1>1. [r EXCEPT !.time = t] =
        [source |-> r.source, time |-> t, probe |-> r.probe,
         recorded |-> r.recorded, generation |-> r.generation]
  BY DEF Lease
<1> QED BY <1>1 DEF Lease

LEMMA LeaseMark ==
    ASSUME NEW r \in Lease, NEW b \in BOOLEAN
    PROVE  /\ [r EXCEPT !.recorded = b] \in Lease
           /\ [r EXCEPT !.recorded = b].source = r.source
           /\ [r EXCEPT !.recorded = b].time = r.time
           /\ [r EXCEPT !.recorded = b].probe = r.probe
           /\ [r EXCEPT !.recorded = b].generation = r.generation
           /\ [r EXCEPT !.recorded = b].recorded = b
<1>1. [r EXCEPT !.recorded = b] =
        [source |-> r.source, time |-> r.time, probe |-> r.probe,
         recorded |-> b, generation |-> r.generation]
  BY DEF Lease
<1> QED BY <1>1 DEF Lease

LEMMA HealthStatus ==
    ASSUME NEW h \in Health, NEW x \in Status
    PROVE  /\ [h EXCEPT !.status = x] \in Health
           /\ [h EXCEPT !.status = x].status = x
           /\ [h EXCEPT !.status = x].successes = h.successes
           /\ [h EXCEPT !.status = x].generation = h.generation
<1>1. [h EXCEPT !.status = x] =
        [status |-> x, failures |-> h.failures, successes |-> h.successes,
         generation |-> h.generation, cooldown |-> h.cooldown]
  BY DEF Health
<1> QED BY <1>1 DEF Health

LEMMA HealthCooldown ==
    ASSUME NEW h \in Health, NEW x \in 0 .. CooldownTicks
    PROVE  /\ [h EXCEPT !.cooldown = x] \in Health
           /\ [h EXCEPT !.cooldown = x].status = h.status
           /\ [h EXCEPT !.cooldown = x].successes = h.successes
           /\ [h EXCEPT !.cooldown = x].generation = h.generation
<1>1. [h EXCEPT !.cooldown = x] =
        [status |-> h.status, failures |-> h.failures, successes |-> h.successes,
         generation |-> h.generation, cooldown |-> x]
  BY DEF Health
<1> QED BY <1>1 DEF Health

\* What an outcome makes of a circuit is a circuit.
LEMMA OutcomesTyped ==
    ASSUME NEW h \in Health
    PROVE  /\ AfterSuccess(h) \in Health
           /\ Opened(h) \in Health
           /\ ~Trips(h) => Degraded(h) \in Health
<1>1. AfterSuccess(h) \in Health
  BY GovernanceAssumption DEF AfterSuccess, AtMost, Closes, Health, Status
<1>2. Opened(h) \in Health
  BY GovernanceAssumption DEF Opened, AtMost, Health, Status
<1>3. ~Trips(h) => Degraded(h) \in Health
  BY GovernanceAssumption DEF Degraded, Trips, Health, Status
<1> QED BY <1>1, <1>2, <1>3

-----------------------------------------------------------------------------
(* Shapes of steps.                                                        *)

\* reconcileLeases keeps a row as it is or removes it.
LEMMA ReconciledShape ==
    ASSUME TypeOK
    PROVE  /\ Reconciled \in [Call -> Lease \cup {NoLease}]
           /\ \A c \in Call : Reconciled[c] # NoLease => Live(c) /\ Reconciled[c] = lease[c]
           /\ \A c \in Call : Live(c) => Reconciled[c] = lease[c]
BY DEF TypeOK, Reconciled, Kept, Live

\* The number of rows is a number.
LEMMA SlotsType ==
    ASSUME NEW rows
    PROVE  Slots(rows) \in Nat
<1>1. IsFiniteSet({c \in Call : rows[c] # NoLease})
  BY FS_Subset, GovernanceAssumption
<1> QED BY <1>1, FS_CardinalityType DEF Slots

\* A reservation adds one row to those that were kept.
LEMMA ReserveSlots ==
    ASSUME TypeOK, NEW c \in Call, NEW s \in Source, Reserve(c, s)
    PROVE  Slots(lease') = Slots(Reconciled) + 1
<1> DEFINE Rows == {d \in Call : Reconciled[d] # NoLease}
           Row == [source |-> s, time |-> LeaseTicks, probe |-> Tests(health[s]),
                   recorded |-> FALSE, generation |-> health[s].generation]
<1>1. Row \in Lease
  BY GovernanceAssumption DEF TypeOK, Lease, Health, Tests
<1>2. lease' = [Reconciled EXCEPT ![c] = Row]
  BY DEF Reserve
<1>3. Row # NoLease
  BY <1>1, GovernanceAssumption
<1>4. Reconciled[c] = NoLease
  BY ReconciledShape DEF Reserve, Kept
<1> HIDE DEF Row
<1>5. {d \in Call : lease'[d] # NoLease} = Rows \cup {c}
  BY <1>2, <1>3, ReconciledShape
<1>6. IsFiniteSet(Rows) /\ c \notin Rows
  BY <1>4, FS_Subset, GovernanceAssumption
<1> HIDE DEF Rows
<1>7. Cardinality(Rows \cup {c}) = Cardinality(Rows) + 1
  BY <1>6, FS_AddElement
<1> QED BY <1>5, <1>7 DEF Slots, Rows

\* The row a reservation makes, and the others.
LEMMA ReserveShape ==
    ASSUME TypeOK, NEW c \in Call, NEW s \in Source, Reserve(c, s)
    PROVE  /\ lease' \in [Call -> Lease \cup {NoLease}]
           /\ lease'[c] # NoLease
           /\ lease'[c].source = s
           /\ lease'[c].time = LeaseTicks
           /\ lease'[c].probe = Tests(health[s])
           /\ lease'[c].recorded = FALSE
           /\ lease'[c].generation = health[s].generation
           /\ \A d \in Call \ {c} :
                lease'[d] # NoLease => Live(d) /\ lease'[d] = lease[d]
<1> DEFINE Row == [source |-> s, time |-> LeaseTicks, probe |-> Tests(health[s]),
                   recorded |-> FALSE, generation |-> health[s].generation]
<1>1. Row \in Lease
  BY GovernanceAssumption DEF TypeOK, Lease, Health, Tests
<1>2. lease' = [Reconciled EXCEPT ![c] = Row]
  BY DEF Reserve
<1>3. Row # NoLease
  BY <1>1, GovernanceAssumption
<1>4. lease'[c] = Row /\ \A d \in Call \ {c} : lease'[d] = Reconciled[d]
  BY <1>2, ReconciledShape
<1>5. lease' \in [Call -> Lease \cup {NoLease}]
  BY <1>1, <1>2, ReconciledShape
<1>6. \A d \in Call \ {c} : lease'[d] # NoLease => Live(d) /\ lease'[d] = lease[d]
  BY <1>4, ReconciledShape
<1> QED BY <1>3, <1>4, <1>5, <1>6

\* ... and what it does to the circuits.
LEMMA ReserveHealth ==
    ASSUME TypeOK, NEW c \in Call, NEW s \in Source, Reserve(c, s)
    PROVE  /\ health' \in [Source -> Health]
           /\ \A t \in Source : /\ health'[t].generation = health[t].generation
                                /\ health'[t].successes = health[t].successes
           /\ \A t \in Source \ {s} : health'[t].status = health[t].status
           /\ health'[s].status = IF health[s].status = "open" THEN "half-open"
                                                               ELSE health[s].status
<1>1. PICK x \in Status : x = IF health[s].status = "open" THEN "half-open"
                                                           ELSE health[s].status
  BY DEF TypeOK, Health, Status
<1>2. health' = [health EXCEPT ![s] = [health[s] EXCEPT !.status = x]]
  BY <1>1 DEF Reserve, TypeOK
<1>3. health[s] \in Health
  BY DEF TypeOK
<1> QED BY <1>1, <1>2, <1>3, HealthStatus DEF TypeOK

\* An outcome changes only the mark of its row.
LEMMA RecordedShape ==
    ASSUME TypeOK, NEW c \in Call, Recorded(c)
    PROVE  /\ lease' \in [Call -> Lease \cup {NoLease}]
           /\ \A d \in Call : Follows(d) /\ (lease'[d] # NoLease <=> lease[d] # NoLease)
           /\ \A d \in Call \ {c} : lease'[d] = lease[d]
           /\ Live(c) => lease'[c].recorded
<1>1. CASE ~Live(c)
  <2>1. lease' = lease
    BY <1>1 DEF Recorded
  <2> QED BY <1>1, <2>1 DEF Follows, TypeOK
<1>2. CASE Live(c)
  <2>1. lease[c] \in Lease
    BY <1>2 DEF Live, TypeOK
  <2>2. PICK b \in BOOLEAN : b = TRUE
    OBVIOUS
  <2>3. lease' = [lease EXCEPT ![c] = [lease[c] EXCEPT !.recorded = b]]
    BY <1>2, <2>2 DEF Recorded, TypeOK
  <2>4. /\ lease'[c] = [lease[c] EXCEPT !.recorded = b]
        /\ \A d \in Call \ {c} : lease'[d] = lease[d]
    BY <2>3 DEF TypeOK
  <2>5. [lease[c] EXCEPT !.recorded = b] \in Lease
    BY <2>1, LeaseMark
  <2>6. lease' \in [Call -> Lease \cup {NoLease}]
    BY <2>3, <2>5 DEF TypeOK
  <2>7. lease'[c] # NoLease /\ lease[c] # NoLease
    BY <2>1, <2>4, <2>5, GovernanceAssumption
  <2>8. Follows(c) /\ lease'[c].recorded
    BY <2>1, <2>2, <2>4, <2>7, LeaseMark DEF Follows
  <2>9. \A d \in Call \ {c} : Follows(d)
    BY <2>4 DEF Follows
  <2> QED BY <2>4, <2>6, <2>7, <2>8, <2>9
<1> QED BY <1>1, <1>2

\* A heartbeat gives time to a row that has some.
LEMMA RenewShape ==
    ASSUME TypeOK, NEW c \in Call, Renew(c)
    PROVE  /\ lease' \in [Call -> Lease \cup {NoLease}]
           /\ \A d \in Call : /\ Follows(d)
                              /\ lease'[d] # NoLease <=> lease[d] # NoLease
                              /\ lease[d] # NoLease => lease'[d].recorded = lease[d].recorded
<1>1. lease[c] \in Lease /\ lease[c].time > 0
  BY DEF Renew, Live, TypeOK
<1>2. LeaseTicks \in 0 .. LeaseTicks
  BY GovernanceAssumption
<1>3. lease' = [lease EXCEPT ![c] = [lease[c] EXCEPT !.time = LeaseTicks]]
  BY DEF Renew, TypeOK
<1>4. /\ lease'[c] = [lease[c] EXCEPT !.time = LeaseTicks]
      /\ \A d \in Call \ {c} : lease'[d] = lease[d]
  BY <1>3 DEF TypeOK
<1>5. [lease[c] EXCEPT !.time = LeaseTicks] \in Lease
  BY <1>1, <1>2, LeaseTime
<1>6. lease' \in [Call -> Lease \cup {NoLease}]
  BY <1>3, <1>5 DEF TypeOK
<1>7. lease'[c] # NoLease /\ lease[c] # NoLease
  BY <1>1, <1>4, <1>5, GovernanceAssumption
<1>8. Follows(c) /\ lease'[c].recorded = lease[c].recorded
  BY <1>1, <1>2, <1>4, <1>7, LeaseTime DEF Follows
<1>9. \A d \in Call \ {c} : Follows(d)
  BY <1>4 DEF Follows
<1> QED BY <1>4, <1>6, <1>7, <1>8, <1>9

\* Time passes: rows and circuits stay, but for their time.
LEMMA TickShape ==
    ASSUME TypeOK, Tick
    PROVE  /\ lease' \in [Call -> Lease \cup {NoLease}]
           /\ health' \in [Source -> Health]
           /\ SameCircuits
           /\ \A d \in Call : /\ Follows(d)
                              /\ lease'[d] # NoLease <=> lease[d] # NoLease
                              /\ lease[d] # NoLease => lease'[d].recorded = lease[d].recorded
<1>1. ASSUME NEW d \in Call
      PROVE  /\ lease'[d] \in Lease \cup {NoLease}
             /\ Follows(d)
             /\ lease'[d] # NoLease <=> lease[d] # NoLease
             /\ lease[d] # NoLease => lease'[d].recorded = lease[d].recorded
  <2>1. CASE ~Live(d)
    <3>1. lease'[d] = lease[d]
      BY <2>1 DEF Tick
    <3> QED BY <3>1 DEF Follows, TypeOK
  <2>2. CASE Live(d)
    <3>1. lease[d] \in Lease /\ lease[d].time > 0
      BY <2>2 DEF Live, TypeOK
    <3>2. PICK t \in 0 .. LeaseTicks : t = lease[d].time - 1
      BY <3>1, GovernanceAssumption DEF Lease
    <3>3. lease'[d] = [lease[d] EXCEPT !.time = t]
      BY <2>2, <3>2 DEF Tick
    <3>4. lease'[d] \in Lease
      BY <3>1, <3>3, LeaseTime
    <3>5. lease'[d] # NoLease /\ lease[d] # NoLease
      BY <3>1, <3>4, GovernanceAssumption
    <3> QED BY <3>1, <3>3, <3>4, <3>5, LeaseTime DEF Follows
  <2> QED BY <2>1, <2>2
<1>2. lease' \in [Call -> Lease \cup {NoLease}]
  <2>1. lease' = [c \in Call |-> lease'[c]]
    BY DEF Tick
  <2> QED BY <1>1, <2>1
<1>3. ASSUME NEW s \in Source
      PROVE  /\ health'[s] \in Health
             /\ health'[s].status = health[s].status
             /\ health'[s].generation = health[s].generation
             /\ health'[s].successes = health[s].successes
  <2>1. health[s] \in Health
    BY DEF TypeOK
  <2>2. PICK x \in 0 .. CooldownTicks : x = Sooner(health[s].cooldown)
    BY <2>1, GovernanceAssumption DEF Health, Sooner
  <2>3. health'[s] = [health[s] EXCEPT !.cooldown = x]
    BY <2>2 DEF Tick
  <2> QED BY <2>1, <2>3, HealthCooldown
<1>4. health' \in [Source -> Health]
  <2>1. health' = [s \in Source |-> health'[s]]
    BY DEF Tick
  <2> QED BY <1>3, <2>1
<1> QED BY <1>1, <1>2, <1>3, <1>4 DEF SameCircuits

\* A release, or a look at the tenant, only deletes rows.
LEMMA DeleteShape ==
    ASSUME TypeOK, Snapshot \/ \E c \in Call : Release(c)
    PROVE  /\ lease' \in [Call -> Lease \cup {NoLease}]
           /\ \A d \in Call : /\ Follows(d)
                              /\ lease'[d] # NoLease => lease'[d] = lease[d]
<1>1. /\ lease' \in [Call -> Lease \cup {NoLease}]
      /\ \A d \in Call : lease'[d] # NoLease => lease'[d] = Reconciled[d]
  BY ReconciledShape DEF Snapshot, Release
<1>2. \A d \in Call : lease'[d] # NoLease => lease'[d] = lease[d]
  BY <1>1, ReconciledShape
<1> QED BY <1>1, <1>2 DEF Follows

-----------------------------------------------------------------------------
(* Type correctness.                                                       *)

LEMMA OverTyped ==
    ASSUME TypeOK, NEW c \in Call, Over(c)
    PROVE  /\ pc' \in [Call -> {"idle", "calling", "reported"}]
           /\ current' \in [Source -> SUBSET Call]
           /\ \A d \in Call : pc'[d] = IF d = c THEN "idle" ELSE pc[d]
           /\ \A s \in Source : current'[s] = current[s] \ {c}
BY DEF TypeOK, Over

LEMMA TypeInit == Init => TypeOK
<1> SUFFICES ASSUME Init PROVE TypeOK
  OBVIOUS
<1>1. Healthy \in Health
  BY GovernanceAssumption DEF Healthy, Health, Status
<1> QED BY <1>1 DEF Init, TypeOK

LEMMA TypeStep == TypeOK /\ [Next]_vars => TypeOK'
<1> SUFFICES ASSUME TypeOK, [Next]_vars
             PROVE  TypeOK'
  OBVIOUS
<1> USE DEF usageVars, historyVars
<1>1. ASSUME NEW c \in Call, NEW s \in Source, Reserve(c, s)
      PROVE  TypeOK'
  <2>1. lease' \in [Call -> Lease \cup {NoLease}] /\ health' \in [Source -> Health]
    BY <1>1, ReserveShape, ReserveHealth
  <2>2. active' \in Nat
    BY <1>1, SlotsType DEF Reserve
  <2>3. used' \in [Window -> Nat] /\ policy' \in Policies
    BY <1>1 DEF Reserve, TypeOK
  <2>4. pc' \in [Call -> {"idle", "calling", "reported"}]
    BY <1>1 DEF Reserve, TypeOK
  <2>5. current' \in [Source -> SUBSET Call] /\ earned' \in [Source -> Nat]
    BY <1>1 DEF Reserve, TypeOK
  <2> QED BY <2>1, <2>2, <2>3, <2>4, <2>5 DEF TypeOK
<1>2. ASSUME NEW c \in Call, Renew(c)
      PROVE  TypeOK'
  BY <1>2, RenewShape DEF Renew, TypeOK
<1>3. ASSUME NEW c \in Call, ReportSuccess(c)
      PROVE  TypeOK'
  <2> DEFINE s == lease[c].source
  <2>1. lease[c] \in Lease /\ s \in Source
    BY <1>3 DEF ReportSuccess, Counts, Live, TypeOK, Lease
  <2>2. lease' \in [Call -> Lease \cup {NoLease}]
    BY <1>3, RecordedShape DEF ReportSuccess
  <2>3. health' \in [Source -> Health]
    BY <1>3, <2>1, OutcomesTyped DEF ReportSuccess, TypeOK
  <2>4. AtMost(earned[s] + 1, Recovery) \in Nat
    BY <2>1, GovernanceAssumption DEF AtMost, TypeOK
  <2>5. earned' \in [Source -> Nat]
    BY <1>3, <2>1, <2>4 DEF ReportSuccess, TypeOK
  <2>6. pc' \in [Call -> {"idle", "calling", "reported"}]
    BY <1>3 DEF ReportSuccess, TypeOK
  <2> QED BY <1>3, <2>2, <2>3, <2>5, <2>6 DEF ReportSuccess, TypeOK
<1>4. ASSUME NEW c \in Call, ReportFailure(c)
      PROVE  TypeOK'
  <2> DEFINE s == lease[c].source
  <2>1. lease[c] \in Lease /\ s \in Source /\ health[s] \in Health
    BY <1>4 DEF ReportFailure, Counts, Live, TypeOK, Lease
  <2>2. lease' \in [Call -> Lease \cup {NoLease}]
    BY <1>4, RecordedShape DEF ReportFailure
  <2>3. health' \in [Source -> Health]
    BY <1>4, <2>1, OutcomesTyped DEF ReportFailure, TypeOK
  <2>4. current' \in [Source -> SUBSET Call] /\ earned' \in [Source -> Nat]
    BY <1>4, <2>1 DEF ReportFailure, TypeOK
  <2>5. pc' \in [Call -> {"idle", "calling", "reported"}]
    BY <1>4 DEF ReportFailure, TypeOK
  <2> QED BY <1>4, <2>2, <2>3, <2>4, <2>5 DEF ReportFailure, TypeOK
<1>5. ASSUME NEW c \in Call, ReportIgnored(c)
      PROVE  TypeOK'
  <2>1. lease' \in [Call -> Lease \cup {NoLease}]
    BY <1>5, RecordedShape DEF ReportIgnored
  <2> QED BY <1>5, <2>1 DEF ReportIgnored, TypeOK
<1>6. ASSUME NEW c \in Call, ReportFails(c)
      PROVE  TypeOK'
  BY <1>6 DEF ReportFails, TypeOK
<1>7. ASSUME NEW c \in Call, Release(c)
      PROVE  TypeOK'
  <2>1. lease' \in [Call -> Lease \cup {NoLease}]
    BY <1>7, DeleteShape
  <2>2. active' \in Nat
    BY <1>7, SlotsType DEF Release, SlotsAfterRelease
  <2> QED BY <1>7, <2>1, <2>2, OverTyped DEF Release, TypeOK
<1>8. ASSUME NEW c \in Call, ReleaseFails(c) \/ Crash(c)
      PROVE  TypeOK'
  BY <1>8, OverTyped DEF ReleaseFails, Crash, TypeOK
<1>9. CASE Snapshot
  BY <1>9, DeleteShape, SlotsType DEF Snapshot, TypeOK
<1>10. CASE \E p \in Policies : UpdatePolicy(p)
  BY <1>10 DEF UpdatePolicy, TypeOK
<1>11. CASE \E w \in Window : NewWindow(w)
  BY <1>11 DEF NewWindow, TypeOK
<1>12. CASE Tick
  BY <1>12, TickShape DEF Tick, TypeOK
<1>13. CASE UNCHANGED vars
  BY <1>13 DEF vars, TypeOK
<1> QED BY <1>1, <1>2, <1>3, <1>4, <1>5, <1>6, <1>7, <1>8, <1>9, <1>10, <1>11,
           <1>12, <1>13 DEF Next

-----------------------------------------------------------------------------
(* Steps that touch no circuit.                                            *)

\* A row that has no new permissions leaves the probes as they are.
LEMMA ProbingFollows ==
    ASSUME NEW c \in Call, Follows(c), Probing(c)'
    PROVE  /\ Probing(c)
           /\ lease'[c].source = lease[c].source
           /\ lease'[c].generation = lease[c].generation
BY DEF Follows, Probing, Live

\* The probes stay apart while rows only lose and circuits stay.
LEMMA ProbesFollow ==
    ASSUME TypeOK, ProbeInv, \A c \in Call : Follows(c), SameCircuits
    PROVE  ProbeInv'
<1> SUFFICES ASSUME NEW c \in Call, Probing(c)'
             PROVE  /\ health'[lease'[c].source].status = "half-open"
                    /\ lease'[c].generation = health'[lease'[c].source].generation
                    /\ \A d \in Call :
                         Probing(d)' /\ lease'[d].source = lease'[c].source => d = c
  BY DEF ProbeInv
<1>1. /\ Probing(c)
      /\ lease'[c].source = lease[c].source
      /\ lease'[c].generation = lease[c].generation
  BY ProbingFollows
<1>2. lease[c].source \in Source
  BY <1>1 DEF Probing, Live, TypeOK, Lease
<1>3. ASSUME NEW d \in Call, Probing(d)', lease'[d].source = lease'[c].source
      PROVE  d = c
  <2>1. Probing(d) /\ lease'[d].source = lease[d].source
    BY <1>3, ProbingFollows
  <2> QED BY <1>1, <1>3, <2>1 DEF ProbeInv
<1> QED BY <1>1, <1>2, <1>3 DEF ProbeInv, SameCircuits

\* So do generations, when no call begins and none of a circuit's calls is
\* forgotten before its end.
LEMMA GenerationsFollow ==
    ASSUME TypeOK, GenerationInv, \A c \in Call : Follows(c), SameCircuits,
           \A c \in Call : pc'[c] = "calling" =>
             /\ pc[c] = "calling"
             /\ Live(c)' => lease'[c].recorded = lease[c].recorded
             /\ \A s \in Source : c \in current[s] => c \in current'[s],
           \A s \in Source : current'[s] \subseteq current[s],
           \A s \in Source : \A c \in current'[s] : pc'[c] # "idle"
    PROVE  GenerationInv'
<1>1. ASSUME NEW c \in Call, lease'[c] # NoLease
      PROVE  lease'[c].generation <= health'[lease'[c].source].generation
  <2>1. lease[c] # NoLease /\ lease'[c].source = lease[c].source
    BY <1>1 DEF Follows
  <2>2. lease[c].source \in Source
    BY <2>1 DEF TypeOK, Lease
  <2> QED BY <1>1, <2>1, <2>2 DEF Follows, GenerationInv, SameCircuits
<1>2. ASSUME NEW c \in Call, pc'[c] = "calling", Live(c)'
      PROVE  /\ ~lease'[c].recorded
             /\ lease'[c].generation = health'[lease'[c].source].generation
                  => c \in current'[lease'[c].source]
  <2>1. Live(c) /\ lease'[c].source = lease[c].source
    BY <1>2 DEF Follows, Live
  <2>2. lease[c].source \in Source
    BY <2>1 DEF Live, TypeOK, Lease
  <2> QED BY <1>2, <2>1, <2>2 DEF Follows, GenerationInv, SameCircuits, Live
<1>3. ASSUME NEW s \in Source, NEW c \in current'[s]
      PROVE  pc'[c] # "idle" /\ (lease'[c] # NoLease => lease'[c].source = s)
  <2>1. c \in Call /\ c \in current[s]
    BY DEF TypeOK
  <2> QED BY <2>1 DEF Follows, GenerationInv
<1> QED BY <1>1, <1>2, <1>3 DEF GenerationInv

\* And so does the account of a recovery.
LEMMA RecoveriesFollow ==
    ASSUME TypeOK, RecoveryInv, \A c \in Call : Follows(c), SameCircuits,
           \A s \in Source : current'[s] \subseteq current[s],
           earned' = earned
    PROVE  RecoveryInv'
<1> SUFFICES ASSUME NEW s \in Source
             PROVE  /\ health'[s].status = "open"
                          => current'[s] = {} /\ health'[s].successes = 0
                    /\ health'[s].status = "half-open" =>
                         /\ \A c \in current'[s] : lease'[c] # NoLease => lease'[c].probe
                         /\ health'[s].successes <= earned'[s]
  BY DEF RecoveryInv
<1>1. /\ health'[s].status = "open" => current'[s] = {} /\ health'[s].successes = 0
      /\ health'[s].status = "half-open" => health'[s].successes <= earned'[s]
  BY DEF RecoveryInv, SameCircuits
<1>2. ASSUME NEW c \in current'[s], health'[s].status = "half-open", lease'[c] # NoLease
      PROVE  lease'[c].probe
  <2>1. c \in Call /\ c \in current[s]
    BY DEF TypeOK
  <2> QED BY <1>2, <2>1 DEF Follows, RecoveryInv, SameCircuits
<1> QED BY <1>1, <1>2

-----------------------------------------------------------------------------
(* The inductive invariant.                                                *)

\* A step of Next that is neither a reservation nor a report that counts.
Quiet ==
    \/ \E c \in Call : \/ Renew(c) \/ ReportIgnored(c) \/ ReportFails(c)
                       \/ Release(c) \/ ReleaseFails(c) \/ Crash(c)
    \/ Snapshot
    \/ \E p \in Policies : UpdatePolicy(p)
    \/ \E w \in Window : NewWindow(w)
    \/ Tick
    \/ UNCHANGED vars

\* The slots stay counted when no row comes or goes.
LEMMA SameSlots ==
    ASSUME \A c \in Call : lease'[c] # NoLease <=> lease[c] # NoLease
    PROVE  Slots(lease') = Slots(lease)
<1>1. {c \in Call : lease'[c] # NoLease} = {c \in Call : lease[c] # NoLease}
  OBVIOUS
<1> QED BY <1>1 DEF Slots

LEMMA QuietRows ==
    ASSUME TypeOK, Quiet
    PROVE  /\ \A c \in Call : Follows(c)
           /\ SameCircuits
           /\ earned' = earned
<1> USE DEF usageVars, historyVars
<1>1. ASSUME lease' = lease PROVE \A c \in Call : Follows(c)
  BY <1>1 DEF Follows
<1>2. ASSUME health' = health PROVE SameCircuits
  BY <1>2 DEF SameCircuits
<1>3. CASE \E c \in Call : Renew(c)
  BY <1>2, <1>3, RenewShape DEF Renew
<1>4. CASE \E c \in Call : ReportIgnored(c)
  BY <1>2, <1>4, RecordedShape DEF ReportIgnored
<1>5. CASE \E c \in Call : ReportFails(c) \/ ReleaseFails(c) \/ Crash(c)
  BY <1>1, <1>2, <1>5 DEF ReportFails, ReleaseFails, Crash
<1>6. CASE Snapshot \/ \E c \in Call : Release(c)
  BY <1>2, <1>6, DeleteShape DEF Snapshot, Release
<1>7. CASE (\E p \in Policies : UpdatePolicy(p)) \/ (\E w \in Window : NewWindow(w))
  BY <1>1, <1>2, <1>7 DEF UpdatePolicy, NewWindow
<1>8. CASE Tick
  BY <1>8, TickShape DEF Tick
<1>9. CASE UNCHANGED vars
  BY <1>1, <1>2, <1>9 DEF vars
<1> QED BY <1>3, <1>4, <1>5, <1>6, <1>7, <1>8, <1>9 DEF Quiet

\* What a quiet step does to the calls: none begins, and those that end leave
\* the history with their place.
LEMMA QuietCalls ==
    ASSUME TypeOK, GenerationInv, Quiet
    PROVE  /\ \A c \in Call : pc'[c] = "calling" =>
                /\ pc[c] = "calling"
                /\ Live(c)' => lease'[c].recorded = lease[c].recorded
                /\ \A s \in Source : c \in current[s] => c \in current'[s]
           /\ \A s \in Source : current'[s] \subseteq current[s]
           /\ \A s \in Source : \A c \in current'[s] : pc'[c] # "idle"
<1> USE DEF usageVars, historyVars
<1>0. /\ \A s \in Source : current[s] \subseteq Call
      /\ \A s \in Source : \A c \in current[s] : pc[c] # "idle"
  BY DEF TypeOK, GenerationInv
<1>1. CASE \E c \in Call : Renew(c)
  <2>1. \A d \in Call : Live(d)' => lease'[d].recorded = lease[d].recorded
    BY <1>1, RenewShape DEF Live
  <2> QED BY <1>0, <1>1, <2>1 DEF Renew
<1>2. ASSUME NEW c \in Call, ReportIgnored(c)
      PROVE  /\ \A d \in Call : pc'[d] = "calling" =>
                  /\ pc[d] = "calling"
                  /\ Live(d)' => lease'[d].recorded = lease[d].recorded
                  /\ \A s \in Source : d \in current[s] => d \in current'[s]
             /\ \A s \in Source : current'[s] \subseteq current[s]
             /\ \A s \in Source : \A d \in current'[s] : pc'[d] # "idle"
  <2>1. \A d \in Call : pc'[d] = IF d = c THEN "reported" ELSE pc[d]
    BY <1>2 DEF ReportIgnored, TypeOK
  <2>2. \A d \in Call \ {c} : lease'[d] = lease[d]
    BY <1>2, RecordedShape DEF ReportIgnored
  <2> QED BY <1>0, <1>2, <2>1, <2>2 DEF ReportIgnored
<1>3. ASSUME NEW c \in Call, ReportFails(c)
      PROVE  /\ \A d \in Call : pc'[d] = "calling" =>
                  /\ pc[d] = "calling"
                  /\ Live(d)' => lease'[d].recorded = lease[d].recorded
                  /\ \A s \in Source : d \in current[s] => d \in current'[s]
             /\ \A s \in Source : current'[s] \subseteq current[s]
             /\ \A s \in Source : \A d \in current'[s] : pc'[d] # "idle"
  <2>1. \A d \in Call : pc'[d] = IF d = c THEN "reported" ELSE pc[d]
    BY <1>3 DEF ReportFails, TypeOK
  <2> QED BY <1>0, <1>3, <2>1 DEF ReportFails
<1>4. ASSUME NEW c \in Call, Release(c) \/ ReleaseFails(c) \/ Crash(c)
      PROVE  /\ \A d \in Call : pc'[d] = "calling" =>
                  /\ pc[d] = "calling"
                  /\ Live(d)' => lease'[d].recorded = lease[d].recorded
                  /\ \A s \in Source : d \in current[s] => d \in current'[s]
             /\ \A s \in Source : current'[s] \subseteq current[s]
             /\ \A s \in Source : \A d \in current'[s] : pc'[d] # "idle"
  <2>1. /\ \A d \in Call : pc'[d] = IF d = c THEN "idle" ELSE pc[d]
        /\ \A s \in Source : current'[s] = current[s] \ {c}
    BY <1>4, OverTyped DEF Release, ReleaseFails, Crash
  <2>2. \A d \in Call : Live(d)' => lease'[d] = lease[d]
    BY <1>4, DeleteShape DEF Live, ReleaseFails, Crash
  <2> QED BY <1>0, <2>1, <2>2
<1>5. CASE Snapshot
  <2>1. \A d \in Call : Live(d)' => lease'[d] = lease[d]
    BY <1>5, DeleteShape DEF Live
  <2> QED BY <1>0, <1>5, <2>1 DEF Snapshot
<1>6. CASE (\E p \in Policies : UpdatePolicy(p)) \/ (\E w \in Window : NewWindow(w))
  BY <1>0, <1>6 DEF UpdatePolicy, NewWindow
<1>7. CASE Tick
  <2>1. \A d \in Call : Live(d)' => lease'[d].recorded = lease[d].recorded
    BY <1>7, TickShape DEF Live
  <2> QED BY <1>0, <1>7, <2>1 DEF Tick
<1>8. CASE UNCHANGED vars
  BY <1>0, <1>8 DEF vars
<1> QED BY <1>1, <1>2, <1>3, <1>4, <1>5, <1>6, <1>7, <1>8 DEF Quiet

LEMMA QuietSlots ==
    ASSUME TypeOK, SlotInv, Quiet
    PROVE  SlotInv'
<1> USE DEF usageVars, historyVars, SlotInv
<1>1. CASE \E c \in Call : Renew(c)
  BY <1>1, RenewShape, SameSlots DEF Renew
<1>2. CASE \E c \in Call : ReportIgnored(c)
  BY <1>2, RecordedShape, SameSlots DEF ReportIgnored
<1>3. CASE \E c \in Call : ReportFails(c) \/ ReleaseFails(c) \/ Crash(c)
  BY <1>3 DEF ReportFails, ReleaseFails, Crash
<1>4. CASE \E c \in Call : Release(c)
  BY <1>4 DEF Release, SlotsAfterRelease
<1>5. CASE Snapshot
  BY <1>5 DEF Snapshot
<1>6. CASE (\E p \in Policies : UpdatePolicy(p)) \/ (\E w \in Window : NewWindow(w))
  BY <1>6 DEF UpdatePolicy, NewWindow
<1>7. CASE Tick
  BY <1>7, TickShape, SameSlots DEF Tick
<1>8. CASE UNCHANGED vars
  BY <1>8 DEF vars
<1> QED BY <1>1, <1>2, <1>3, <1>4, <1>5, <1>6, <1>7, <1>8 DEF Quiet

LEMMA QuietStep ==
    ASSUME TypeOK, GovernanceInv, Quiet
    PROVE  GovernanceInv'
BY QuietRows, QuietCalls, QuietSlots, ProbesFollow, GenerationsFollow, RecoveriesFollow
   DEF GovernanceInv

\* A reservation.  The row it makes is a probe when the circuit is being
\* tested, and then no other probe of the source has a row.
LEMMA ReserveStep ==
    ASSUME TypeOK, GovernanceInv, NEW c \in Call, NEW s \in Source, Reserve(c, s)
    PROVE  GovernanceInv'
<1>0. lease'[c] \in Lease /\ health[s] \in Health
  BY ReserveShape DEF TypeOK
<1>1. \A d \in Call \ {c} : Live(d)' => Live(d) /\ lease'[d] = lease[d]
  BY ReserveShape DEF Live
<1>2. /\ \A d \in Call : pc'[d] = IF d = c THEN "calling" ELSE pc[d]
      /\ \A t \in Source \ {s} : current'[t] = current[t]
      /\ current'[s] = current[s] \cup {c}
      /\ earned' = earned
  BY DEF Reserve, TypeOK
<1>3. \A t \in Source : current[t] \subseteq Call \ {c}
  BY DEF GovernanceInv, GenerationInv, Reserve, TypeOK
<1>4. SlotInv'
  BY ReserveSlots DEF SlotInv, Reserve
<1>5. ProbeInv'
  <2>1. ASSUME NEW d \in Call \ {c}, Probing(d)'
        PROVE  Probing(d) /\ lease'[d] = lease[d] /\ lease[d].source \in Source \ {s}
    <3>1. Probing(d) /\ lease'[d] = lease[d]
      BY <1>1, <2>1 DEF Probing
    <3>2. lease[d].source \in Source
      BY <3>1 DEF Probing, Live, TypeOK, Lease
    <3>3. health[lease[d].source].status = "half-open"
      BY <3>1 DEF GovernanceInv, ProbeInv
    <3>4. ASSUME lease[d].source = s PROVE FALSE
      <4>1. Untested(s)
        BY <3>3, <3>4 DEF Reserve, Admits
      <4> QED BY <3>1, <3>4, <4>1 DEF Untested, Probing, Kept
    <3> QED BY <3>1, <3>2, <3>4
  <2>2. ASSUME Probing(c)'
        PROVE  /\ health'[s].status = "half-open"
               /\ lease'[c].generation = health'[s].generation
    <3>1. /\ lease'[c].probe = Tests(health[s])
          /\ lease'[c].generation = health[s].generation
      BY ReserveShape
    <3>2. health[s].status \in {"open", "half-open"}
      BY <2>2, <3>1 DEF Probing, Tests
    <3>3. /\ health'[s].generation = health[s].generation
          /\ health'[s].status = IF health[s].status = "open" THEN "half-open"
                                                             ELSE health[s].status
      BY ReserveHealth
    <3> QED BY <3>1, <3>2, <3>3
  <2>3. ASSUME NEW d \in Call \ {c}, Probing(d)'
        PROVE  /\ health'[lease'[d].source].status = "half-open"
               /\ lease'[d].generation = health'[lease'[d].source].generation
    BY <2>1, <2>3, ReserveHealth DEF GovernanceInv, ProbeInv
  <2>5. lease'[c].source = s
    BY ReserveShape
  <2>4. ASSUME NEW d \in Call, Probing(d)', NEW e \in Call, Probing(e)',
               lease'[e].source = lease'[d].source
        PROVE  e = d
    <3>1. CASE d # c /\ e = c
      <4>1. lease'[d].source # s
        BY <2>1, <2>4, <3>1
      <4> QED BY <2>4, <2>5, <3>1, <4>1
    <3>2. CASE d = c /\ e # c
      <4>1. lease'[e].source # s
        BY <2>1, <2>4, <3>2
      <4> QED BY <2>4, <2>5, <3>2, <4>1
    <3>3. CASE d # c /\ e # c
      BY <2>1, <2>4, <3>3 DEF GovernanceInv, ProbeInv
    <3> QED BY <3>1, <3>2, <3>3
  <2> QED BY <2>2, <2>3, <2>4, <2>5 DEF ProbeInv
<1>6. GenerationInv'
  <2>1. ASSUME NEW d \in Call, lease'[d] # NoLease
        PROVE  lease'[d].generation <= health'[lease'[d].source].generation
    <3>1. CASE d = c
      <4>1. health[s].generation \in Nat
        BY <1>0 DEF Health
      <4>2. lease'[c].source = s /\ lease'[c].generation = health[s].generation
        BY ReserveShape
      <4>3. health'[s].generation = health[s].generation
        BY ReserveHealth
      <4> QED BY <3>1, <4>1, <4>2, <4>3
    <3>2. CASE d # c
      <4>1. Live(d) /\ lease'[d] = lease[d]
        BY <2>1, <3>2, ReserveShape
      <4>2. lease[d] # NoLease /\ lease[d].source \in Source
        BY <4>1 DEF Live, TypeOK, Lease
      <4> QED BY <4>1, <4>2, ReserveHealth DEF GovernanceInv, GenerationInv
    <3> QED BY <3>1, <3>2
  <2>2. ASSUME NEW d \in Call, pc'[d] = "calling", Live(d)'
        PROVE  /\ ~lease'[d].recorded
               /\ lease'[d].generation = health'[lease'[d].source].generation
                    => d \in current'[lease'[d].source]
    <3>1. CASE d = c
      BY <1>2, <3>1, ReserveShape
    <3>2. CASE d # c
      <4>1. Live(d) /\ lease'[d] = lease[d] /\ pc[d] = "calling"
        BY <1>1, <1>2, <2>2, <3>2
      <4>2. lease[d].source \in Source
        BY <4>1 DEF Live, TypeOK, Lease
      <4> QED BY <1>2, <4>1, <4>2, ReserveHealth DEF GovernanceInv, GenerationInv
    <3> QED BY <3>1, <3>2
  <2>3. ASSUME NEW t \in Source, NEW d \in current'[t]
        PROVE  pc'[d] # "idle" /\ (lease'[d] # NoLease => lease'[d].source = t)
    <3>1. CASE d = c
      <4>1. t = s
        BY <1>2, <1>3, <3>1
      <4> QED BY <1>2, <3>1, <4>1, ReserveShape
    <3>2. CASE d # c
      <4>1. d \in Call \ {c} /\ d \in current[t]
        BY <1>2, <1>3, <3>2
      <4>2. pc[d] # "idle" /\ (lease[d] # NoLease => lease[d].source = t)
        BY <4>1 DEF GovernanceInv, GenerationInv
      <4>3. lease'[d] # NoLease => lease[d] # NoLease /\ lease'[d] = lease[d]
        BY <4>1, ReserveShape DEF Live
      <4>4. pc'[d] = pc[d]
        BY <1>2, <4>1
      <4> QED BY <4>2, <4>3, <4>4
    <3> QED BY <3>1, <3>2
  <2> QED BY <2>1, <2>2, <2>3 DEF GenerationInv
<1>7. RecoveryInv'
  <2> SUFFICES ASSUME NEW t \in Source
               PROVE  /\ health'[t].status = "open"
                            => current'[t] = {} /\ health'[t].successes = 0
                      /\ health'[t].status = "half-open" =>
                           /\ \A d \in current'[t] : lease'[d] # NoLease => lease'[d].probe
                           /\ health'[t].successes <= earned'[t]
    BY DEF RecoveryInv
  <2>1. \A d \in current[t] : lease'[d] # NoLease => lease[d] # NoLease /\ lease'[d] = lease[d]
    BY <1>3, ReserveShape DEF Live
  <2>2. CASE t # s
    BY <1>2, <2>1, <2>2, ReserveHealth DEF GovernanceInv, RecoveryInv
  <2>3. CASE t = s
    <3>1. health'[s].status # "open"
      BY ReserveHealth
    <3>2. ASSUME health'[s].status = "half-open"
          PROVE  /\ \A d \in current'[s] : lease'[d] # NoLease => lease'[d].probe
                 /\ health'[s].successes <= earned'[s]
      <4>1. health[s].status \in {"open", "half-open"}
        BY <3>2, ReserveHealth
      <4>2. lease'[c].probe
        BY <4>1, ReserveShape DEF Tests
      <4>3. CASE health[s].status = "open"
        <5>1. current[s] = {} /\ health[s].successes = 0
          BY <4>3 DEF GovernanceInv, RecoveryInv
        <5>2. 0 <= earned[s]
          BY DEF TypeOK
        <5> QED BY <1>2, <4>2, <5>1, <5>2, ReserveHealth
      <4>4. CASE health[s].status = "half-open"
        BY <1>2, <2>1, <2>3, <4>2, <4>4, ReserveHealth DEF GovernanceInv, RecoveryInv
      <4> QED BY <4>1, <4>3, <4>4
    <3> QED BY <2>3, <3>1, <3>2
  <2> QED BY <2>2, <2>3
<1> QED BY <1>4, <1>5, <1>6, <1>7 DEF GovernanceInv

-----------------------------------------------------------------------------
(* Reports that count.                                                     *)

\* A report that counts is one of a call granted since the circuit opened; it
\* ends the probe if there is one, and touches no other circuit.
LEMMA CountedReport ==
    ASSUME TypeOK, GovernanceInv, NEW c \in Call,
           ReportSuccess(c) \/ ReportFailure(c)
    PROVE  /\ lease[c] \in Lease /\ Live(c) /\ ~lease[c].recorded
           /\ lease[c].source \in Source
           /\ health[lease[c].source] \in Health
           /\ health[lease[c].source].status # "open"
           /\ c \in current[lease[c].source]
           /\ \A d \in Call : pc'[d] = IF d = c THEN "reported" ELSE pc[d]
           /\ \A d \in Call : Follows(d)
           /\ \A d \in Call \ {c} : lease'[d] = lease[d]
           /\ \A t \in Source \ {lease[c].source} : health'[t] = health[t]
           /\ \A d \in Call : Probing(d)' => Probing(d) /\ lease[d].source # lease[c].source
           /\ SlotInv'
<1> DEFINE s == lease[c].source
<1>1. /\ pc[c] = "calling" /\ Counts(c) /\ Recorded(c)
      /\ pc' = [pc EXCEPT ![c] = "reported"]
      /\ active' = active
  BY DEF ReportSuccess, ReportFailure
<1>2. Live(c) /\ ~lease[c].recorded /\ lease[c].generation = health[s].generation
  BY <1>1 DEF Counts
<1>3. lease[c] \in Lease /\ s \in Source /\ health[s] \in Health
  BY <1>2 DEF Live, TypeOK, Lease
<1>4. health[s].status # "open" /\ (health[s].status = "half-open" => lease[c].probe)
  BY <1>1 DEF Counts
<1>5. c \in current[s]
  BY <1>1, <1>2 DEF GovernanceInv, GenerationInv
<1>6. \A d \in Call : pc'[d] = IF d = c THEN "reported" ELSE pc[d]
  BY <1>1 DEF TypeOK
<1>7. /\ \A d \in Call : Follows(d)
      /\ \A d \in Call \ {c} : lease'[d] = lease[d]
      /\ lease'[c].recorded
  BY <1>1, <1>2, RecordedShape
<1>8. \A t \in Source \ {s} : health'[t] = health[t]
  BY <1>3 DEF ReportSuccess, ReportFailure, TypeOK
<1>9. ASSUME NEW d \in Call, Probing(d)'
      PROVE  Probing(d) /\ lease[d].source # s
  <2>1. Probing(d) /\ d # c
    BY <1>7, <1>9, ProbingFollows DEF Probing
  <2>2. ASSUME lease[d].source = s PROVE FALSE
    <3>1. health[s].status = "half-open"
      BY <2>1, <2>2 DEF GovernanceInv, ProbeInv
    <3>2. Probing(c)
      BY <1>2, <1>4, <3>1 DEF Probing
    <3> QED BY <2>1, <2>2, <3>2 DEF GovernanceInv, ProbeInv
  <2> QED BY <2>1, <2>2
<1>10. SlotInv'
  BY <1>1, RecordedShape, SameSlots DEF GovernanceInv, SlotInv
<1> QED BY <1>2, <1>3, <1>4, <1>5, <1>6, <1>7, <1>8, <1>9, <1>10

\* The probes of the other sources stay apart.
LEMMA CountedProbes ==
    ASSUME TypeOK, GovernanceInv, NEW c \in Call,
           ReportSuccess(c) \/ ReportFailure(c)
    PROVE  ProbeInv'
<1> SUFFICES ASSUME NEW d \in Call, Probing(d)'
             PROVE  /\ health'[lease'[d].source].status = "half-open"
                    /\ lease'[d].generation = health'[lease'[d].source].generation
                    /\ \A e \in Call :
                         Probing(e)' /\ lease'[e].source = lease'[d].source => e = d
  BY DEF ProbeInv
<1>1. /\ Probing(d) /\ lease[d].source # lease[c].source
      /\ lease'[d].source = lease[d].source
      /\ lease'[d].generation = lease[d].generation
  BY CountedReport, ProbingFollows
<1>2. lease[d].source \in Source
  BY <1>1 DEF Probing, Live, TypeOK, Lease
<1>3. ASSUME NEW e \in Call, Probing(e)', lease'[e].source = lease'[d].source
      PROVE  e = d
  <2>1. Probing(e) /\ lease'[e].source = lease[e].source
    BY <1>3, CountedReport, ProbingFollows
  <2> QED BY <1>1, <1>3, <2>1 DEF GovernanceInv, ProbeInv
<1>4. health'[lease[d].source] = health[lease[d].source]
  BY <1>1, <1>2, CountedReport
<1> QED BY <1>1, <1>3, <1>4 DEF GovernanceInv, ProbeInv

LEMMA SuccessStep ==
    ASSUME TypeOK, GovernanceInv, NEW c \in Call, ReportSuccess(c)
    PROVE  GovernanceInv'
<1> DEFINE s == lease[c].source
<1>1. /\ s \in Source /\ health[s] \in Health /\ c \in current[s]
      /\ \A d \in Call : Follows(d)
      /\ \A d \in Call : pc'[d] = IF d = c THEN "reported" ELSE pc[d]
      /\ \A d \in Call \ {c} : lease'[d] = lease[d]
      /\ \A t \in Source \ {s} : health'[t] = health[t]
      /\ health[s].status # "open"
  BY CountedReport
<1>2. /\ health'[s] = AfterSuccess(health[s])
      /\ current' = current
      /\ earned'[s] = AtMost(earned[s] + 1, Recovery)
      /\ \A t \in Source \ {s} : earned'[t] = earned[t]
  BY <1>1 DEF ReportSuccess, TypeOK, historyVars, usageVars
<1>3. /\ health'[s].generation = health[s].generation
      /\ health'[s].status # "open"
      /\ health'[s].status = "half-open" => health[s].status = "half-open"
      /\ health'[s].successes = AtMost(health[s].successes + 1, Recovery)
  BY <1>1, <1>2 DEF AfterSuccess
<1>4. GenerationInv'
  <2>1. ASSUME NEW d \in Call, lease'[d] # NoLease
        PROVE  lease'[d].generation <= health'[lease'[d].source].generation
    <3>1. /\ lease[d] # NoLease /\ lease'[d].source = lease[d].source
          /\ lease'[d].generation = lease[d].generation
      BY <1>1, <2>1 DEF Follows
    <3>2. lease[d].source \in Source
      BY <3>1 DEF TypeOK, Lease
    <3> QED BY <1>1, <1>3, <3>1, <3>2 DEF GovernanceInv, GenerationInv
  <2>2. ASSUME NEW d \in Call, pc'[d] = "calling", Live(d)'
        PROVE  /\ ~lease'[d].recorded
               /\ lease'[d].generation = health'[lease'[d].source].generation
                    => d \in current'[lease'[d].source]
    <3>1. d # c /\ pc[d] = "calling" /\ lease'[d] = lease[d] /\ Live(d)
      BY <1>1, <2>2 DEF Live
    <3>2. lease[d].source \in Source
      BY <3>1 DEF Live, TypeOK, Lease
    <3> QED BY <1>1, <1>2, <1>3, <3>1, <3>2 DEF GovernanceInv, GenerationInv
  <2>3. ASSUME NEW t \in Source, NEW d \in current'[t]
        PROVE  pc'[d] # "idle" /\ (lease'[d] # NoLease => lease'[d].source = t)
    <3>1. d \in Call /\ d \in current[t]
      BY <1>2 DEF TypeOK
    <3> QED BY <1>1, <3>1 DEF GovernanceInv, GenerationInv, Follows
  <2> QED BY <2>1, <2>2, <2>3 DEF GenerationInv
<1>5. RecoveryInv'
  <2> SUFFICES ASSUME NEW t \in Source
               PROVE  /\ health'[t].status = "open"
                            => current'[t] = {} /\ health'[t].successes = 0
                      /\ health'[t].status = "half-open" =>
                           /\ \A d \in current'[t] : lease'[d] # NoLease => lease'[d].probe
                           /\ health'[t].successes <= earned'[t]
    BY DEF RecoveryInv
  <2>1. \A d \in current[t] : /\ d \in Call
                              /\ lease'[d] # NoLease => lease[d] # NoLease
                              /\ lease'[d] # NoLease => lease'[d].probe = lease[d].probe
    BY <1>1 DEF TypeOK, Follows
  <2>2. CASE t # s
    BY <1>1, <1>2, <2>1, <2>2 DEF GovernanceInv, RecoveryInv
  <2>3. CASE t = s
    <3>1. ASSUME health[s].status = "half-open"
          PROVE  health'[s].successes <= earned'[s]
      <4>1. health[s].successes <= earned[s]
        BY <1>1, <3>1 DEF GovernanceInv, RecoveryInv
      <4>2. health[s].successes \in Nat /\ earned[s] \in Nat /\ Recovery \in Nat
        BY <1>1, GovernanceAssumption DEF TypeOK, Health
      <4> QED BY <1>2, <1>3, <4>1, <4>2 DEF AtMost
    <3> QED BY <1>1, <1>2, <1>3, <2>1, <2>3, <3>1 DEF GovernanceInv, RecoveryInv
  <2> QED BY <2>2, <2>3
<1> QED BY <1>4, <1>5, CountedReport, CountedProbes DEF GovernanceInv

\* A failure that leaves the circuit closed, or opens it and forgets its calls.
LEMMA FailureStep ==
    ASSUME TypeOK, GovernanceInv, NEW c \in Call, ReportFailure(c)
    PROVE  GovernanceInv'
<1> DEFINE s == lease[c].source
<1>1. /\ s \in Source /\ health[s] \in Health
      /\ \A d \in Call : Follows(d)
      /\ \A d \in Call : pc'[d] = IF d = c THEN "reported" ELSE pc[d]
      /\ \A d \in Call \ {c} : lease'[d] = lease[d]
      /\ \A t \in Source \ {s} : health'[t] = health[t]
      /\ health[s].generation \in Nat
  BY CountedReport DEF Health
<1>2. \/ /\ health'[s].status = "degraded"
         /\ health'[s].generation = health[s].generation
         /\ current' = current /\ earned' = earned
      \/ /\ health'[s].status = "open" /\ health'[s].successes = 0
         /\ health'[s].generation = health[s].generation + 1
         /\ current'[s] = {}
         /\ \A t \in Source \ {s} : current'[t] = current[t] /\ earned'[t] = earned[t]
  BY <1>1 DEF ReportFailure, Degraded, Opened, TypeOK, historyVars
<1>3. \A t \in Source : current'[t] \subseteq current[t]
  BY <1>1, <1>2
<1>4. GenerationInv'
  <2>1. ASSUME NEW d \in Call, lease'[d] # NoLease
        PROVE  /\ lease[d] # NoLease /\ lease[d].source \in Source
               /\ lease'[d].source = lease[d].source
               /\ lease'[d].generation = lease[d].generation
               /\ lease[d].generation \in Nat
               /\ lease[d].generation <= health[lease[d].source].generation
    <3>1. /\ lease[d] # NoLease /\ lease'[d].source = lease[d].source
          /\ lease'[d].generation = lease[d].generation
      BY <1>1, <2>1 DEF Follows
    <3>2. lease[d].source \in Source /\ lease[d].generation \in Nat
      BY <3>1 DEF TypeOK, Lease
    <3> QED BY <3>1, <3>2 DEF GovernanceInv, GenerationInv
  <2>2. ASSUME NEW d \in Call, lease'[d] # NoLease
        PROVE  lease'[d].generation <= health'[lease'[d].source].generation
    <3>1. CASE lease[d].source = s
      BY <1>1, <1>2, <2>1, <2>2, <3>1
    <3>2. CASE lease[d].source # s
      BY <1>1, <2>1, <2>2, <3>2
    <3> QED BY <3>1, <3>2
  <2>3. ASSUME NEW d \in Call, pc'[d] = "calling", Live(d)'
        PROVE  /\ ~lease'[d].recorded
               /\ lease'[d].generation = health'[lease'[d].source].generation
                    => d \in current'[lease'[d].source]
    <3>1. d # c /\ pc[d] = "calling" /\ lease'[d] = lease[d] /\ Live(d)
      BY <1>1, <2>3 DEF Live
    <3>2. lease'[d] # NoLease
      BY <2>3 DEF Live
    <3>3. /\ ~lease[d].recorded
          /\ lease[d].generation = health[lease[d].source].generation
               => d \in current[lease[d].source]
      BY <3>1 DEF GovernanceInv, GenerationInv
    <3>4. CASE lease[d].source = s
      BY <1>1, <1>2, <2>1, <3>1, <3>2, <3>3, <3>4
    <3>5. CASE lease[d].source # s
      BY <1>1, <1>2, <2>1, <3>1, <3>2, <3>3, <3>5
    <3> QED BY <3>4, <3>5
  <2>4. ASSUME NEW t \in Source, NEW d \in current'[t]
        PROVE  pc'[d] # "idle" /\ (lease'[d] # NoLease => lease'[d].source = t)
    <3>1. d \in Call /\ d \in current[t]
      BY <1>3 DEF TypeOK
    <3> QED BY <1>1, <3>1 DEF GovernanceInv, GenerationInv, Follows
  <2> QED BY <2>2, <2>3, <2>4 DEF GenerationInv
<1>5. RecoveryInv'
  <2> SUFFICES ASSUME NEW t \in Source
               PROVE  /\ health'[t].status = "open"
                            => current'[t] = {} /\ health'[t].successes = 0
                      /\ health'[t].status = "half-open" =>
                           /\ \A d \in current'[t] : lease'[d] # NoLease => lease'[d].probe
                           /\ health'[t].successes <= earned'[t]
    BY DEF RecoveryInv
  <2>1. CASE t = s
    BY <1>2, <2>1
  <2>2. CASE t # s
    <3>1. health'[t] = health[t] /\ current'[t] = current[t] /\ earned'[t] = earned[t]
      BY <1>1, <1>2, <2>2
    <3>2. \A d \in current[t] : lease'[d] # NoLease =>
            lease[d] # NoLease /\ lease'[d].probe = lease[d].probe
      BY <1>1 DEF TypeOK, Follows
    <3> QED BY <3>1, <3>2 DEF GovernanceInv, RecoveryInv
  <2> QED BY <2>1, <2>2
<1> QED BY <1>4, <1>5, CountedReport, CountedProbes DEF GovernanceInv

-----------------------------------------------------------------------------
(* The theorems.                                                           *)

LEMMA InvInit == Init => GovernanceInv
<1> SUFFICES ASSUME Init PROVE GovernanceInv
  OBVIOUS
<1>1. SlotInv
  <2>1. {c \in Call : lease[c] # NoLease} = {}
    BY DEF Init
  <2> QED BY <2>1, FS_EmptySet DEF SlotInv, Slots, Init
<1>2. ProbeInv
  BY DEF ProbeInv, Probing, Live, Init
<1>3. GenerationInv
  BY DEF GenerationInv, Init
<1>4. RecoveryInv
  BY DEF RecoveryInv, Init, Healthy
<1> QED BY <1>1, <1>2, <1>3, <1>4 DEF GovernanceInv

LEMMA InvStep == TypeOK /\ GovernanceInv /\ [Next]_vars => GovernanceInv'
<1> SUFFICES ASSUME TypeOK, GovernanceInv, [Next]_vars
             PROVE  GovernanceInv'
  OBVIOUS
<1>1. CASE \E c \in Call : \E s \in Source : Reserve(c, s)
  BY <1>1, ReserveStep
<1>2. CASE \E c \in Call : ReportSuccess(c)
  BY <1>2, SuccessStep
<1>3. CASE \E c \in Call : ReportFailure(c)
  BY <1>3, FailureStep
<1>4. CASE Quiet
  BY <1>4, QuietStep
<1> QED BY <1>1, <1>2, <1>3, <1>4 DEF Next, Quiet

\* Every variable keeps its type: an outcome leaves a circuit within its
\* thresholds, and a lease is never given more than LeaseTicks.
THEOREM GovernanceTyped == Spec => []TypeOK
<1>1. Init => TypeOK
  BY TypeInit
<1>2. TypeOK /\ [Next]_vars => TypeOK'
  BY TypeStep
<1> QED BY <1>1, <1>2, PTL DEF Spec

\* What the store and the calls keep true between their transactions: the
\* count of slots is that of the rows, a test has one probe, and the
\* generation of a row says whether its circuit has opened since.
THEOREM GovernanceCorrect == Spec => []GovernanceInv
<1>1. Init => TypeOK /\ GovernanceInv
  BY TypeInit, InvInit
<1>2. TypeOK /\ GovernanceInv /\ [Next]_vars => (TypeOK /\ GovernanceInv)'
  BY TypeStep, InvStep
<1> QED BY <1>1, <1>2, PTL DEF Spec

\* While a circuit is half-open at most one call with a slot is in the
\* provider: a call that runs has not reported, and one granted since the
\* circuit opened is a probe.
THEOREM ProbesExclude == Spec => []OneProbe
<1>1. TypeOK /\ GovernanceInv => OneProbe
  <2> SUFFICES ASSUME TypeOK, GovernanceInv, NEW s \in Source,
                      health[s].status = "half-open",
                      NEW c \in current[s], NEW d \in current[s],
                      pc[c] = "calling", Live(c), pc[d] = "calling", Live(d)
               PROVE  c = d
    BY DEF OneProbe
  <2>1. c \in Call /\ d \in Call
    BY DEF TypeOK
  <2>2. lease[c] # NoLease /\ lease[d] # NoLease
    BY DEF Live
  <2>3. lease[c].probe /\ lease[d].probe
    BY <2>2 DEF GovernanceInv, RecoveryInv
  <2>4. ~lease[c].recorded /\ ~lease[d].recorded
    BY <2>1 DEF GovernanceInv, GenerationInv
  <2>5. lease[c].source = s /\ lease[d].source = s
    BY <2>2 DEF GovernanceInv, GenerationInv
  <2>6. Probing(c) /\ Probing(d)
    BY <2>3, <2>4 DEF Probing
  <2> QED BY <2>1, <2>5, <2>6 DEF GovernanceInv, ProbeInv
<1> QED BY <1>1, GovernanceTyped, GovernanceCorrect, PTL

\* A call that was granted before its circuit last opened, or whose lease has
\* run out, changes the health of no source.
THEOREM OldCallsPowerless == Spec => OldCallsArePowerless
<1>1. TypeOK /\ GovernanceInv /\ [Next]_vars =>
        [\A c \in Call :
           /\ pc[c] = "calling" /\ pc'[c] = "reported"
           /\ Live(c) => c \notin current[lease[c].source]
           => health' = health]_vars
  <2> SUFFICES ASSUME TypeOK, GovernanceInv, Next, NEW c \in Call,
                      pc[c] = "calling", pc'[c] = "reported",
                      Live(c) => c \notin current[lease[c].source]
               PROVE  health' = health
    OBVIOUS
  <2>1. CASE \E d \in Call : ReportSuccess(d) \/ ReportFailure(d)
    <3>1. PICK d \in Call : ReportSuccess(d) \/ ReportFailure(d)
      BY <2>1
    <3>2. /\ Live(d) /\ d \in current[lease[d].source]
          /\ pc'[c] = IF c = d THEN "reported" ELSE pc[c]
      BY <3>1, CountedReport
    <3> QED BY <3>2
  <2>2. CASE \E d \in Call : ReportIgnored(d) \/ ReportFails(d)
    BY <2>2 DEF ReportIgnored, ReportFails
  <2>3. CASE \E d \in Call : \E s \in Source : Reserve(d, s)
    BY <2>3 DEF Reserve, TypeOK
  <2>4. CASE \E d \in Call : Release(d) \/ ReleaseFails(d) \/ Crash(d)
    BY <2>4 DEF Release, ReleaseFails, Crash
  <2>5. CASE \E d \in Call : Renew(d)
    BY <2>5 DEF Renew
  <2>6. CASE \/ Snapshot \/ Tick
             \/ \E p \in Policies : UpdatePolicy(p)
             \/ \E w \in Window : NewWindow(w)
    BY <2>6 DEF Snapshot, Tick, UpdatePolicy, NewWindow
  <2> QED BY <2>1, <2>2, <2>3, <2>4, <2>5, <2>6 DEF Next
<1> QED BY <1>1, GovernanceTyped, GovernanceCorrect, PTL DEF Spec, OldCallsArePowerless

\* A circuit that was open closes only on Recovery successes of calls that
\* were granted after it opened.
THEOREM RecoveriesEarned == Spec => RecoveryIsEarned
<1>1. TypeOK /\ GovernanceInv /\ [Next]_vars =>
        [\A s \in Source :
           health[s].status = "half-open" /\ health'[s].status = "healthy"
           => earned'[s] >= Recovery]_vars
  <2> SUFFICES ASSUME TypeOK, GovernanceInv, Next, NEW s \in Source,
                      health[s].status = "half-open", health'[s].status = "healthy"
               PROVE  earned'[s] >= Recovery
    OBVIOUS
  <2>1. CASE \E c \in Call : ReportSuccess(c)
    <3>1. PICK c \in Call : ReportSuccess(c)
      BY <2>1
    <3>2. /\ lease[c].source \in Source /\ c \in current[lease[c].source]
          /\ \A t \in Source \ {lease[c].source} : health'[t] = health[t]
      BY <3>1, CountedReport
    <3>3. lease[c].source = s
      BY <3>2
    <3>4. /\ health'[s] = AfterSuccess(health[s])
          /\ earned'[s] = AtMost(earned[s] + 1, Recovery)
      BY <3>1, <3>2, <3>3 DEF ReportSuccess, TypeOK
    <3>5. health[s].successes + 1 >= Recovery
      BY <3>4 DEF AfterSuccess, Closes
    <3>6. health[s].successes <= earned[s]
      BY DEF GovernanceInv, RecoveryInv
    <3>7. health[s].successes \in Nat /\ earned[s] \in Nat /\ Recovery \in Nat
      BY GovernanceAssumption DEF TypeOK, Health
    <3> QED BY <3>4, <3>5, <3>6, <3>7 DEF AtMost
  <2>2. CASE \E c \in Call : ReportFailure(c)
    <3>1. PICK c \in Call : ReportFailure(c)
      BY <2>2
    <3>2. /\ lease[c].source \in Source
          /\ \A t \in Source \ {lease[c].source} : health'[t] = health[t]
      BY <3>1, CountedReport
    <3>3. lease[c].source = s
      BY <3>2
    <3>4. health'[s].status \in {"degraded", "open"}
      BY <3>1, <3>3 DEF ReportFailure, TypeOK, Degraded, Opened
    <3> QED BY <3>4
  <2>3. CASE \E c \in Call : \E t \in Source : Reserve(c, t)
    <3>1. PICK c \in Call, t \in Source : Reserve(c, t)
      BY <2>3
    <3>2. health'[s].status # "healthy"
      BY <3>1, ReserveHealth
    <3> QED BY <3>2
  <2>4. CASE Quiet
    <3>1. health'[s].status = health[s].status
      BY <2>4, QuietRows DEF SameCircuits
    <3> QED BY <3>1
  <2> QED BY <2>1, <2>2, <2>3, <2>4 DEF Next, Quiet
<1> QED BY <1>1, GovernanceTyped, GovernanceCorrect, PTL DEF Spec, RecoveryIsEarned
=============================================================================
