--------------------------- MODULE IncidentProofs ---------------------------
(***************************************************************************)
(* Proofs about incidents, for any number of bindings, workers, operators  *)
(* and readings: that they open and resolve on two readings in a row, that *)
(* a binding has one at a time, and that the timeline of each tells what   *)
(* its row says.                                                           *)
(***************************************************************************)
EXTENDS IncidentLifecycle, FiniteSetTheorems, SequenceTheorems, TLAPS

----------------------------------------------------------------------------
(* Timelines.                                                              *)

\* How often a type is on a timeline is a number, and one more entry counts once.
LEMMA CountOfAppend ==
    ASSUME NEW t \in Seq(EventTypes), NEW x \in EventTypes, NEW type
    PROVE  /\ Count(t, type) \in Nat
           /\ Count(Append(t, x), type) = IF x = type THEN Count(t, type) + 1
                                          ELSE Count(t, type)
<1> DEFINE n == Len(t)
           K == {k \in 1..n : t[k] = type}
           L == {k \in 1..Len(Append(t, x)) : Append(t, x)[k] = type}
<1>1. /\ n \in Nat /\ Len(Append(t, x)) = n + 1 /\ Append(t, x)[n + 1] = x
      /\ \A k \in 1..n : Append(t, x)[k] = t[k]
  BY AppendProperties
<1>2. IsFiniteSet(1..n)
  BY <1>1, FS_Interval
<1>3. IsFiniteSet(K)
  BY <1>2, FS_Subset
<1>4. L = IF x = type THEN K \cup {n + 1} ELSE K
  BY <1>1
<1>5. n + 1 \notin K
  BY <1>1
<1>6. Cardinality(K) \in Nat
  BY <1>3, FS_CardinalityType
<1>7. Cardinality(K \cup {n + 1}) = Cardinality(K) + 1
  BY <1>3, <1>5, FS_AddElement
<1>8. Count(t, type) = Cardinality(K) /\ Count(Append(t, x), type) = Cardinality(L)
  BY DEF Count
<1> HIDE DEF K, L
<1> QED
  BY <1>4, <1>6, <1>7, <1>8

\* An empty timeline has none of any type.
LEMMA CountOfEmpty == \A type : Count(<<>>, type) = 0
<1> SUFFICES ASSUME NEW type
             PROVE  Count(<<>>, type) = 0
  OBVIOUS
<1>1. {k \in 1..Len(<<>>) : <<>>[k] = type} = {}
  OBVIOUS
<1> QED
  BY <1>1, FS_EmptySet DEF Count

\* Before its entry k the timeline has a recovery under way.
Started(t, k) ==
    \E j \in 1..(k - 1) :
       /\ t[j] = "recovery_started"
       /\ \A m \in (j + 1)..(k - 1) : t[m] # "recovery_interrupted"

\* One more entry changes nothing before it, starts a recovery when it says so,
\* and ends one only when it says that.
LEMMA StartedOfAppend ==
    ASSUME NEW t \in Seq(EventTypes), NEW x \in EventTypes
    PROVE  LET n == Len(t)  u == Append(t, x) IN
           /\ \A k \in 1..(n + 1) : Started(u, k) <=> Started(t, k)
           /\ x = "recovery_started" => Started(u, n + 2)
           /\ Started(t, n + 1) /\ x # "recovery_interrupted" => Started(u, n + 2)
<1> DEFINE n == Len(t)
           u == Append(t, x)
<1>1. /\ n \in Nat /\ Len(u) = n + 1 /\ u[n + 1] = x
      /\ \A k \in 1..n : u[k] = t[k]
  BY AppendProperties
<1> HIDE DEF n, u
<1>2. ASSUME NEW k \in 1..(n + 1)
      PROVE  Started(u, k) <=> Started(t, k)
  <2>1. \A j \in 1..(k - 1) : u[j] = t[j]
    BY <1>1
  <2>2. \A j \in 1..(k - 1) : \A m \in (j + 1)..(k - 1) : u[m] = t[m]
    BY <1>1
  <2> QED
    BY <2>1, <2>2 DEF Started
<1>3. ASSUME x = "recovery_started"
      PROVE  Started(u, n + 2)
  <2>1. n + 1 \in 1..((n + 2) - 1) /\ u[n + 1] = "recovery_started"
    BY <1>1, <1>3
  <2>2. \A m \in ((n + 1) + 1)..((n + 2) - 1) : FALSE
    BY <1>1
  <2> QED
    BY <2>1, <2>2 DEF Started
<1>4. ASSUME Started(t, n + 1), x # "recovery_interrupted"
      PROVE  Started(u, n + 2)
  <2>1. PICK j \in 1..((n + 1) - 1) :
           /\ t[j] = "recovery_started"
           /\ \A m \in (j + 1)..((n + 1) - 1) : t[m] # "recovery_interrupted"
    BY <1>4 DEF Started
  <2>2. j \in 1..((n + 2) - 1) /\ u[j] = "recovery_started"
    BY <1>1, <2>1
  <2>3. ASSUME NEW m \in (j + 1)..((n + 2) - 1)
        PROVE  u[m] # "recovery_interrupted"
    <3>1. CASE m = n + 1
      BY <1>1, <1>4, <3>1
    <3>2. CASE m # n + 1
      <4>1. m \in (j + 1)..((n + 1) - 1) /\ m \in 1..n
        BY <1>1, <2>1, <3>2
      <4> QED
        BY <1>1, <2>1, <4>1
    <3> QED
      BY <3>1, <3>2
  <2> QED
    BY <2>2, <2>3 DEF Started
<1> QED
  BY <1>2, <1>3, <1>4 DEF n, u

(* The timeline t tells what an incident acknowledged by `by`, in state    *)
(* `state`, is.                                                            *)
Tells(t, by, state) ==
    /\ Len(t) >= 1 /\ t[1] = "opened" /\ Count(t, "opened") = 1
    /\ Count(t, "acknowledged") = (IF by = None THEN 0 ELSE 1)
    /\ Count(t, "auto_resolved") = (IF state = "resolved" THEN 1 ELSE 0)
    /\ state = "resolved" => t[Len(t)] = "auto_resolved"
    /\ \A k \in 1..Len(t) :
          t[k] \in {"recovery_interrupted", "auto_resolved"} => Started(t, k)

\* The first entry of a timeline.
LEMMA TellsOpened == Tells(Append(<<>>, "opened"), None, "open")
<1> DEFINE t == Append(<<>>, "opened")
<1>1. <<>> \in Seq(EventTypes) /\ "opened" \in EventTypes /\ Len(<<>>) = 0
  BY DEF EventTypes
<1>2. Len(t) = 1 /\ t[1] = "opened"
  BY <1>1
<1>3. \A type : Count(t, type) = IF "opened" = type THEN Count(<<>>, type) + 1
                                 ELSE Count(<<>>, type)
  BY <1>1, CountOfAppend
<1>4. /\ Count(t, "opened") = 1 /\ Count(t, "acknowledged") = 0
      /\ Count(t, "auto_resolved") = 0
  BY <1>3, CountOfEmpty
<1> HIDE DEF t
<1> QED
  BY <1>2, <1>4 DEF Tells, t

\* A further entry, of an incident that is not resolved.
LEMMA TellsFurther ==
    ASSUME NEW t \in Seq(EventTypes), NEW x \in EventTypes \ {"opened"},
           NEW by, NEW state, NEW by2, NEW state2,
           Tells(t, by, state), state # "resolved",
           x = "acknowledged" => by = None /\ by2 # None,
           x # "acknowledged" => by2 = by,
           x = "auto_resolved" <=> state2 = "resolved",
           x \in {"recovery_interrupted", "auto_resolved"} => Started(t, Len(t) + 1)
    PROVE  Tells(Append(t, x), by2, state2)
<1> DEFINE n == Len(t)
           u == Append(t, x)
<1>1. /\ n \in Nat /\ Len(u) = n + 1 /\ u[n + 1] = x /\ x \in EventTypes
      /\ \A k \in 1..n : u[k] = t[k]
  BY AppendProperties
<1>2. n >= 1 /\ u[1] = "opened"
  BY <1>1 DEF Tells
<1>3. /\ Count(u, "opened") = 1
      /\ Count(u, "acknowledged") = (IF by2 = None THEN 0 ELSE 1)
      /\ Count(u, "auto_resolved") = (IF state2 = "resolved" THEN 1 ELSE 0)
  BY CountOfAppend DEF Tells
<1>4. \A k \in 1..(n + 1) : Started(u, k) <=> Started(t, k)
  BY StartedOfAppend
<1>5. ASSUME NEW k \in 1..Len(u), u[k] \in {"recovery_interrupted", "auto_resolved"}
      PROVE  Started(u, k)
  <2>1. k \in 1..(n + 1)
    BY <1>1
  <2>2. CASE k = n + 1
    BY <1>1, <1>4, <1>5, <2>1, <2>2
  <2>3. CASE k # n + 1
    <3>1. k \in 1..n /\ u[k] = t[k]
      BY <1>1, <2>1, <2>3
    <3> QED
      BY <1>4, <1>5, <2>1, <3>1 DEF Tells
  <2> QED
    BY <2>2, <2>3
<1>6. state2 = "resolved" => u[Len(u)] = "auto_resolved"
  BY <1>1
<1>7. Len(u) >= 1
  BY <1>1
<1> HIDE DEF n, u
<1> QED
  BY <1>2, <1>3, <1>5, <1>6, <1>7 DEF Tells, u

----------------------------------------------------------------------------
(* The invariant.                                                          *)

Live(row) == row # None /\ row.state \in ActiveStates

(* The row of a binding's state summarises the newest verdict counted.     *)
Tallied(row, log) ==
    /\ Len(log) <= 2
    /\ row # None =>
          /\ Len(log) >= 1
          /\ row.binding_revision = log[Len(log)].revision
          /\ row.last_evaluation_id = EvaluationId(log[Len(log)])
          /\ row.consecutive_critical > 0 => OpensIncidents(log[Len(log)])
          /\ row.consecutive_healthy > 0 => ProvesRecovery(log[Len(log)])

(* An incident and its timeline.                                           *)
Recorded(row, t) ==
    /\ row = None => t = <<>>
    /\ row # None =>
          /\ Tells(t, row.acknowledged_by, row.state)
          /\ row.state = "open" => row.acknowledged_by = None

(* A recovery the state row counts is on the timeline of a live incident.  *)
Recovering(row, health, t) ==
    /\ Live(row) /\ health # None
    /\ health.consecutive_healthy > 0
    => Started(t, Len(t) + 1)

IncidentInv ==
    /\ LifecycleTypeOK
    /\ \A b \in Bindings : Tallied(health_state[b], counted[b])
    /\ \A i, j \in IncidentIds :
          /\ Live(incidents[i]) /\ Live(incidents[j])
          /\ incidents[i].binding = incidents[j].binding
          => i = j
    /\ \A i \in IncidentIds :
          /\ Recorded(incidents[i], events[i])
          /\ incidents[i] # None =>
                Recovering(incidents[i], health_state[incidents[i].binding],
                           events[i])

----------------------------------------------------------------------------
(* Verdicts.                                                               *)

\* A worker that holds a verdict holds one of some binding; one that reads
\* holds the context it loaded.
LEMMA WorkByStage ==
    ASSUME NEW c \in Work
    PROVE  /\ c.stage = "verdict" => c.evaluation \in Evaluation
           /\ c.stage = "due" => c.binding \in Bindings
           /\ c.stage = "reading" =>
                 /\ c.binding \in Bindings /\ c.revision \in Revisions
                 /\ c.usable \in BOOLEAN /\ c.now \in Moments
<1>1. CASE c = Idle
  BY <1>1 DEF Idle
<1>2. CASE c \in [stage : {"due"}, binding : Bindings]
  BY <1>2
<1>3. CASE c \in [stage : {"reading"}, binding : Bindings, revision : Revisions,
                  usable : BOOLEAN, now : Moments]
  BY <1>3
<1>4. CASE c \in [stage : {"verdict"}, evaluation : Evaluation]
  BY <1>4
<1> QED
  BY <1>1, <1>2, <1>3, <1>4 DEF Work

\* The log of verdicts keeps the last two.
LEMMA NextLog ==
    ASSUME NEW S, NEW log \in Seq(S), NEW e \in S, Len(log) <= 2
    PROVE  LET new == IF Len(log) = 2 THEN <<log[2], e>> ELSE Append(log, e) IN
           /\ new \in Seq(S) /\ Len(new) \in 1..2 /\ new[Len(new)] = e
           /\ Len(log) >= 1 => Len(new) = 2 /\ new[1] = log[Len(log)]
<1>1. CASE Len(log) = 2
  <2>1. log[2] \in S
    BY <1>1, ElementOfSeq
  <2> QED
    BY <1>1, <2>1
<1>2. CASE Len(log) # 2
  <2>1. /\ Append(log, e) \in Seq(S) /\ Len(Append(log, e)) = Len(log) + 1
        /\ Append(log, e)[Len(log) + 1] = e
        /\ \A k \in 1..Len(log) : Append(log, e)[k] = log[k]
        /\ Len(log) \in Nat
    BY AppendProperties, LenProperties
  <2> DEFINE n == Len(log)
  <2>2. n \in 0..1
    <3>1. n \in Nat /\ n <= 2 /\ n # 2
      BY <1>2, LenProperties
    <3> HIDE DEF n
    <3> QED
      BY <3>1
  <2> DEFINE u == Append(log, e)
  <2>3. /\ u \in Seq(S) /\ Len(u) = Len(log) + 1 /\ u[Len(log) + 1] = e
        /\ \A k \in 1..Len(log) : u[k] = log[k]
    BY <2>1
  <2> HIDE DEF u
  <2>4. Len(u) \in 1..2 /\ u[Len(u)] = e
    BY <2>2, <2>3
  <2>5. Len(log) >= 1 => Len(u) = 2 /\ u[1] = log[Len(log)]
    BY <2>2, <2>3
  <2> QED
    BY <1>2, <2>3, <2>4, <2>5 DEF u
<1> QED
  BY <1>1, <1>2

\* The streaks of a row that is there, and of one that is not.
LEMMA StreakType ==
    ASSUME LifecycleTypeOK, NEW e \in Evaluation
    PROVE  /\ PreviousStreak(e, "consecutive_critical") \in Nat
           /\ PreviousHealthy(e) \in Nat
           /\ PreviousStreak(e, "consecutive_critical") > 0 =>
                 /\ health_state[e.binding] # None
                 /\ health_state[e.binding].binding_revision = e.revision
                 /\ health_state[e.binding].consecutive_critical > 0
           /\ PreviousHealthy(e) > 0 =>
                 /\ health_state[e.binding] # None
                 /\ health_state[e.binding].binding_revision = e.revision
                 /\ health_state[e.binding].consecutive_healthy > 0
<1> DEFINE row == health_state[e.binding]
<1>1. e.binding \in Bindings
  BY DEF Evaluation
<1>2. row = None \/ row \in HealthState
  BY <1>1 DEF LifecycleTypeOK
<1>3. row \in HealthState =>
         row.consecutive_critical \in Nat /\ row.consecutive_healthy \in Nat
  BY DEF HealthState
<1>4. PreviousStreak(e, "consecutive_critical") =
         IF row = None THEN 0
         ELSE IF row.binding_revision # e.revision THEN 0
         ELSE row.consecutive_critical
  BY DEF PreviousStreak
<1>5. PreviousHealthy(e) =
         IF row = None THEN 0
         ELSE IF row.binding_revision # e.revision THEN 0
         ELSE row.consecutive_healthy
  BY DEF PreviousStreak, PreviousHealthy
<1> HIDE DEF row
<1>6. QED
  BY <1>2, <1>3, <1>4, <1>5 DEF row

\* Two in a row: a verdict that opens or resolves follows, in the log, another
\* reading of the same kind under the same revision.
LEMMA SecondInARow ==
    ASSUME LifecycleTypeOK, NEW e \in Evaluation, ~Duplicate(e),
           NEW log \in Seq(Evaluation), NEW new,
           Tallied(health_state[e.binding], log),
           Len(log) \in Nat,
           Len(log) >= 1 => Len(new) = 2 /\ new[1] = log[Len(log)],
           new[Len(new)] = e
    PROVE  /\ OpensNow(e) => TwoInARow(new, OpensIncidents)
           /\ Resolves(e) => TwoInARow(new, ProvesRecovery)
<1> DEFINE row == health_state[e.binding]
           last == log[Len(log)]
<1>1. ASSUME row # None, row.binding_revision = e.revision
      PROVE  /\ Len(new) = 2 /\ new[1] = last /\ new[2] = e
             /\ last.revision = e.revision /\ last.computed_at # e.computed_at
  <2>1. /\ Len(log) >= 1 /\ last.revision = e.revision
        /\ row.last_evaluation_id = <<last.revision, last.computed_at>>
    BY <1>1 DEF Tallied, EvaluationId
  <2>2. row.last_evaluation_id # <<e.revision, e.computed_at>>
    BY <1>1 DEF Duplicate, EvaluationId
  <2> QED
    BY <2>1, <2>2
<1>2. ASSUME OpensNow(e)
      PROVE  TwoInARow(new, OpensIncidents)
  <2>1. OpensIncidents(e) /\ PreviousStreak(e, "consecutive_critical") + 1 >= 2
    BY <1>2 DEF OpensNow, CriticalStreak, OPEN_THRESHOLD
  <2>2. PreviousStreak(e, "consecutive_critical") > 0
    BY <2>1, StreakType
  <2>3. /\ row # None /\ row.binding_revision = e.revision
        /\ row.consecutive_critical > 0
    BY <2>2, StreakType
  <2>4. OpensIncidents(last)
    BY <2>3 DEF Tallied
  <2> HIDE DEF row, last
  <2> QED
    BY <1>1, <2>1, <2>3, <2>4 DEF TwoInARow
<1>3. ASSUME Resolves(e)
      PROVE  TwoInARow(new, ProvesRecovery)
  <2>1. ProvesRecovery(e) /\ PreviousHealthy(e) + 1 >= 2
    BY <1>3 DEF Resolves, HealthyStreak, RESOLVE_THRESHOLD
  <2>2. PreviousHealthy(e) > 0
    BY <2>1, StreakType
  <2>3. /\ row # None /\ row.binding_revision = e.revision
        /\ row.consecutive_healthy > 0
    BY <2>2, StreakType
  <2>4. ProvesRecovery(last)
    BY <2>3 DEF Tallied
  <2> HIDE DEF row, last
  <2> QED
    BY <1>1, <2>1, <2>3, <2>4 DEF TwoInARow
<1> QED
  BY <1>2, <1>3

----------------------------------------------------------------------------
(* The incidents.                                                          *)

(* One incident gets row r and timeline t.                                 *)
OneMoves(i, r, t) ==
    /\ incidents' = [incidents EXCEPT ![i] = r]
    /\ events' = [events EXCEPT ![i] = t]

(* What the invariant says of incidents and timelines, after a step.       *)
Sound ==
    /\ incidents' \in [IncidentIds -> Incident \cup {None}]
    /\ events' \in [IncidentIds -> Seq(EventTypes)]
    /\ \A j, k \in IncidentIds :
          /\ Live(incidents'[j]) /\ Live(incidents'[k])
          /\ incidents'[j].binding = incidents'[k].binding
          => j = k
    /\ \A j \in IncidentIds :
          /\ Recorded(incidents'[j], events'[j])
          /\ incidents'[j] # None =>
                Recovering(incidents'[j],
                           health_state'[incidents'[j].binding], events'[j])

\* What the move of one incident must keep for the invariant of them all.
LEMMA IncidentMoves ==
    ASSUME IncidentInv, NEW i \in IncidentIds, NEW r \in Incident,
           NEW t \in Seq(EventTypes), OneMoves(i, r, t),
           Recorded(r, t), Recovering(r, health_state'[r.binding], t),
           \A j \in IncidentIds \ {i} :
              /\ Live(r) /\ Live(incidents[j]) => incidents[j].binding # r.binding
              /\ incidents[j] # None =>
                    Recovering(incidents[j], health_state'[incidents[j].binding],
                               events[j])
    PROVE  Sound
<1>1. /\ incidents \in [IncidentIds -> Incident \cup {None}]
      /\ events \in [IncidentIds -> Seq(EventTypes)]
  BY DEF IncidentInv, LifecycleTypeOK
<1>2. /\ incidents' \in [IncidentIds -> Incident \cup {None}]
      /\ events' \in [IncidentIds -> Seq(EventTypes)]
  BY <1>1 DEF OneMoves
<1>3. /\ incidents'[i] = r /\ events'[i] = t
      /\ \A j \in IncidentIds \ {i} :
            incidents'[j] = incidents[j] /\ events'[j] = events[j]
  BY <1>1 DEF OneMoves
<1>4. ASSUME NEW j \in IncidentIds, NEW k \in IncidentIds,
             Live(incidents'[j]), Live(incidents'[k]),
             incidents'[j].binding = incidents'[k].binding
      PROVE  j = k
  <2>1. CASE j # i /\ k # i
    BY <1>3, <1>4, <2>1 DEF IncidentInv
  <2>2. CASE j = i /\ k # i
    BY <1>3, <1>4, <2>2
  <2>3. CASE j # i /\ k = i
    BY <1>3, <1>4, <2>3
  <2> QED
    BY <2>1, <2>2, <2>3
<1>5. ASSUME NEW j \in IncidentIds
      PROVE  /\ Recorded(incidents'[j], events'[j])
             /\ incidents'[j] # None =>
                   Recovering(incidents'[j],
                              health_state'[incidents'[j].binding], events'[j])
  <2>1. CASE j = i
    BY <1>3, <2>1
  <2>2. CASE j # i
    BY <1>3, <2>2 DEF IncidentInv
  <2> QED
    BY <2>1, <2>2
<1> QED
  BY <1>2, <1>4, <1>5 DEF Sound

\* A row that changed is a row of the same binding.
LEMMA RowAcknowledged ==
    ASSUME NEW r \in Incident, NEW a \in Actors
    PROVE  LET q == [r EXCEPT !.state = "acknowledged", !.acknowledged_by = a,
                              !.version = @ + 1] IN
           /\ q \in Incident /\ q.binding = r.binding
           /\ q.state = "acknowledged" /\ q.acknowledged_by = a
<1> DEFINE q == [r EXCEPT !.state = "acknowledged", !.acknowledged_by = a,
                          !.version = @ + 1]
<1>1. r.version + 1 \in Nat
  BY DEF Incident
<1>2. q \in Incident
  BY <1>1 DEF Incident, ActiveStates
<1>3. /\ q.binding = r.binding
      /\ q.state = "acknowledged" /\ q.acknowledged_by = a
  BY DEF Incident
<1> QED
  BY <1>2, <1>3

LEMMA RowAssigned ==
    ASSUME NEW r \in Incident, NEW a \in Actors \cup {None}
    PROVE  LET q == [r EXCEPT !.assigned = a, !.version = @ + 1] IN
           /\ q \in Incident /\ q.binding = r.binding
           /\ q.state = r.state /\ q.acknowledged_by = r.acknowledged_by
<1> DEFINE q == [r EXCEPT !.assigned = a, !.version = @ + 1]
<1>1. r.version + 1 \in Nat
  BY DEF Incident
<1>2. q \in Incident
  BY <1>1 DEF Incident, ActiveStates
<1>3. /\ q.binding = r.binding
      /\ q.state = r.state /\ q.acknowledged_by = r.acknowledged_by
  BY DEF Incident
<1> QED
  BY <1>2, <1>3

LEMMA RowResolved ==
    ASSUME NEW r \in Incident
    PROVE  LET q == [r EXCEPT !.state = "resolved", !.version = @ + 1] IN
           /\ q \in Incident /\ q.binding = r.binding
           /\ q.state = "resolved" /\ q.acknowledged_by = r.acknowledged_by
<1> DEFINE q == [r EXCEPT !.state = "resolved", !.version = @ + 1]
<1>1. r.version + 1 \in Nat
  BY DEF Incident
<1>2. q \in Incident
  BY <1>1 DEF Incident, ActiveStates
<1>3. /\ q.binding = r.binding
      /\ q.state = "resolved" /\ q.acknowledged_by = r.acknowledged_by
  BY DEF Incident
<1> QED
  BY <1>2, <1>3

\* An operator's entry on a live incident.
LEMMA OperatorMoves ==
    ASSUME LifecycleAssumption, IncidentInv, NEW i \in IncidentIds, incidents[i] # None,
           incidents[i].state # "resolved",
           UNCHANGED stateVars,
           NEW r \in Incident, NEW x \in {"acknowledged", "assigned", "unassigned"},
           OneMoves(i, r, Append(events[i], x)),
           r.binding = incidents[i].binding, r.state # "resolved",
           r.state = "open" => r.acknowledged_by = None,
           x = "acknowledged" => /\ incidents[i].acknowledged_by = None
                                 /\ r.acknowledged_by # None,
           x # "acknowledged" => r.acknowledged_by = incidents[i].acknowledged_by
    PROVE  Sound
<1> DEFINE row == incidents[i]
           t == events[i]
           u == Append(t, x)
<1>1. /\ row \in Incident /\ t \in Seq(EventTypes) /\ x \in EventTypes \ {"opened"}
      /\ health_state' = health_state
  BY DEF IncidentInv, LifecycleTypeOK, stateVars, EventTypes
<1>2. row.state \in ActiveStates /\ Live(row) /\ r # None /\ row # None
  BY <1>1 DEF Incident, Live, LifecycleAssumption
<1>3. Tells(t, row.acknowledged_by, row.state)
  BY <1>2 DEF IncidentInv, Recorded
<1>4. u \in Seq(EventTypes)
  BY <1>1
<1>5. Recovering(row, health_state[row.binding], t)
  BY <1>2 DEF IncidentInv
<1> HIDE DEF row, t
<1>6. Tells(u, r.acknowledged_by, r.state)
  BY <1>1, <1>3, TellsFurther DEF row
<1>7. Recorded(r, u)
  BY <1>2, <1>6 DEF Recorded
<1>8. Started(t, Len(t) + 1) => Started(u, Len(t) + 2)
  BY <1>1, StartedOfAppend
<1>9. Len(u) + 1 = Len(t) + 2
  BY <1>1, AppendProperties
<1>10. r.binding = row.binding
  BY DEF row
<1> HIDE DEF u
<1>11. Recovering(r, health_state'[r.binding], u)
  BY <1>1, <1>2, <1>5, <1>8, <1>9, <1>10 DEF Recovering
<1>12. ASSUME NEW j \in IncidentIds \ {i}
       PROVE  /\ Live(r) /\ Live(incidents[j]) => incidents[j].binding # r.binding
              /\ incidents[j] # None =>
                    Recovering(incidents[j], health_state'[incidents[j].binding],
                               events[j])
  BY <1>1, <1>2, <1>10 DEF IncidentInv, row
<1>13. OneMoves(i, r, u)
  BY DEF u, t
<1> QED
  BY <1>4, <1>7, <1>11, <1>12, <1>13, IncidentMoves

\* What a processed verdict does to the state row, and what it logs.
LEMMA StateMoves ==
    ASSUME IncidentInv, NEW e \in Evaluation, ~Duplicate(e), UpdateState(e),
           counted' = [counted EXCEPT ![e.binding] =
                          IF Len(@) = 2 THEN <<@[2], e>> ELSE Append(@, e)]
    PROVE  /\ health_state' \in [Bindings -> HealthState \cup {None}]
           /\ transitions' \in [Bindings -> Transition \cup {None}]
           /\ counted' \in [Bindings -> Seq(Evaluation)]
           /\ \A b \in Bindings : Tallied(health_state'[b], counted'[b])
           /\ \A b \in Bindings \ {e.binding} : health_state'[b] = health_state[b]
           /\ health_state'[e.binding].consecutive_healthy = HealthyStreak(e)
           /\ OpensNow(e) => TwoInARow(counted'[e.binding], OpensIncidents)
           /\ Resolves(e) => TwoInARow(counted'[e.binding], ProvesRecovery)
<1> DEFINE b0 == e.binding
           log == counted[b0]
           new == IF Len(log) = 2 THEN <<log[2], e>> ELSE Append(log, e)
           row == [binding_revision |-> e.revision, current_status |-> e.status,
                   current_reasons |-> e.reasons,
                   last_evaluation_id |-> EvaluationId(e),
                   consecutive_critical |-> CriticalStreak(e),
                   consecutive_healthy |-> HealthyStreak(e)]
<1>1. LifecycleTypeOK /\ b0 \in Bindings
  BY DEF IncidentInv, Evaluation
<1>2. /\ log \in Seq(Evaluation) /\ Len(log) <= 2 /\ Len(log) \in Nat
      /\ Tallied(health_state[b0], log)
  BY <1>1 DEF IncidentInv, LifecycleTypeOK, Tallied
<1>3. /\ new \in Seq(Evaluation) /\ Len(new) \in 1..2 /\ new[Len(new)] = e
      /\ Len(log) >= 1 => Len(new) = 2 /\ new[1] = log[Len(log)]
  BY <1>2, NextLog
<1>4. /\ counted' \in [Bindings -> Seq(Evaluation)] /\ counted'[b0] = new
      /\ \A b \in Bindings \ {b0} : counted'[b] = counted[b]
  <2>1. counted' = [counted EXCEPT ![b0] = new]
    OBVIOUS
  <2>2. new \in Seq(Evaluation) /\ counted \in [Bindings -> Seq(Evaluation)]
    BY <1>1, <1>3 DEF LifecycleTypeOK
  <2> HIDE DEF new, log, b0
  <2> QED
    BY <1>1, <2>1, <2>2
<1>5. /\ CriticalStreak(e) \in Nat /\ HealthyStreak(e) \in Nat
      /\ CriticalStreak(e) > 0 => OpensIncidents(e)
      /\ HealthyStreak(e) > 0 => ProvesRecovery(e)
  BY <1>1, StreakType DEF CriticalStreak, HealthyStreak
<1>6. row \in HealthState
  BY <1>5 DEF HealthState, Evaluation, EvaluationId
<1>7. health_state' = [health_state EXCEPT ![b0] = row]
  BY DEF UpdateState
<1>8. /\ health_state' \in [Bindings -> HealthState \cup {None}]
      /\ health_state'[b0] = row
      /\ \A b \in Bindings \ {b0} : health_state'[b] = health_state[b]
  <2> HIDE DEF row
  <2> QED
    BY <1>1, <1>6, <1>7 DEF LifecycleTypeOK
<1>9. transitions' \in [Bindings -> Transition \cup {None}]
  <2> DEFINE old == health_state[b0]
             tr == [previous |-> IF old = None THEN None ELSE old.current_status,
                    new |-> e.status]
  <2>1. transitions' = transitions \/ transitions' = [transitions EXCEPT ![b0] = tr]
    BY DEF UpdateState
  <2>2. old \in HealthState \cup {None}
    BY <1>1 DEF LifecycleTypeOK
  <2>3. e.status \in Statuses /\ (old # None => old.current_status \in Statuses)
    BY <2>2 DEF Evaluation, HealthState
  <2>4. tr \in Transition
    BY <2>3 DEF Transition
  <2> HIDE DEF tr
  <2> QED
    BY <1>1, <2>1, <2>4 DEF LifecycleTypeOK
<1>10. Tallied(row, new)
  <2>1. /\ row.binding_revision = e.revision
        /\ row.last_evaluation_id = EvaluationId(e)
        /\ row.consecutive_critical = CriticalStreak(e)
        /\ row.consecutive_healthy = HealthyStreak(e)
    OBVIOUS
  <2> HIDE DEF row, new
  <2> QED
    BY <1>3, <1>5, <2>1 DEF Tallied
<1>11. ASSUME NEW b \in Bindings
       PROVE  Tallied(health_state'[b], counted'[b])
  <2> HIDE DEF row, new
  <2>1. CASE b = b0
    BY <1>4, <1>8, <1>10, <2>1
  <2>2. CASE b # b0
    BY <1>4, <1>8, <2>2 DEF IncidentInv
  <2> QED
    BY <2>1, <2>2
<1>12. /\ OpensNow(e) => TwoInARow(new, OpensIncidents)
       /\ Resolves(e) => TwoInARow(new, ProvesRecovery)
  <2> HIDE DEF log, new
  <2> QED
    BY <1>1, <1>2, <1>3, SecondInARow
<1>13. health_state'[b0].consecutive_healthy = HealthyStreak(e)
  BY <1>8
<1> HIDE DEF row, new
<1> QED
  BY <1>4, <1>8, <1>9, <1>11, <1>12, <1>13

\* The entries a verdict may add, and when.
LEMMA EntryOf ==
    ASSUME LifecycleTypeOK, NEW e \in Evaluation
    PROVE  LET x == RecoveryEvent(e) IN
           /\ x \in {"auto_resolved", "recovery_started", "recovery_interrupted",
                     "none"}
           /\ x = "auto_resolved" <=> Resolves(e)
           /\ x \in {"auto_resolved", "recovery_interrupted"} => PreviousHealthy(e) > 0
           /\ x = "recovery_interrupted" => HealthyStreak(e) = 0
           /\ x = "none" /\ HealthyStreak(e) > 0 => PreviousHealthy(e) > 0
<1>1. PreviousHealthy(e) \in Nat
  BY StreakType
<1>2. Resolves(e) => ProvesRecovery(e) /\ PreviousHealthy(e) > 0
  BY <1>1 DEF Resolves, HealthyStreak, RESOLVE_THRESHOLD
<1>3. ~ProvesRecovery(e) => HealthyStreak(e) = 0
  BY DEF HealthyStreak
<1>4. HealthyStreak(e) > 0 => ProvesRecovery(e)
  BY <1>3
<1>5. CASE Resolves(e)
  BY <1>2, <1>5 DEF RecoveryEvent
<1>6. CASE ~Resolves(e)
  BY <1>1, <1>3, <1>4, <1>6 DEF RecoveryEvent
<1> QED
  BY <1>5, <1>6

\* The lifecycle of a processed verdict, its state row written.
LEMMA VerdictMoves ==
    ASSUME LifecycleAssumption, IncidentInv, NEW e \in Evaluation, Lifecycle(e),
           \A b \in Bindings \ {e.binding} : health_state'[b] = health_state[b],
           health_state'[e.binding].consecutive_healthy = HealthyStreak(e)
    PROVE  Sound
<1> DEFINE b0 == e.binding
<1>1. LifecycleTypeOK /\ b0 \in Bindings
  BY DEF IncidentInv, Evaluation
<1>2. \A j \in IncidentIds :
         /\ incidents[j] = None \/ incidents[j] \in Incident
         /\ events[j] \in Seq(EventTypes)
         /\ incidents[j] # None =>
               /\ incidents[j].binding \in Bindings
               /\ Tells(events[j], incidents[j].acknowledged_by, incidents[j].state)
  BY <1>1 DEF LifecycleTypeOK, IncidentInv, Recorded, Incident
<1>3. \A j \in IncidentIds : j \in Active(b0) <=>
         Live(incidents[j]) /\ incidents[j].binding = b0
  BY DEF Active, Live
\* An incident of another binding, or resolved, has the recovery it had.
<1>4. ASSUME NEW j \in IncidentIds, j \notin Active(b0), incidents[j] # None
      PROVE  Recovering(incidents[j], health_state'[incidents[j].binding], events[j])
  <2>1. CASE Live(incidents[j])
    <3>1. incidents[j].binding \in Bindings \ {b0}
      BY <1>2, <1>3, <1>4, <2>1
    <3>2. health_state'[incidents[j].binding] = health_state[incidents[j].binding]
      BY <3>1
    <3> QED
      BY <1>4, <3>2 DEF IncidentInv
  <2>2. CASE ~Live(incidents[j])
    BY <2>2 DEF Recovering
  <2> QED
    BY <2>1, <2>2
<1>5. CASE Active(b0) = {} /\ UNCHANGED incidentVars
  <2>1. incidents' = incidents /\ events' = events
    BY <1>5 DEF incidentVars
  <2>2. \A j \in IncidentIds : incidents[j] # None =>
           Recovering(incidents[j], health_state'[incidents[j].binding], events[j])
    BY <1>4, <1>5
  <2>3. \A j \in IncidentIds : Recorded(incidents[j], events[j])
    BY DEF IncidentInv
  <2>4. \A j, k \in IncidentIds :
           /\ Live(incidents[j]) /\ Live(incidents[k])
           /\ incidents[j].binding = incidents[k].binding
           => j = k
    BY DEF IncidentInv
  <2> QED
    BY <1>1, <2>1, <2>2, <2>3, <2>4 DEF Sound, LifecycleTypeOK
<1>6. CASE Active(b0) = {} /\ OpensNow(e) /\ OpenIncident(e)
  <2> DEFINE r == [binding |-> b0, state |-> "open", version |-> 1,
                   acknowledged_by |-> None, assigned |-> None]
             t == Append(<<>>, "opened")
  <2>1. PICK i \in IncidentIds :
           /\ incidents[i] = None
           /\ incidents' = [incidents EXCEPT ![i] = r]
           /\ AddEvent(i, "opened")
    BY <1>6 DEF OpenIncident
  <2>2. events[i] = <<>>
    BY <2>1 DEF IncidentInv, Recorded
  <2>3. OneMoves(i, r, t)
    BY <2>1, <2>2 DEF OneMoves, AddEvent
  <2>4. /\ r \in Incident /\ r.binding = b0 /\ r.acknowledged_by = None
        /\ r.state = "open"
    BY <1>1 DEF Incident, ActiveStates
  <2>5. t \in Seq(EventTypes)
    BY DEF EventTypes
  <2>6. Tells(t, None, "open")
    BY TellsOpened
  <2> HIDE DEF r, t
  <2>7. Recorded(r, t)
    BY <2>4, <2>6 DEF Recorded, LifecycleAssumption
  <2>8. HealthyStreak(e) = 0
    BY <1>6 DEF OpensNow, OpensIncidents, HealthyStreak, ProvesRecovery
  <2>9. Recovering(r, health_state'[r.binding], t)
    BY <2>4, <2>8 DEF Recovering
  <2>10. ASSUME NEW j \in IncidentIds \ {i}
         PROVE  /\ Live(r) /\ Live(incidents[j]) => incidents[j].binding # r.binding
                /\ incidents[j] # None =>
                      Recovering(incidents[j], health_state'[incidents[j].binding],
                                 events[j])
    BY <1>3, <1>4, <1>6, <2>4
  <2> QED
    BY <2>3, <2>4, <2>5, <2>7, <2>9, <2>10, IncidentMoves
<1>7. ASSUME NEW i \in Active(b0), AdvanceIncident(i, e)
      PROVE  Sound
  <2> DEFINE row == incidents[i]
             t == events[i]
             x == RecoveryEvent(e)
             r == IF Resolves(e)
                  THEN [row EXCEPT !.state = "resolved", !.version = @ + 1] ELSE row
             u == IF x = "none" THEN t ELSE Append(t, x)
  <2>1. /\ i \in IncidentIds /\ Live(row) /\ row.binding = b0 /\ row # None
        /\ row.state \in ActiveStates
    BY <1>3 DEF Active, Live
  <2>2. row \in Incident /\ t \in Seq(EventTypes)
    BY <1>2, <2>1
  <2>3. Tells(t, row.acknowledged_by, row.state)
    BY <1>2, <2>1
  <2>4. Recovering(row, health_state[b0], t)
    BY <2>1 DEF IncidentInv
  <2>5. row.state = "open" => row.acknowledged_by = None
    BY <2>1 DEF IncidentInv, Recorded
  <2>6. OneMoves(i, r, u)
    <3>1. incidents' = [incidents EXCEPT ![i] = r]
      <4>1. CASE Resolves(e)
        BY <1>1, <1>7, <4>1 DEF AdvanceIncident, LifecycleTypeOK
      <4>2. CASE ~Resolves(e)
        BY <1>1, <1>7, <4>2 DEF AdvanceIncident, LifecycleTypeOK
      <4> QED
        BY <4>1, <4>2
    <3>2. events' = [events EXCEPT ![i] = u]
      <4>1. CASE x = "none"
        BY <1>1, <1>7, <4>1 DEF AdvanceIncident, LifecycleTypeOK
      <4>2. CASE x # "none"
        BY <1>1, <1>7, <4>2 DEF AdvanceIncident, LifecycleTypeOK, AddEvent
      <4> QED
        BY <4>1, <4>2
    <3> QED
      BY <3>1, <3>2 DEF OneMoves
  <2>7. /\ r \in Incident /\ r.binding = b0
        /\ r.acknowledged_by = row.acknowledged_by
        /\ r.state = IF Resolves(e) THEN "resolved" ELSE row.state
    BY <2>1, <2>2, RowResolved
  <2>8. /\ x \in {"auto_resolved", "recovery_started", "recovery_interrupted", "none"}
        /\ x = "auto_resolved" <=> Resolves(e)
        /\ x \in {"auto_resolved", "recovery_interrupted"} => PreviousHealthy(e) > 0
        /\ x = "recovery_interrupted" => HealthyStreak(e) = 0
        /\ x = "none" /\ HealthyStreak(e) > 0 => PreviousHealthy(e) > 0
    BY <1>1, EntryOf
  <2>9. PreviousHealthy(e) > 0 => Started(t, Len(t) + 1)
    <3>1. PreviousHealthy(e) > 0 =>
             health_state[b0] # None /\ health_state[b0].consecutive_healthy > 0
      BY <1>1, StreakType
    <3> QED
      BY <2>1, <2>4, <3>1 DEF Recovering
  <2> HIDE DEF row, t, x, r
  <2>10. r # None /\ row.state # "resolved"
    BY <2>1, <2>7 DEF LifecycleAssumption, ActiveStates
  <2>11. ASSUME x = "none"
         PROVE  /\ u \in Seq(EventTypes) /\ Recorded(r, u)
                /\ Recovering(r, health_state'[r.binding], u)
    <3>1. u = t /\ r.state = row.state
      BY <2>7, <2>8, <2>11
    <3>2. Recorded(r, u)
      BY <2>3, <2>5, <2>7, <2>10, <3>1 DEF Recorded
    <3>3. Recovering(r, health_state'[r.binding], u)
      BY <2>7, <2>8, <2>9, <2>11, <3>1 DEF Recovering
    <3> QED
      BY <3>2, <3>3, <2>2, <3>1
  <2>12. ASSUME x # "none"
         PROVE  /\ u \in Seq(EventTypes) /\ Recorded(r, u)
                /\ Recovering(r, health_state'[r.binding], u)
    <3>1. x \in EventTypes \ {"opened"} /\ u = Append(t, x)
      BY <2>8, <2>12 DEF EventTypes
    <3>2. u \in Seq(EventTypes) /\ Len(u) = Len(t) + 1
      BY <2>2, <3>1, AppendProperties
    <3>3. x = "auto_resolved" <=> r.state = "resolved"
      BY <2>7, <2>8, <2>10
    <3>4. x # "acknowledged"
      BY <2>8
    <3> HIDE DEF u
    <3>5. Tells(Append(t, x), r.acknowledged_by, r.state)
      BY <2>2, <2>3, <2>7, <2>8, <2>9, <2>10, <3>1, <3>3, <3>4, TellsFurther
    <3>6. Recorded(r, u)
      BY <2>5, <2>7, <2>10, <3>1, <3>5 DEF Recorded
    <3>7. /\ x = "recovery_started" => Started(u, Len(t) + 2)
      BY <2>2, <3>1, StartedOfAppend
    <3>8. Recovering(r, health_state'[r.binding], u)
      <4>1. ASSUME Live(r), HealthyStreak(e) > 0
            PROVE  Started(u, Len(u) + 1)
        <5>1. ~Resolves(e)
          BY <2>7, <4>1 DEF Live, ActiveStates
        <5>2. x = "recovery_started"
          BY <2>8, <2>12, <4>1, <5>1
        <5>3. Len(u) + 1 = Len(t) + 2
          BY <2>2, <3>2, LenProperties
        <5> QED
          BY <3>7, <5>2, <5>3
      <4> QED
        BY <2>7, <4>1 DEF Recovering
    <3> QED
      BY <3>2, <3>6, <3>8
  <2>13. /\ u \in Seq(EventTypes) /\ Recorded(r, u)
         /\ Recovering(r, health_state'[r.binding], u)
    BY <2>11, <2>12
  <2>14. ASSUME NEW j \in IncidentIds \ {i}
         PROVE  /\ Live(r) /\ Live(incidents[j]) => incidents[j].binding # r.binding
                /\ incidents[j] # None =>
                      Recovering(incidents[j], health_state'[incidents[j].binding],
                                 events[j])
    <3>1. Live(incidents[j]) => incidents[j].binding # b0
      BY <2>1 DEF IncidentInv, row
    <3> QED
      BY <1>3, <1>4, <2>7, <3>1
  <2> HIDE DEF u
  <2> QED
    BY <2>1, <2>6, <2>7, <2>13, <2>14, IncidentMoves
<1> QED
  BY <1>5, <1>6, <1>7 DEF Lifecycle

----------------------------------------------------------------------------
(* The steps.                                                              *)

LEMMA InvInit == ASSUME LifecycleInit, LifecycleAssumption PROVE IncidentInv
<1>1. 1 \in Revisions /\ 0 \in Moments
  BY DEF LifecycleAssumption, Revisions, Moments
<1>2. Idle \in Work
  BY DEF Work
<1>3. LifecycleTypeOK
  BY <1>1, <1>2 DEF LifecycleInit, LifecycleTypeOK
<1>4. \A b \in Bindings : Tallied(health_state[b], counted[b])
  BY DEF LifecycleInit, Tallied
<1>5. \A i \in IncidentIds : incidents[i] = None /\ events[i] = <<>>
  BY DEF LifecycleInit
<1> QED
  BY <1>3, <1>4, <1>5 DEF IncidentInv, Live, Recorded

\* A step that leaves verdicts counted, rows and timelines alone keeps what
\* the invariant says of them.
LEMMA QuietStep ==
    ASSUME IncidentInv, UNCHANGED <<stateVars, incidentVars, counted>>,
           clock' \in Moments, revision' \in [Bindings -> Revisions],
           usable' \in [Bindings -> BOOLEAN],
           last_good' \in [Bindings -> [Revisions -> Cached \cup {None}]],
           work' \in [Workers -> Work]
    PROVE  IncidentInv'
<1>1. /\ health_state' = health_state /\ transitions' = transitions
      /\ incidents' = incidents /\ events' = events /\ counted' = counted
  BY DEF stateVars, incidentVars
<1>2. LifecycleTypeOK'
  BY <1>1 DEF IncidentInv, LifecycleTypeOK
<1> QED
  BY <1>1, <1>2 DEF IncidentInv

\* What the cache may hold after a reading.
LEMMA PutLastGoodType ==
    ASSUME LifecycleTypeOK, NEW b \in Bindings, NEW rev \in Revisions, NEW on,
           NEW reading \in Reading, NEW now \in Moments
    PROVE  PutLastGood(b, rev, on, reading, now)
              \in [Bindings -> [Revisions -> Cached \cup {None}]]
<1> DEFINE c == [status |-> reading.status, reasons |-> reading.reasons,
                 computed_at |-> now]
<1>1. c \in Cached
  BY DEF Cached, Reading
<1>2. last_good \in [Bindings -> [Revisions -> Cached \cup {None}]]
  BY DEF LifecycleTypeOK
<1>3. \/ PutLastGood(b, rev, on, reading, now) = [last_good EXCEPT ![b][rev] = c]
      \/ PutLastGood(b, rev, on, reading, now) = last_good
  BY DEF PutLastGood
<1> HIDE DEF c
<1> QED
  BY <1>1, <1>2, <1>3

\* A reading, or the last good answer in its place, is a verdict.
LEMMA VerdictType ==
    ASSUME LifecycleTypeOK, NEW w \in Workers, work[w].stage = "reading",
           NEW reading \in Reading
    PROVE  Verdict(w, reading) \in Evaluation
<1> DEFINE c == work[w]
           found == ComputeHealth(c.usable, reading)
           cached == last_good[c.binding][c.revision]
           fallback == c.usable /\ ReadFailed(found) /\ cached # None
           payload == IF fallback THEN AsLastGood(cached)
                      ELSE [status |-> found.status, reasons |-> found.reasons,
                            computed_at |-> c.now]
<1>1. /\ c.binding \in Bindings /\ c.revision \in Revisions
      /\ c.usable \in BOOLEAN /\ c.now \in Moments
  <2>1. c \in Work
    BY DEF LifecycleTypeOK
  <2> QED
    BY <2>1, WorkByStage
<1>2. found.status \in Statuses /\ found.reasons \in SUBSET Reasons
  <2>1. reading.status \in Statuses /\ reading.reasons \in SUBSET Reasons
    BY DEF Reading
  <2>2. "binding_unusable" \in Reasons /\ "unknown" \in Statuses
    BY DEF Reasons, Statuses
  <2> QED
    BY <2>1, <2>2 DEF ComputeHealth
<1>3. cached \in Cached \cup {None}
  BY <1>1 DEF LifecycleTypeOK
<1> HIDE DEF c, found, cached
<1>4. fallback \in BOOLEAN
  OBVIOUS
<1>5. /\ payload.status \in Statuses /\ payload.reasons \in SUBSET Reasons
      /\ payload.computed_at \in Moments
  <2>1. CASE fallback
    <3>1. cached \in Cached
      BY <1>3, <2>1
    <3>2. /\ cached.status \in Statuses /\ cached.reasons \in SUBSET Reasons
          /\ cached.computed_at \in Moments
      BY <3>1 DEF Cached
    <3>3. "telemetry_stale" \in Reasons /\ "stale" \in Statuses
      BY DEF Reasons, Statuses
    <3> QED
      BY <2>1, <3>2, <3>3 DEF AsLastGood
  <2>2. CASE ~fallback
    BY <1>1, <1>2, <2>2
  <2> QED
    BY <2>1, <2>2
<1>6. Verdict(w, reading) =
        [binding |-> c.binding, revision |-> c.revision, usable |-> c.usable,
         status |-> payload.status, reasons |-> payload.reasons,
         computed_at |-> payload.computed_at, served_from_last_good |-> fallback]
  BY DEF Verdict, c, found, cached
<1> HIDE DEF fallback, payload
<1> QED
  BY <1>1, <1>4, <1>5, <1>6 DEF Evaluation

\* A verdict that is processed.
LEMMA ProcessStep ==
    ASSUME LifecycleAssumption, IncidentInv, NEW w \in Workers, ProcessEvaluation(w)
    PROVE  IncidentInv'
<1> DEFINE e == work[w].evaluation
<1>1. e \in Evaluation
  <2>1. work[w] \in Work /\ work[w].stage = "verdict"
    BY DEF IncidentInv, LifecycleTypeOK, ProcessEvaluation
  <2> QED
    BY <2>1, WorkByStage
<1>2. /\ ~Duplicate(e) /\ UpdateState(e) /\ Lifecycle(e)
      /\ counted' = [counted EXCEPT ![e.binding] =
                        IF Len(@) = 2 THEN <<@[2], e>> ELSE Append(@, e)]
      /\ work' = [work EXCEPT ![w] = Idle]
      /\ UNCHANGED <<clock, configVars, last_good>>
  BY DEF ProcessEvaluation
<1> HIDE DEF e
<1>3. /\ health_state' \in [Bindings -> HealthState \cup {None}]
      /\ transitions' \in [Bindings -> Transition \cup {None}]
      /\ counted' \in [Bindings -> Seq(Evaluation)]
      /\ \A b \in Bindings : Tallied(health_state'[b], counted'[b])
      /\ \A b \in Bindings \ {e.binding} : health_state'[b] = health_state[b]
      /\ health_state'[e.binding].consecutive_healthy = HealthyStreak(e)
  BY <1>1, <1>2, StateMoves
<1>4. Sound
  BY <1>1, <1>2, <1>3, VerdictMoves
<1>5. work' \in [Workers -> Work]
  BY <1>2 DEF IncidentInv, LifecycleTypeOK, Work
<1>6. LifecycleTypeOK'
  BY <1>2, <1>3, <1>4, <1>5 DEF IncidentInv, LifecycleTypeOK, Sound, configVars
<1> QED
  BY <1>3, <1>4, <1>6 DEF IncidentInv, Sound

\* What the operators write.
LEMMA AcknowledgeStep ==
    ASSUME LifecycleAssumption, IncidentInv, NEW a \in Actors, NEW i \in IncidentIds,
           Acknowledge(a, i)
    PROVE  Sound
<1> DEFINE row == incidents[i]
           r == [row EXCEPT !.state = "acknowledged", !.acknowledged_by = a,
                            !.version = @ + 1]
<1>1. incidents \in [IncidentIds -> Incident \cup {None}]
  BY DEF IncidentInv, LifecycleTypeOK
<1>2. /\ row # None /\ row.state = "open" /\ row \in Incident
      /\ UNCHANGED stateVars
  BY <1>1 DEF Acknowledge
<1>3. /\ r \in Incident /\ r.binding = row.binding
      /\ r.state = "acknowledged" /\ r.acknowledged_by = a
  BY <1>2, RowAcknowledged
<1>4. incidents' = [incidents EXCEPT ![i] = r]
  BY <1>1, <1>2 DEF Acknowledge
<1>5. events' = [events EXCEPT ![i] = Append(events[i], "acknowledged")]
  BY DEF Acknowledge, AddEvent
<1>6. a # None /\ row.acknowledged_by = None
  BY <1>2 DEF LifecycleAssumption, IncidentInv, Recorded
<1> HIDE DEF r
<1>7. OneMoves(i, r, Append(events[i], "acknowledged"))
  BY <1>4, <1>5 DEF OneMoves
<1> QED
  BY <1>2, <1>3, <1>6, <1>7, OperatorMoves

LEMMA AssignStep ==
    ASSUME LifecycleAssumption, IncidentInv, NEW a \in Actors \cup {None},
           NEW i \in IncidentIds, Assign(i, a)
    PROVE  Sound
<1> DEFINE row == incidents[i]
           r == [row EXCEPT !.assigned = a, !.version = @ + 1]
           x == IF a = None THEN "unassigned" ELSE "assigned"
<1>1. incidents \in [IncidentIds -> Incident \cup {None}]
  BY DEF IncidentInv, LifecycleTypeOK
<1>2. /\ row # None /\ row.state # "resolved" /\ row \in Incident
      /\ UNCHANGED stateVars
  BY <1>1 DEF Assign
<1>3. /\ r \in Incident /\ r.binding = row.binding
      /\ r.state = row.state /\ r.acknowledged_by = row.acknowledged_by
  BY <1>2, RowAssigned
<1>4. incidents' = [incidents EXCEPT ![i] = r]
  BY <1>1, <1>2 DEF Assign
<1>5. events' = [events EXCEPT ![i] = Append(events[i], x)]
  BY DEF Assign, AddEvent
<1>6. row.state = "open" => row.acknowledged_by = None
  BY <1>2 DEF IncidentInv, Recorded
<1>7. x \in {"acknowledged", "assigned", "unassigned"} /\ x # "acknowledged"
  OBVIOUS
<1> HIDE DEF r, x
<1>8. OneMoves(i, r, Append(events[i], x))
  BY <1>4, <1>5 DEF OneMoves
<1> QED
  BY <1>2, <1>3, <1>6, <1>7, <1>8, OperatorMoves

\* An operator's step leaves everything but the incidents alone.
LEMMA OperatorStep ==
    ASSUME IncidentInv, Sound,
           UNCHANGED <<clock, configVars, last_good, work, stateVars, counted>>
    PROVE  IncidentInv'
<1>1. /\ clock' = clock /\ revision' = revision /\ usable' = usable
      /\ last_good' = last_good /\ work' = work /\ health_state' = health_state
      /\ transitions' = transitions /\ counted' = counted
  BY DEF configVars, stateVars
<1>2. LifecycleTypeOK'
  BY <1>1 DEF IncidentInv, LifecycleTypeOK, Sound
<1> QED
  BY <1>1, <1>2 DEF IncidentInv, Sound

LEMMA InvStep ==
    ASSUME LifecycleAssumption, IncidentInv, [LifecycleNext]_lifecycleVars
    PROVE  IncidentInv'
<1>1. /\ clock \in Moments /\ revision \in [Bindings -> Revisions]
      /\ usable \in [Bindings -> BOOLEAN]
      /\ last_good \in [Bindings -> [Revisions -> Cached \cup {None}]]
      /\ work \in [Workers -> Work]
  BY DEF IncidentInv, LifecycleTypeOK
<1>2. Idle \in Work
  BY DEF Work
<1>3. LifecycleTypeOK
  BY DEF IncidentInv
<1>4. CASE UNCHANGED lifecycleVars
  BY <1>1, <1>4, QuietStep DEF lifecycleVars, configVars, stateVars, incidentVars
<1>5. ASSUME NEW b \in Bindings, NEW on \in BOOLEAN, Configure(b, on)
      PROVE  IncidentInv'
  <2>1. revision[b] + 1 \in Revisions
    BY <1>1, <1>5 DEF Configure, Revisions, LifecycleAssumption
  <2>2. revision' \in [Bindings -> Revisions] /\ usable' \in [Bindings -> BOOLEAN]
    BY <1>1, <1>5, <2>1 DEF Configure
  <2> QED
    BY <1>1, <1>5, <2>2, QuietStep DEF Configure
<1>6. ASSUME NEW b \in Bindings, RefreshResolution(b)
      PROVE  IncidentInv'
  BY <1>1, <1>6, QuietStep DEF RefreshResolution
<1>7. ASSUME NEW w \in Workers, NEW b \in Bindings, Take(w, b)
      PROVE  IncidentInv'
  <2>1. [stage |-> "due", binding |-> b] \in Work
    BY DEF Work
  <2>2. work' \in [Workers -> Work]
    BY <1>1, <1>7, <2>1 DEF Take
  <2> QED
    BY <1>1, <1>7, <2>2, QuietStep DEF Take, configVars
<1>8. ASSUME NEW w \in Workers, LoadContext(w)
      PROVE  IncidentInv'
  <2> DEFINE b == work[w].binding
             c == [stage |-> "reading", binding |-> b, revision |-> revision[b],
                   usable |-> usable[b], now |-> clock]
  <2>1. b \in Bindings
    BY <1>1, <1>8, WorkByStage DEF LoadContext
  <2>2. c \in Work
    BY <1>1, <2>1 DEF Work
  <2>3. clock' \in Moments
    BY <1>1, <1>8 DEF LoadContext, Moments, LifecycleAssumption
  <2>4. work' = [work EXCEPT ![w] = c]
    BY <1>8 DEF LoadContext
  <2> HIDE DEF c
  <2>5. work' \in [Workers -> Work]
    BY <1>1, <2>2, <2>4
  <2> QED
    BY <1>1, <1>8, <2>3, <2>5, QuietStep DEF LoadContext, configVars
<1>9. ASSUME NEW w \in Workers, NEW reading \in Readings, CurrentHealth(w, reading)
      PROVE  IncidentInv'
  <2> DEFINE c == [stage |-> "verdict", evaluation |-> Verdict(w, reading)]
  <2>1. reading \in Reading /\ work[w].stage = "reading" /\ work[w] \in Work
    BY <1>1, <1>9 DEF LifecycleAssumption, CurrentHealth
  <2>2. Verdict(w, reading) \in Evaluation
    BY <1>3, <2>1, VerdictType
  <2>3. c \in Work
    BY <2>2 DEF Work
  <2>4. work' = [work EXCEPT ![w] = c]
    BY <1>9 DEF CurrentHealth
  <2> HIDE DEF c
  <2>5. work' \in [Workers -> Work]
    BY <1>1, <2>3, <2>4
  <2>6. last_good' \in [Bindings -> [Revisions -> Cached \cup {None}]]
    BY <1>3, <1>9, <2>1, PutLastGoodType, WorkByStage DEF CurrentHealth
  <2> QED
    BY <1>1, <1>9, <2>5, <2>6, QuietStep DEF CurrentHealth, configVars
<1>10. ASSUME NEW b \in Bindings, NEW reading \in Readings, Glance(b, reading)
       PROVE  IncidentInv'
  <2>1. clock' \in Moments
    BY <1>1, <1>10 DEF Glance, Moments, LifecycleAssumption
  <2>2. reading \in Reading
    BY DEF LifecycleAssumption
  <2>3. last_good' \in [Bindings -> [Revisions -> Cached \cup {None}]]
    BY <1>1, <1>3, <1>10, <2>2, PutLastGoodType DEF Glance
  <2> QED
    BY <1>1, <1>10, <2>1, <2>3, QuietStep DEF Glance, configVars
<1>11. ASSUME NEW b \in Bindings, NEW rev \in Revisions, ExpireLastGood(b, rev)
       PROVE  IncidentInv'
  <2>1. last_good' \in [Bindings -> [Revisions -> Cached \cup {None}]]
    BY <1>1, <1>11 DEF ExpireLastGood
  <2> QED
    BY <1>1, <1>11, <2>1, QuietStep DEF ExpireLastGood, configVars
<1>12. ASSUME NEW w \in Workers, Abandon(w) \/ ProcessDuplicate(w)
       PROVE  IncidentInv'
  <2>1. work' \in [Workers -> Work]
    BY <1>1, <1>2, <1>12 DEF Abandon, ProcessDuplicate
  <2> QED
    BY <1>1, <1>12, <2>1, QuietStep DEF Abandon, ProcessDuplicate, configVars
<1>13. ASSUME NEW w \in Workers, ProcessEvaluation(w)
       PROVE  IncidentInv'
  BY <1>13, ProcessStep
<1>14. ASSUME NEW a \in Actors, NEW i \in IncidentIds, Acknowledge(a, i)
       PROVE  IncidentInv'
  BY <1>14, AcknowledgeStep, OperatorStep DEF Acknowledge
<1>15. ASSUME NEW i \in IncidentIds, NEW a \in Actors \cup {None}, Assign(i, a)
       PROVE  IncidentInv'
  BY <1>15, AssignStep, OperatorStep DEF Assign
<1> QED
  BY <1>4, <1>5, <1>6, <1>7, <1>8, <1>9, <1>10, <1>11, <1>12, <1>13, <1>14, <1>15
     DEF LifecycleNext

----------------------------------------------------------------------------
(* The theorems.                                                           *)

LEMMA InvAlways == LifecycleSpec => []IncidentInv
<1> USE LifecycleAssumption
<1>1. LifecycleInit => IncidentInv
  BY InvInit
<1>2. IncidentInv /\ [LifecycleNext]_lifecycleVars => IncidentInv'
  BY InvStep
<1> QED
  BY <1>1, <1>2, PTL DEF LifecycleSpec

\* Rows and timelines add up, for any number of bindings, overlapping workers,
\* operators and verdicts: a binding has at most one active incident, and each
\* timeline tells what its row says (process_evaluation, acknowledge_incident,
\* assign_incident).
THEOREM TimelinesTellTheStory == LifecycleSpec => []IncidentsAddUp
<1>1. ASSUME IncidentInv
      PROVE  OneActiveIncident
  <2> SUFFICES ASSUME NEW b \in Bindings
               PROVE  Cardinality(Active(b)) <= 1
    BY DEF OneActiveIncident
  <2>1. \A i, j \in Active(b) : i = j
    BY <1>1 DEF IncidentInv, Active, Live
  <2>2. CASE Active(b) = {}
    BY <2>2, FS_EmptySet
  <2>3. CASE Active(b) # {}
    <3>1. PICK i \in Active(b) : TRUE
      BY <2>3
    <3>2. Active(b) = {i}
      BY <2>1, <3>1
    <3> QED
      BY <3>2, FS_Singleton
  <2> QED
    BY <2>2, <2>3
<1>2. ASSUME IncidentInv
      PROVE  TimelineTellsTheStory
  <2>1. \A i \in IncidentIds : incidents[i] # None =>
           Tells(events[i], incidents[i].acknowledged_by, incidents[i].state)
    BY <1>2 DEF IncidentInv, Recorded
  <2> QED
    BY <2>1 DEF TimelineTellsTheStory, Tells, Started
<1>3. IncidentInv => IncidentsAddUp
  BY <1>1, <1>2 DEF IncidentsAddUp, IncidentInv
<1> QED
  BY <1>3, InvAlways, PTL

\* A sequence keeps what it had when something is appended.
LEMMA Kept ==
    ASSUME NEW S, NEW t \in Seq(S), NEW x \in S
    PROVE  /\ Len(t) <= Len(Append(t, x))
           /\ SubSeq(Append(t, x), 1, Len(t)) = t
           /\ SubSeq(t, 1, Len(t)) = t
<1>1. /\ Len(t) \in Nat /\ Len(Append(t, x)) = Len(t) + 1
      /\ Append(t, x) \in Seq(S)
      /\ \A k \in 1..Len(t) : Append(t, x)[k] = t[k]
  BY AppendProperties, LenProperties
<1> DEFINE u == Append(t, x)
           v == SubSeq(u, 1, Len(t))
<1>2. v \in Seq(S) /\ Len(v) = Len(t) /\ \A k \in 1..Len(t) : v[k] = u[k]
  BY <1>1, SubSeqProperties
<1>3. v = t
  BY <1>1, <1>2, SeqEqual
<1> QED
  BY <1>1, <1>3, SubSeqFull

(* What a step may do to incident i, with c the log of its binding.        *)
Untouched(i) == incidents'[i] = incidents[i] /\ events'[i] = events[i]

Longer(i) ==
    \/ events'[i] = events[i]
    \/ \E x \in EventTypes : events'[i] = Append(events[i], x)

Opened(i) ==
    /\ incidents[i] = None /\ incidents'[i] # None /\ Longer(i)
    /\ TwoInARow(counted'[incidents'[i].binding], OpensIncidents)

Advanced(i) ==
    /\ incidents[i] # None /\ incidents[i].state # "resolved"
    /\ incidents'[i] # None /\ Longer(i)
    /\ incidents'[i].state = "resolved" =>
          TwoInARow(counted'[incidents[i].binding], ProvesRecovery)

\* What a processed verdict does to each incident.
LEMMA ProcessTouches ==
    ASSUME LifecycleAssumption, IncidentInv, NEW w \in Workers, ProcessEvaluation(w),
           NEW i \in IncidentIds
    PROVE  Untouched(i) \/ Opened(i) \/ Advanced(i)
<1> DEFINE e == work[w].evaluation
<1>1. e \in Evaluation
  <2>1. work[w] \in Work /\ work[w].stage = "verdict"
    BY DEF IncidentInv, LifecycleTypeOK, ProcessEvaluation
  <2> QED
    BY <2>1, WorkByStage
<1>2. /\ ~Duplicate(e) /\ UpdateState(e) /\ Lifecycle(e)
      /\ counted' = [counted EXCEPT ![e.binding] =
                        IF Len(@) = 2 THEN <<@[2], e>> ELSE Append(@, e)]
  BY DEF ProcessEvaluation
<1> HIDE DEF e
<1>3. /\ OpensNow(e) => TwoInARow(counted'[e.binding], OpensIncidents)
      /\ Resolves(e) => TwoInARow(counted'[e.binding], ProvesRecovery)
  BY <1>1, <1>2, StateMoves
<1>4. /\ incidents \in [IncidentIds -> Incident \cup {None}]
      /\ events \in [IncidentIds -> Seq(EventTypes)]
      /\ LifecycleTypeOK
  BY DEF IncidentInv, LifecycleTypeOK
<1>5. CASE UNCHANGED incidentVars
  BY <1>5 DEF incidentVars, Untouched
<1>6. CASE OpensNow(e) /\ OpenIncident(e)
  <2> DEFINE r == [binding |-> e.binding, state |-> "open", version |-> 1,
                   acknowledged_by |-> None, assigned |-> None]
  <2>1. PICK j \in IncidentIds :
           /\ incidents[j] = None
           /\ incidents' = [incidents EXCEPT ![j] = r]
           /\ events' = [events EXCEPT ![j] = Append(@, "opened")]
    BY <1>6 DEF OpenIncident, AddEvent
  <2>2. r \in Incident /\ r.binding = e.binding
    BY <1>1 DEF Incident, ActiveStates, Evaluation
  <2> HIDE DEF r
  <2>3. r # None
    BY <2>2 DEF LifecycleAssumption
  <2>4. CASE i = j
    <3>1. incidents'[i] = r /\ events'[i] = Append(events[i], "opened")
      BY <1>4, <2>1, <2>4
    <3>2. Longer(i)
      BY <3>1 DEF Longer, EventTypes
    <3> QED
      BY <1>3, <1>6, <2>1, <2>2, <2>3, <2>4, <3>1, <3>2 DEF Opened
  <2>5. CASE i # j
    BY <1>4, <2>1, <2>5 DEF Untouched
  <2> QED
    BY <2>4, <2>5
<1>7. ASSUME NEW j \in Active(e.binding), AdvanceIncident(j, e)
      PROVE  Untouched(i) \/ Opened(i) \/ Advanced(i)
  <2> DEFINE row == incidents[j]
             x == RecoveryEvent(e)
             r == [row EXCEPT !.state = "resolved", !.version = @ + 1]
  <2>1. /\ j \in IncidentIds /\ row # None /\ row \in Incident
        /\ row.binding = e.binding /\ row.state \in ActiveStates
    BY <1>4 DEF Active
  <2>2. r \in Incident
    BY <2>1, RowResolved
  <2>3. /\ incidents' = IF Resolves(e) THEN [incidents EXCEPT ![j] = r] ELSE incidents
        /\ events' = IF x = "none" THEN events
                     ELSE [events EXCEPT ![j] = Append(@, x)]
    BY <1>7 DEF AdvanceIncident, AddEvent
  <2>4. x # "none" => x \in EventTypes
    BY <1>1, <1>4, EntryOf DEF EventTypes
  <2> HIDE DEF r, x
  <2>5. CASE i = j
    <3>1. incidents'[i] = IF Resolves(e) THEN r ELSE row
      BY <1>4, <2>1, <2>3, <2>5
    <3>2. Longer(i)
      BY <1>4, <2>3, <2>4, <2>5 DEF Longer
    <3>3. incidents'[i] # None
      BY <2>1, <2>2, <3>1 DEF LifecycleAssumption
    <3>4. row.state # "resolved"
      BY <2>1 DEF ActiveStates
    <3>5. incidents'[i].state = "resolved" => Resolves(e)
      BY <3>1, <3>4
    <3> QED
      BY <1>3, <2>1, <2>5, <3>2, <3>3, <3>4, <3>5 DEF Advanced
  <2>6. CASE i # j
    BY <1>4, <2>3, <2>6 DEF Untouched
  <2> QED
    BY <2>5, <2>6
<1> QED
  BY <1>2, <1>5, <1>6, <1>7 DEF Lifecycle

\* What any step does to each incident.
LEMMA StepTouches ==
    ASSUME LifecycleAssumption, IncidentInv, LifecycleNext, NEW i \in IncidentIds
    PROVE  Untouched(i) \/ Opened(i) \/ Advanced(i)
<1>1. /\ incidents \in [IncidentIds -> Incident \cup {None}]
      /\ events \in [IncidentIds -> Seq(EventTypes)]
  BY DEF IncidentInv, LifecycleTypeOK
<1>2. ASSUME UNCHANGED incidentVars
      PROVE  Untouched(i)
  BY <1>2 DEF incidentVars, Untouched
<1>3. ASSUME NEW a \in Actors, NEW j \in IncidentIds, Acknowledge(a, j)
      PROVE  Untouched(i) \/ Advanced(i)
  <2> DEFINE row == incidents[j]
             r == [row EXCEPT !.state = "acknowledged", !.acknowledged_by = a,
                              !.version = @ + 1]
  <2>1. row # None /\ row.state = "open" /\ row \in Incident
    BY <1>1, <1>3 DEF Acknowledge
  <2>2. r \in Incident /\ r.state = "acknowledged"
    BY <2>1, RowAcknowledged
  <2>3. /\ incidents' = [incidents EXCEPT ![j] = r]
        /\ events' = [events EXCEPT ![j] = Append(events[j], "acknowledged")]
    BY <1>1, <1>3 DEF Acknowledge, AddEvent
  <2> HIDE DEF r
  <2>4. CASE i = j
    <3>1. incidents'[i] = r /\ Longer(i)
      BY <1>1, <2>3, <2>4 DEF Longer, EventTypes
    <3> QED
      BY <2>1, <2>2, <2>4, <3>1 DEF Advanced, LifecycleAssumption
  <2>5. CASE i # j
    BY <1>1, <2>3, <2>5 DEF Untouched
  <2> QED
    BY <2>4, <2>5
<1>4. ASSUME NEW j \in IncidentIds, NEW a \in Actors \cup {None}, Assign(j, a)
      PROVE  Untouched(i) \/ Advanced(i)
  <2> DEFINE row == incidents[j]
             r == [row EXCEPT !.assigned = a, !.version = @ + 1]
             x == IF a = None THEN "unassigned" ELSE "assigned"
  <2>1. row # None /\ row.state # "resolved" /\ row \in Incident
    BY <1>1, <1>4 DEF Assign
  <2>2. r \in Incident /\ r.state = row.state
    BY <2>1, RowAssigned
  <2>3. /\ incidents' = [incidents EXCEPT ![j] = r]
        /\ events' = [events EXCEPT ![j] = Append(events[j], x)]
    BY <1>1, <1>4 DEF Assign, AddEvent
  <2>4. x \in EventTypes
    BY DEF EventTypes
  <2> HIDE DEF r, x
  <2>5. CASE i = j
    <3>1. incidents'[i] = r /\ Longer(i)
      BY <1>1, <2>3, <2>4, <2>5 DEF Longer
    <3> QED
      BY <2>1, <2>2, <2>5, <3>1 DEF Advanced, LifecycleAssumption
  <2>6. CASE i # j
    BY <1>1, <2>3, <2>6 DEF Untouched
  <2> QED
    BY <2>5, <2>6
<1> QED
  BY <1>2, <1>3, <1>4, ProcessTouches
     DEF LifecycleNext, Configure, RefreshResolution, Take, LoadContext, CurrentHealth,
         Glance, ExpireLastGood, Abandon, ProcessDuplicate

\* Incidents follow the readings: one opens or resolves only on two consecutive
\* trustworthy readings of its binding under one configuration, and what is once
\* on record stays as it is (process_evaluation, streaks and lifecycle).
THEOREM IncidentsFollowTheReadings == LifecycleSpec => IncidentsFollowReadings
<1> USE LifecycleAssumption
<1>1. ASSUME IncidentInv, LifecycleNext
      PROVE  OpensOnTwoCriticals /\ ResolvesOnTwoHealthy /\ HistoryIsKept
  <2>1. \A i \in IncidentIds : Untouched(i) \/ Opened(i) \/ Advanced(i)
    BY <1>1, StepTouches
  <2>2. OpensOnTwoCriticals
    BY <2>1 DEF OpensOnTwoCriticals, Untouched, Opened, Advanced
  <2>3. ResolvesOnTwoHealthy
    BY <2>1 DEF ResolvesOnTwoHealthy, Untouched, Opened, Advanced
  <2>4. ASSUME NEW i \in IncidentIds
        PROVE  /\ Len(events[i]) <= Len(events'[i])
               /\ SubSeq(events'[i], 1, Len(events[i])) = events[i]
    <3>1. events[i] \in Seq(EventTypes) /\ "opened" \in EventTypes
      BY <1>1 DEF IncidentInv, LifecycleTypeOK, EventTypes
    <3>2. Longer(i)
      BY <2>1 DEF Untouched, Opened, Advanced, Longer
    <3> QED
      BY <3>1, <3>2, Kept, LenProperties DEF Longer
  <2>5. ASSUME NEW i \in IncidentIds, incidents[i] # None
        PROVE  /\ incidents'[i] # None
               /\ incidents[i].state = "resolved" =>
                     incidents'[i] = incidents[i] /\ events'[i] = events[i]
    BY <2>1, <2>5 DEF Untouched, Opened, Advanced
  <2>6. HistoryIsKept
    BY <2>4, <2>5 DEF HistoryIsKept
  <2> QED
    BY <2>2, <2>3, <2>6
<1>2. IncidentInv /\ [LifecycleNext]_lifecycleVars
      => [OpensOnTwoCriticals /\ ResolvesOnTwoHealthy /\ HistoryIsKept]_lifecycleVars
  BY <1>1
<1> QED
  BY <1>2, InvAlways, PTL DEF LifecycleSpec, IncidentsFollowReadings
=============================================================================
