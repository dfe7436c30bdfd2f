------------------------- MODULE IncidentLifecycle -------------------------
(***************************************************************************)
(* From health verdicts to incidents: the evaluation of a binding          *)
(* (incidents/runner.py evaluate_binding with the verdict cache of         *)
(* service_health/orchestrator.py), the processor that turns verdicts into *)
(* a lifecycle (incidents/processor.py process_evaluation), and the two    *)
(* operator actions on an incident (acknowledge_incident, assign_incident).*)
(*                                                                         *)
(* Each transaction of the processor holds the row lock of the binding's   *)
(* state (and of the incident) from its first read to its commit, so it is *)
(* one action.  Everything before it (the page of due bindings, the        *)
(* binding's context, the reading) is a step of its own: the binding may   *)
(* change between any two of them.  A worker is one evaluation slot of a   *)
(* cycle; two workers on one binding are two overlapping cycles, which the *)
(* lease of EvaluationRunner does not exclude.                             *)
(***************************************************************************)
EXTENDS Naturals, Sequences, FiniteSets

CONSTANTS
    Bindings,     \* service_workload_bindings rows
    Workers,      \* evaluation slots
    Actors,       \* operators
    IncidentIds,  \* the uuids incidents may get: bounds the incidents
    Readings,     \* what the datasource may answer, [status, reasons]
    MaxClock,     \* bound on the moments a verdict is computed at
    MaxRevision,  \* bound on a binding's revision
    MaxVersion,   \* bound on the version operators bring an incident to
    None          \* SQL NULL, an absent row, an idle worker

Statuses == {"healthy", "degraded", "critical", "stale", "unknown"}
MEASURED_STATUSES == {"healthy", "degraded", "critical"}

\* The reason codes that decide anything; the causes of a bad status
\* (no_ready_replicas, high_error_rate, ...) are left out.
Reasons == {"datasource_unavailable", "telemetry_stale", "partial_result",
            "binding_unusable"}
UNRELIABLE_REASONS == Reasons
READ_FAILURE_REASONS == {"datasource_unavailable"}

Reading == [status : Statuses, reasons : SUBSET Reasons]

OPEN_THRESHOLD == 2
RESOLVE_THRESHOLD == 2

Revisions == 1..MaxRevision
Moments == 0..MaxClock
ActiveStates == {"open", "acknowledged"}
EventTypes == {"opened", "acknowledged", "assigned", "unassigned",
               "recovery_started", "recovery_interrupted", "auto_resolved"}

Evaluation ==
    [binding : Bindings, revision : Revisions, usable : BOOLEAN,
     status : Statuses, reasons : SUBSET Reasons, computed_at : Moments,
     served_from_last_good : BOOLEAN]

\* A worker: idle, holding a row of the page of due bindings, reading the
\* datasource for the context it loaded, or holding the verdict.
Idle == [stage |-> "idle"]
Work ==
    {Idle}
    \cup [stage : {"due"}, binding : Bindings]
    \cup [stage : {"reading"}, binding : Bindings, revision : Revisions,
          usable : BOOLEAN, now : Moments]
    \cup [stage : {"verdict"}, evaluation : Evaluation]

Cached == [status : Statuses, reasons : SUBSET Reasons,
           computed_at : Moments]

HealthState ==
    [binding_revision : Revisions, current_status : Statuses,
     current_reasons : SUBSET Reasons,
     last_evaluation_id : Revisions \X Moments,
     consecutive_critical : Nat, consecutive_healthy : Nat]

Transition == [previous : Statuses \cup {None}, new : Statuses]

Incident ==
    [binding : Bindings, state : ActiveStates \cup {"resolved"},
     version : Nat, acknowledged_by : Actors \cup {None},
     assigned : Actors \cup {None}]

ASSUME LifecycleAssumption ==
    /\ Readings \subseteq Reading
    /\ MaxClock \in Nat
    /\ MaxRevision \in Nat \ {0}
    /\ MaxVersion \in Nat
    /\ None \notin Actors \cup Cached \cup HealthState \cup Incident

VARIABLES
    clock,        \* the wall clock, as the moments verdicts are computed at
    revision,     \* [Bindings -> Revisions]
    usable,       \* [Bindings -> active and resolved]
    last_good,    \* Redis: [Bindings -> [Revisions -> cached verdict]]
    work,         \* [Workers -> Work]
    health_state, \* service_health_state rows
    transitions,  \* the newest service_health_transitions row, per binding
    incidents,    \* incidents rows
    events,       \* incident_events, per incident
    counted       \* ghost: the last two verdicts not dropped as duplicates

configVars == <<revision, usable>>
stateVars == <<health_state, transitions>>
incidentVars == <<incidents, events>>
lifecycleVars == <<clock, configVars, last_good, work, stateVars, incidentVars,
          counted>>

LifecycleTypeOK ==
    /\ clock \in Moments
    /\ revision \in [Bindings -> Revisions]
    /\ usable \in [Bindings -> BOOLEAN]
    /\ last_good \in [Bindings -> [Revisions -> Cached \cup {None}]]
    /\ work \in [Workers -> Work]
    /\ health_state \in [Bindings -> HealthState \cup {None}]
    /\ transitions \in [Bindings -> Transition \cup {None}]
    /\ incidents \in [IncidentIds -> Incident \cup {None}]
    /\ events \in [IncidentIds -> Seq(EventTypes)]
    /\ counted \in [Bindings -> Seq(Evaluation)]

LifecycleInit ==
    /\ clock = 0
    /\ revision = [b \in Bindings |-> 1]
    /\ usable = [b \in Bindings |-> TRUE]
    /\ last_good = [b \in Bindings |-> [r \in Revisions |-> None]]
    /\ work = [w \in Workers |-> Idle]
    /\ health_state = [b \in Bindings |-> None]
    /\ transitions = [b \in Bindings |-> None]
    /\ incidents = [i \in IncidentIds |-> None]
    /\ events = [i \in IncidentIds |-> <<>>]
    /\ counted = [b \in Bindings |-> <<>>]

----------------------------------------------------------------------------
(* The binding.                                                            *)

\* update_binding changes what is measured, set_lifecycle disables or
\* re-enables, resolve_pending_bindings resolves: all three bump the
\* revision.
Configure(b, on) ==
    /\ revision[b] < MaxRevision
    /\ revision' = [revision EXCEPT ![b] = @ + 1]
    /\ usable' = [usable EXCEPT ![b] = on]
    /\ UNCHANGED <<clock, last_good, work, stateVars, incidentVars, counted>>

\* refresh_resolution: the workload left inventory, or is back; the revision
\* stays.
RefreshResolution(b) ==
    /\ usable' = [usable EXCEPT ![b] = ~@]
    /\ UNCHANGED <<clock, revision, last_good, work, stateVars, incidentVars,
                   counted>>

----------------------------------------------------------------------------
(* Reading a verdict.                                                      *)

\* _due_bindings: only an active, resolved binding is on the page.
Take(w, b) ==
    /\ work[w] = Idle
    /\ usable[b]
    /\ work' = [work EXCEPT ![w] = [stage |-> "due", binding |-> b]]
    /\ UNCHANGED <<clock, configVars, last_good, stateVars, incidentVars,
                   counted>>

\* load_context, then current_health stamps `now` before it asks anything.
\* Two reads never share a moment.
LoadContext(w) ==
    /\ work[w].stage = "due"
    /\ clock < MaxClock
    /\ clock' = clock + 1
    /\ LET b == work[w].binding IN
       work' = [work EXCEPT ![w] =
                   [stage |-> "reading", binding |-> b,
                    revision |-> revision[b], usable |-> usable[b],
                    now |-> clock]]
    /\ UNCHANGED <<configVars, last_good, stateVars, incidentVars, counted>>

\* compute_health of a binding that is disabled or unresolved asks nothing
\* (its not_configured and its unknown are one here: neither is measured).
ComputeHealth(on, reading) ==
    IF on THEN reading
    ELSE [status |-> "unknown", reasons |-> {"binding_unusable"}]

\* The read failed for datasource reasons.
ReadFailed(reading) ==
    /\ reading.status = "unknown"
    /\ reading.reasons \cap READ_FAILURE_REASONS # {}

\* as_last_good: the old answer, marked as one; a good verdict does not
\* survive the downgrade.
AsLastGood(cached) ==
    [status |-> IF cached.status \in {"healthy", "unknown"}
                THEN "stale" ELSE cached.status,
     reasons |-> cached.reasons \cup {"telemetry_stale"},
     computed_at |-> cached.computed_at]

\* HealthCache.put: what may be served later as the last good answer, under
\* a key that holds the revision and the resolved workload.
PutLastGood(b, rev, on, reading, now) ==
    IF on /\ ~ReadFailed(reading) /\ "telemetry_stale" \notin reading.reasons
    THEN [last_good EXCEPT ![b][rev] =
             [status |-> reading.status, reasons |-> reading.reasons,
              computed_at |-> now]]
    ELSE last_good

\* current_health(refresh=True) answers, and evaluation_from_health adapts it.
Verdict(w, reading) ==
    LET c == work[w]
        found == ComputeHealth(c.usable, reading)
        cached == last_good[c.binding][c.revision]
        fallback == c.usable /\ ReadFailed(found) /\ cached # None
        payload == IF fallback THEN AsLastGood(cached)
                   ELSE [status |-> found.status, reasons |-> found.reasons,
                         computed_at |-> c.now]
    IN  [binding |-> c.binding, revision |-> c.revision, usable |-> c.usable,
         status |-> payload.status, reasons |-> payload.reasons,
         computed_at |-> payload.computed_at,
         served_from_last_good |-> fallback]

CurrentHealth(w, reading) ==
    /\ work[w].stage = "reading"
    /\ work' = [work EXCEPT ![w] = [stage |-> "verdict",
                                    evaluation |-> Verdict(w, reading)]]
    /\ last_good' = PutLastGood(work[w].binding, work[w].revision,
                                work[w].usable, reading, work[w].now)
    /\ UNCHANGED <<clock, configVars, stateVars, incidentVars, counted>>

\* A reader of the health page computes (and caches) a verdict of its own;
\* it never touches an incident.
Glance(b, reading) ==
    /\ clock < MaxClock
    /\ clock' = clock + 1
    /\ last_good' = PutLastGood(b, revision[b], usable[b], reading, clock)
    /\ UNCHANGED <<configVars, work, stateVars, incidentVars, counted>>

\* LAST_GOOD_TTL_SECONDS pass, or Redis drops the key.
ExpireLastGood(b, rev) ==
    /\ last_good[b][rev] # None
    /\ last_good' = [last_good EXCEPT ![b][rev] = None]
    /\ UNCHANGED <<clock, configVars, work, stateVars, incidentVars, counted>>

\* The evaluation raises, or the cycle is cancelled, or the replica dies.
Abandon(w) ==
    /\ work[w] # Idle
    /\ work' = [work EXCEPT ![w] = Idle]
    /\ UNCHANGED <<clock, configVars, last_good, stateVars, incidentVars,
                   counted>>

----------------------------------------------------------------------------
(* process_evaluation.                                                     *)

EvaluationId(e) == <<e.revision, e.computed_at>>

\* Whether a verdict may move a streak.
Reliable(e) ==
    /\ e.usable
    /\ ~e.served_from_last_good
    /\ e.status \in MEASURED_STATUSES
    /\ e.reasons \cap UNRELIABLE_REASONS = {}

OpensIncidents(e) == Reliable(e) /\ e.status = "critical"
ProvesRecovery(e) == Reliable(e) /\ e.status = "healthy"

\* The verdict the state row already carries.
Duplicate(e) ==
    /\ health_state[e.binding] # None
    /\ health_state[e.binding].last_evaluation_id = EvaluationId(e)

\* Wrong variant: the streak survives a change of the binding.
PreviousStreakKept(e, field) ==
    LET row == health_state[e.binding] IN
    IF row = None THEN 0 ELSE row[field]

\* The streaks a verdict continues: none across revisions.
PreviousStreak(e, field) ==
    LET row == health_state[e.binding] IN
    IF row = None THEN 0
    ELSE IF row.binding_revision # e.revision THEN 0
    ELSE row[field]

PreviousHealthy(e) == PreviousStreak(e, "consecutive_healthy")

CriticalStreak(e) ==
    IF OpensIncidents(e)
    THEN PreviousStreak(e, "consecutive_critical") + 1 ELSE 0

HealthyStreak(e) ==
    IF ProvesRecovery(e) THEN PreviousHealthy(e) + 1 ELSE 0

\* The state row, under its lock, and the transition row when the status or
\* the reasons changed.
UpdateState(e) ==
    LET row == health_state[e.binding]
        changed == \/ row = None
                   \/ row.current_status # e.status
                   \/ row.current_reasons # e.reasons
    IN  /\ health_state' = [health_state EXCEPT ![e.binding] =
               [binding_revision |-> e.revision, current_status |-> e.status,
                current_reasons |-> e.reasons,
                last_evaluation_id |-> EvaluationId(e),
                consecutive_critical |-> CriticalStreak(e),
                consecutive_healthy |-> HealthyStreak(e)]]
        /\ transitions' = IF ~changed THEN transitions
               ELSE [transitions EXCEPT ![e.binding] =
                       [previous |-> IF row = None THEN None
                                     ELSE row.current_status,
                        new |-> e.status]]

\* _active_incident: the partial unique index keeps it at most one.
Active(b) ==
    {i \in IncidentIds : /\ incidents[i] # None
                         /\ incidents[i].binding = b
                         /\ incidents[i].state \in ActiveStates}

AddEvent(i, type) == events' = [events EXCEPT ![i] = Append(@, type)]

\* _open_incident: the row and its opening entry, in one transaction.
OpenIncident(e) ==
    \E i \in IncidentIds :
        /\ incidents[i] = None
        /\ incidents' = [incidents EXCEPT ![i] =
               [binding |-> e.binding, state |-> "open", version |-> 1,
                acknowledged_by |-> None, assigned |-> None]]
        /\ AddEvent(i, "opened")

\* The active incident: what the verdict does to it and the entry it adds.
Resolves(e) ==
    ProvesRecovery(e) /\ HealthyStreak(e) >= RESOLVE_THRESHOLD

\* Wrong variant: the first healthy verdict leaves no entry.
RecoveryEventNoStart(e) ==
    CASE Resolves(e) -> "auto_resolved"
      [] ~ProvesRecovery(e) /\ PreviousHealthy(e) > 0
            -> "recovery_interrupted"
      [] OTHER -> "none"

RecoveryEvent(e) ==
    CASE Resolves(e) -> "auto_resolved"
      [] ProvesRecovery(e) /\ ~Resolves(e) /\ PreviousHealthy(e) = 0
            -> "recovery_started"
      [] ~ProvesRecovery(e) /\ PreviousHealthy(e) > 0
            -> "recovery_interrupted"
      [] OTHER -> "none"

AdvanceIncident(i, e) ==
    /\ incidents' = IF Resolves(e)
                    THEN [incidents EXCEPT ![i].state = "resolved",
                                           ![i].version = @ + 1]
                    ELSE incidents
    /\ IF RecoveryEvent(e) = "none" THEN UNCHANGED events
       ELSE AddEvent(i, RecoveryEvent(e))

OpensNow(e) == OpensIncidents(e) /\ CriticalStreak(e) >= OPEN_THRESHOLD

Lifecycle(e) ==
    \/ /\ Active(e.binding) = {}
       /\ IF OpensNow(e) THEN OpenIncident(e) ELSE UNCHANGED incidentVars
    \/ \E i \in Active(e.binding) : AdvanceIncident(i, e)

\* The verdict is dropped as already seen.
ProcessDuplicate(w) ==
    /\ work[w].stage = "verdict"
    /\ Duplicate(work[w].evaluation)
    /\ work' = [work EXCEPT ![w] = Idle]
    /\ UNCHANGED <<clock, configVars, last_good, stateVars, incidentVars,
                   counted>>

ProcessEvaluation(w) ==
    /\ work[w].stage = "verdict"
    /\ LET e == work[w].evaluation IN
       /\ ~Duplicate(e)
       /\ UpdateState(e)
       /\ Lifecycle(e)
       /\ counted' = [counted EXCEPT ![e.binding] =
                        IF Len(@) = 2 THEN <<@[2], e>> ELSE Append(@, e)]
    /\ work' = [work EXCEPT ![w] = Idle]
    /\ UNCHANGED <<clock, configVars, last_good>>

----------------------------------------------------------------------------
(* The operators.  A call carries the version its client last read; one    *)
(* with any other version than the incident has now, and the repetition of *)
(* a call that took effect, are answered (conflict, unchanged) without a   *)
(* write.                                                                  *)

\* acknowledge_incident: only an open incident.
Acknowledge(a, i) ==
    /\ incidents[i] # None
    /\ incidents[i].state = "open"
    /\ incidents[i].version < MaxVersion
    /\ incidents' = [incidents EXCEPT ![i].state = "acknowledged",
                                      ![i].acknowledged_by = a,
                                      ![i].version = @ + 1]
    /\ AddEvent(i, "acknowledged")
    /\ UNCHANGED <<clock, configVars, last_good, work, stateVars, counted>>

\* assign_incident: an unresolved incident, another owner than it has.
Assign(i, assignee) ==
    /\ incidents[i] # None
    /\ incidents[i].state # "resolved"
    /\ incidents[i].assigned # assignee
    /\ incidents[i].version < MaxVersion
    /\ incidents' = [incidents EXCEPT ![i].assigned = assignee,
                                      ![i].version = @ + 1]
    /\ AddEvent(i, IF assignee = None THEN "unassigned" ELSE "assigned")
    /\ UNCHANGED <<clock, configVars, last_good, work, stateVars, counted>>

----------------------------------------------------------------------------
LifecycleNext ==
    \/ \E b \in Bindings, on \in BOOLEAN : Configure(b, on)
    \/ \E b \in Bindings : RefreshResolution(b)
    \/ \E w \in Workers, b \in Bindings : Take(w, b)
    \/ \E w \in Workers : LoadContext(w)
    \/ \E w \in Workers, reading \in Readings : CurrentHealth(w, reading)
    \/ \E b \in Bindings, reading \in Readings : Glance(b, reading)
    \/ \E b \in Bindings, rev \in Revisions : ExpireLastGood(b, rev)
    \/ \E w \in Workers : Abandon(w)
    \/ \E w \in Workers : ProcessDuplicate(w)
    \/ \E w \in Workers : ProcessEvaluation(w)
    \/ \E a \in Actors, i \in IncidentIds : Acknowledge(a, i)
    \/ \E i \in IncidentIds, a \in Actors \cup {None} : Assign(i, a)

LifecycleSpec == LifecycleInit /\ [][LifecycleNext]_lifecycleVars

----------------------------------------------------------------------------
(* What holds.                                                             *)

\* The two verdicts the processor counted last are two different
\* observations, both with property P, of the binding under one revision.
TwoInARow(log, P(_)) ==
    /\ Len(log) = 2
    /\ P(log[1]) /\ P(log[2])
    /\ log[1].revision = log[2].revision
    /\ log[1].computed_at # log[2].computed_at

\* An incident opens only on the second of two consecutive trustworthy
\* critical verdicts, read under one configuration of the binding: never
\* on one reading counted twice, on a reading the datasource did not give,
\* or on a streak carried over a configuration change (process_evaluation,
\* streaks and lifecycle).
OpensOnTwoCriticals ==
    \A i \in IncidentIds :
       incidents[i] = None /\ incidents'[i] # None
       => TwoInARow(counted'[incidents'[i].binding], OpensIncidents)

\* An incident resolves only on two consecutive trustworthy healthy
\* verdicts under one configuration: not because its binding was disabled
\* or went unreadable (process_evaluation, "Silence is not recovery").
ResolvesOnTwoHealthy ==
    \A i \in IncidentIds :
       /\ incidents[i] # None
       /\ incidents[i].state # "resolved"
       /\ incidents'[i].state = "resolved"
       => TwoInARow(counted'[incidents[i].binding], ProvesRecovery)

\* One active incident per binding, whatever the workers overlap
\* (uq_incident_active_per_binding never has to refuse: the lock of the
\* state row is enough).
OneActiveIncident ==
    \A b \in Bindings : Cardinality(Active(b)) <= 1

\* `resolved` is final: neither the row nor its timeline changes again, and
\* no timeline entry is ever rewritten.
HistoryIsKept ==
    \A i \in IncidentIds :
       /\ Len(events[i]) <= Len(events'[i])
       /\ SubSeq(events'[i], 1, Len(events[i])) = events[i]
       /\ incidents[i] # None =>
             /\ incidents'[i] # None
             /\ incidents[i].state = "resolved" =>
                   incidents'[i] = incidents[i] /\ events'[i] = events[i]

\* Incidents follow the readings: each opens and resolves on two of them in
\* a row, and what is once on record stays (process_evaluation as a whole).
IncidentsFollowReadings ==
    [][OpensOnTwoCriticals /\ ResolvesOnTwoHealthy /\ HistoryIsKept]_lifecycleVars

Count(seq, type) == Cardinality({k \in 1..Len(seq) : seq[k] = type})

\* The timeline tells what the row says.  It starts with `opened`; it has
\* one `acknowledged` entry exactly if someone acknowledged, however often
\* the call was repeated; `auto_resolved` is its last entry exactly if the
\* row is resolved; a recovery is interrupted or completed only after it
\* started, and is interrupted once (processor._add_event and its callers).
TimelineTellsTheStory ==
    \A i \in IncidentIds : incidents[i] # None =>
        LET t == events[i]
            started(k) == \E j \in 1..(k - 1) :
                /\ t[j] = "recovery_started"
                /\ \A m \in (j + 1)..(k - 1) : t[m] # "recovery_interrupted"
        IN  /\ Len(t) >= 1 /\ t[1] = "opened" /\ Count(t, "opened") = 1
            /\ Count(t, "acknowledged") =
                  (IF incidents[i].acknowledged_by = None THEN 0 ELSE 1)
            /\ Count(t, "auto_resolved") =
                  (IF incidents[i].state = "resolved" THEN 1 ELSE 0)
            /\ incidents[i].state = "resolved" => t[Len(t)] = "auto_resolved"
            /\ \A k \in 1..Len(t) :
                  t[k] \in {"recovery_interrupted", "auto_resolved"}
                  => started(k)

\* Rows and timelines add up, for every binding and every incident.
IncidentsAddUp == LifecycleTypeOK /\ OneActiveIncident /\ TimelineTellsTheStory
====
