---------------------------- MODULE SloEvaluation ----------------------------
(***************************************************************************)
(* The verdict of an objective (alerting/slo.py evaluate_slo) and the      *)
(* service that measures and stores it (alerting/slo_service.py, tables    *)
(* slo_definitions and slo_evaluations of migration 0017).                 *)
(*                                                                         *)
(* Ratios are kept as integers: the budget of an objective is the bad      *)
(* share it allows, in parts of Scale, and a comparison of quotients is    *)
(* the comparison of the products.                                         *)
(***************************************************************************)
EXTENDS Naturals, FiniteSets, FiniteSetsExt

CONSTANTS
    Budgets,      \* 1 - objective_ratio, in parts of Scale, one may be 0
    Scale,
    Indicators,   \* "availability", "latency"
    Thresholds,   \* the curated p95 ceilings a latency objective may have
    Spans,        \* window_seconds a definition may have
    SloReplicas,  \* processes running the SloEvaluator loop
    Instants,     \* the points of time of a series
    Ratios,       \* what the two series of the main window may be
    BurnRatios,   \* what the ratio of a burn window may be
    MaxPeriod,    \* bound on the minutes evaluations are made for
    MaxDefinition,\* bound on a definition's version
    MaxJudgements,\* bound on the rows stored
    Nothing       \* no window, no lease holder

\* One broker answer: a failure of some kind, or values by instant; the
\* newest of an aged one is older than the freshness limit.
Answers == {"ok", "aged"}
IsSeries(r) ==
    /\ r.kind \in Answers \cup {"failed", "stale", "not_configured"}
    /\ r.kind \in Answers => /\ DOMAIN r.points \subseteq Instants
                             /\ \A t \in DOMAIN r.points : r.points[t] \in Nat

\* The error ratio of an instant is 0, half or all of the requests.
Unit == 2

BurnLevels ==
    {[factor |-> 144, severity |-> "critical"],
     [factor |-> 60, severity |-> "critical"],
     [factor |-> 30, severity |-> "warning"],
     [factor |-> 10, severity |-> "warning"]}

Total(o) == o.good + o.bad

\* Wrong variant: the plain mean of the ratio, every instant alike.
AvailabilityUnweighted(ratios, rates) ==
    IF DOMAIN ratios = {} THEN Nothing
    ELSE [bad |-> MapThenSumSet(LAMBDA t : ratios[t], DOMAIN ratios),
          good |-> MapThenSumSet(LAMBDA t : Unit - ratios[t], DOMAIN ratios)]

\* _availability_window: the error ratio weighted by the request rate of the
\* same instant; instants without traffic do not count.
AvailabilityWindow(ratios, rates) ==
    LET paired == {t \in DOMAIN ratios \cap DOMAIN rates : rates[t] > 0}
        Clamped(t) == IF ratios[t] > Unit THEN Unit ELSE ratios[t]
    IN  IF paired = {} THEN Nothing
        ELSE [bad |-> MapThenSumSet(LAMBDA t : rates[t] * Clamped(t), paired),
              good |-> MapThenSumSet(LAMBDA t : rates[t] * (Unit - Clamped(t)), paired)]

\* _latency_window: samples over the threshold.
LatencyWindow(points, threshold) ==
    IF DOMAIN points = {} THEN Nothing
    ELSE LET slow == {t \in DOMAIN points : points[t] > threshold}
         IN  [bad |-> Cardinality(slow),
              good |-> Cardinality(DOMAIN points \ slow)]

\* observe: the curated reads of one window.  Availability needs a second
\* one, the request rate, whose failure is a failure of the window.
Observe(indicator, threshold, primary, rates) ==
    IF primary.kind \notin Answers
    THEN [kind |-> primary.kind, window |-> Nothing]
    ELSE IF indicator = "latency"
    THEN [kind |-> primary.kind, window |-> LatencyWindow(primary.points, threshold)]
    ELSE IF rates.kind = "failed" THEN [kind |-> "failed", window |-> Nothing]
    ELSE [kind |-> primary.kind,
          window |-> IF rates.kind \in Answers
                     THEN AvailabilityWindow(primary.points, rates.points)
                     ELSE Nothing]

\* burn_rate at or over a factor (in tenths); undefined without a budget.
BurnsAtLeast(window, budget, factor) ==
    /\ window # Nothing
    /\ budget > 0
    /\ Total(window) > 0
    /\ 10 * window.bad * Scale >= factor * budget * Total(window)

\* _evaluate_burn: a level is active only when both of its windows exceed it.
ActiveLevels(long, short, budget) ==
    {l \in BurnLevels : /\ BurnsAtLeast(long, budget, l.factor)
                        /\ BurnsAtLeast(short, budget, l.factor)}

\* consumed >= quarters / 4 of the budget.
Consumed(window, budget, quarters) ==
    4 * window.bad * Scale >= quarters * budget * Total(window)

SloStatus(window, budget, active) ==
    IF budget = 0
    THEN IF window.bad > 0 THEN "exhausted" ELSE "healthy"
    ELSE IF Consumed(window, budget, 4) THEN "exhausted"
    ELSE IF \E l \in active : l.severity = "critical" THEN "critical"
    ELSE IF active # {} \/ Consumed(window, budget, 3) THEN "warning"
    ELSE "healthy"

\* evaluate_slo: could it be measured, was there anything to measure, and
\* only then how it compares.
EvaluateSlo(budget, main, long, short) ==
    IF main.kind = "not_configured" THEN "not_configured"
    ELSE IF main.kind = "failed" THEN "query_failed"
    ELSE IF main.kind \in {"stale", "aged"} THEN "stale"
    ELSE IF main.window = Nothing THEN "insufficient_data"
    ELSE SloStatus(main.window, budget,
                   ActiveLevels(long.window, short.window, budget))

ASSUME SloAssumption ==
    /\ IsFiniteSet(Instants)
    /\ Scale \in Nat \ {0}
    /\ Budgets \subseteq 0..Scale
    /\ \A r \in Ratios \cup BurnRatios : IsSeries(r)
    /\ MaxPeriod \in Nat
    /\ MaxDefinition \in Nat \ {0}
    /\ MaxJudgements \in Nat

DefinitionRow == [budget : Budgets, span : Spans, indicator : Indicators,
                  threshold : Thresholds, version : 1..MaxDefinition]
SloStatuses == {"healthy", "warning", "critical", "exhausted",
             "insufficient_data", "stale", "query_failed", "not_configured"}

VARIABLES
    definition,   \* the slo_definitions row
    period,       \* the current minute
    slo_lease,    \* Redis: the replica holding the cycle lease
    slo_work,     \* [SloReplicas -> the definition its cycle loaded]
    evaluations   \* slo_evaluations rows, with what was read

sloVars == <<definition, period, slo_lease, slo_work, evaluations>>

SloInit ==
    /\ definition \in {d \in DefinitionRow : d.version = 1}
    /\ period = 0
    /\ slo_lease = Nothing
    /\ slo_work = [w \in SloReplicas |-> Nothing]
    /\ evaluations = {}

SloTypeOK ==
    /\ definition \in DefinitionRow
    /\ period \in 0..MaxPeriod
    /\ slo_lease \in SloReplicas \cup {Nothing}
    /\ slo_work \in [SloReplicas -> DefinitionRow \cup {Nothing}]
    /\ \A r \in evaluations : r.status \in SloStatuses /\ r.period \in 0..MaxPeriod

NextVersion(budget, span) ==
    IF budget # definition.budget \/ span # definition.span
    THEN definition.version + 1 ELSE definition.version

\* Everything about the definition may change, and only a changed budget or span is a
\* new version. The service it is about is whatever the series come from; there is one
\* burn profile, and an unknown one falls back to it.
EnsureDefinition(budget, span, indicator, threshold) ==
    /\ NextVersion(budget, span) <= MaxDefinition
    /\ definition' = [definition EXCEPT !.budget = budget, !.span = span,
                                        !.indicator = indicator, !.threshold = threshold,
                                        !.version = NextVersion(budget, span)]
    /\ UNCHANGED <<period, slo_lease, slo_work, evaluations>>

MinutePasses ==
    /\ period < MaxPeriod
    /\ period' = period + 1
    /\ UNCHANGED <<definition, slo_lease, slo_work, evaluations>>

\* The lease ends by itself, whether or not the cycle has.
SloLeaseExpires ==
    /\ slo_lease # Nothing
    /\ slo_lease' = Nothing
    /\ UNCHANGED <<definition, period, slo_work, evaluations>>

\* run_cycle: SET NX EX, then load_definitions.
StartSloCycle(w) ==
    /\ slo_work[w] = Nothing
    /\ slo_lease = Nothing
    /\ slo_lease' = w
    /\ slo_work' = [slo_work EXCEPT ![w] = definition]
    /\ UNCHANGED <<definition, period, evaluations>>

\* store_evaluation: ON CONFLICT (definition, period, version) DO NOTHING.
StoreEvaluation(row) ==
    evaluations' = IF \E r \in evaluations : r.period = row.period
                                          /\ r.version = row.version
                   THEN evaluations ELSE evaluations \cup {row}

ReleaseSloLease(w) ==
    slo_lease' = IF slo_lease = w THEN Nothing ELSE slo_lease

EvaluateDefinition(w, primary, rates, long, short) ==
    LET def == slo_work[w]
        Read(series) == Observe(def.indicator, def.threshold, series, rates)
    IN  /\ def # Nothing
        /\ Cardinality(evaluations) < MaxJudgements
        /\ StoreEvaluation(
             [period |-> period, version |-> def.version, budget |-> def.budget,
              span |-> def.span, primary |-> primary, rates |-> rates,
              indicator |-> def.indicator, threshold |-> def.threshold,
              status |-> EvaluateSlo(def.budget, Read(primary), Read(long),
                                     Read(short))])
        /\ slo_work' = [slo_work EXCEPT ![w] = Nothing]
        /\ ReleaseSloLease(w)
        /\ UNCHANGED <<definition, period>>

\* Cancelled or failed: nothing is stored, the lease is released.
AbandonSloCycle(w) ==
    /\ slo_work[w] # Nothing
    /\ slo_work' = [slo_work EXCEPT ![w] = Nothing]
    /\ ReleaseSloLease(w)
    /\ UNCHANGED <<definition, period, evaluations>>

SloNext ==
    \/ \E b \in Budgets, s \in Spans, i \in Indicators, t \in Thresholds :
          EnsureDefinition(b, s, i, t)
    \/ MinutePasses
    \/ SloLeaseExpires
    \/ \E w \in SloReplicas :
          \/ StartSloCycle(w)
          \/ AbandonSloCycle(w)
          \/ \E p, q \in Ratios, l, s \in BurnRatios :
                EvaluateDefinition(w, p, q, l, s)

SloSpec == SloInit /\ [][SloNext]_sloVars
-----------------------------------------------------------------------------
\* A stored judgement names the objective it was made under: two rows of one
\* version were judged by one objective, and one period has one judgement
\* per version, whoever made it and whatever changed while it was measured
\* (ensure_definition's version, store_evaluation's unique key).
JudgedByItsObjective ==
    \A r, s \in evaluations : r.version = s.version =>
        /\ r.budget = s.budget /\ r.span = s.span
        /\ r.period = s.period => r = s

\* What a judgement rests on, counted anew: at each instant its main window
\* saw, what was served (the request rate, or one sample) and how much of it
\* failed, in units.
SeenBy(r) ==
    IF r.indicator = "latency" THEN DOMAIN r.primary.points
    ELSE DOMAIN r.primary.points \cap DOMAIN r.rates.points
ServedAt(r, t) == IF r.indicator = "latency" THEN 1 ELSE r.rates.points[t]
FailedAt(r, t) ==
    IF r.indicator = "latency"
    THEN IF r.primary.points[t] > r.threshold THEN Unit ELSE 0
    ELSE r.rates.points[t] * Min({Unit, r.primary.points[t]})
ServedIn(r) == MapThenSumSet(LAMBDA t : ServedAt(r, t), SeenBy(r))
FailedIn(r) == MapThenSumSet(LAMBDA t : FailedAt(r, t), SeenBy(r))

\* Healthy is a measurement: there was fresh data, and the share that failed
\* (of the requests served, weighed by traffic, or of the samples) stays
\* under three quarters of the budget (evaluate_slo's order of trust,
\* _availability_window, _latency_window).
HealthyIsMeasured ==
    \A r \in evaluations : r.status = "healthy" =>
        /\ r.primary.kind = "ok"
        /\ ServedIn(r) > 0
        /\ 4 * FailedIn(r) * Scale <= 3 * r.budget * ServedIn(r) * Unit

\* A stored judgement can be trusted: it is of the objective it names, and
\* healthy only on evidence.
JudgementsAreSound == SloTypeOK /\ JudgedByItsObjective /\ HealthyIsMeasured
=============================================================================
