---------------------------- MODULE ServiceHealth ----------------------------
(***************************************************************************)
(* How the health of one service is read: the binding to its workload and  *)
(* who may change it, the verdict computed from the signals of the bound   *)
(* workload, and the cache that stands between the two.                    *)
(* (service_health/bindings.py, engine.py, policy.py, orchestrator.py,     *)
(* cache.py, router.py)                                                    *)
(*                                                                         *)
(* An operator's edit reads the row, compares the revision and updates; a  *)
(* health read loads the binding, looks in Redis, queries the datasource   *)
(* and stores the verdict. Neither holds what it read, so everything may   *)
(* happen in between. Measures are percentages (of the limit, of requests),*)
(* counts, and tenths of a second for latency.                             *)
(***************************************************************************)
EXTENDS Naturals, FiniteSets

CONSTANTS
  Editors,     \* requests that edit the binding
  Readers,       \* requests and evaluations that read its health
  Reads,         \* what the datasource may answer: functions from SIGNAL_FIELDS to answers
  Ages,          \* how old the newest sample of a read may be, in seconds
  MaxRevision,   \* bound: edits of the binding
  MaxUid,        \* bound: times the workload is recreated under a new uid
  MaxSource,     \* bound: configurations of the datasource
  MaxEntries,    \* bound: verdicts Redis holds at once, fresh or last good
  QUERY_FAILED, NOT_CONFIGURED,  \* answers of a query: it failed, there is no datasource
  Missing        \* no binding, no uid, a signal with no sample, no expected revision

SIGNAL_FIELDS == {"desired_replicas", "ready_replicas", "restarts", "cpu_usage", "cpu_limit",
                  "memory_usage", "memory_limit", "cpu_throttling", "request_rate",
                  "error_ratio", "latency_p95", "freshness"}

\* A query fails, finds no datasource, finds nothing, or finds a number.
Measured(v) == v \notin {QUERY_FAILED, NOT_CONFIGURED, Missing}

ASSUME HealthAssumption ==
  /\ \A read \in Reads : DOMAIN read = SIGNAL_FIELDS
  /\ \A read \in Reads, s \in SIGNAL_FIELDS : Measured(read[s]) => read[s] \in Nat
  /\ Ages \subseteq Nat /\ MaxRevision \in Nat /\ MaxUid \in Nat /\ MaxSource \in Nat
  /\ MaxEntries \in Nat

VARIABLES
  bound,       \* the service_workload_bindings row, or Missing
  seenUid,     \* inventory_resources: the uid of the workload, or Missing
  source,      \* the datasource's identity: which integration, configured how
  fresh,       \* Redis: cache identity -> the fresh verdict
  lastGood,    \* Redis: cache identity -> the fallback verdict
  edits,       \* where each operator's request is
  views        \* where each health read is

healthVars == <<bound, seenUid, source, fresh, lastGood, edits, views>>

-----------------------------------------------------------------------------
(* policy.py and presets.py                                                *)

HEALTH_POLICIES ==
  [default  |-> [age |-> 300, ready |-> 100, restarts |-> <<1, 5>>, use |-> <<85, 95>>,
                 errors |-> <<1, 5>>, latency |-> <<10, 30>>],
   tolerant |-> [age |-> 900, ready |-> 75, restarts |-> <<3, 10>>, use |-> <<92, 98>>,
                 errors |-> <<5, 15>>, latency |-> <<30, 100>>]]

THROTTLE == <<25, 50>>

APPLICATION_SIGNALS == {"request_rate", "error_ratio", "latency_p95"}

PRESETS == [baseline |-> SIGNAL_FIELDS \ APPLICATION_SIGNALS, http |-> SIGNAL_FIELDS]

\* Wrong variant: an unknown section is outvoted by a healthy one.
SEVERITY_OPTIMIST ==
  [not_configured |-> 0, healthy |-> 2, unknown |-> 1, stale |-> 3, degraded |-> 4, critical |-> 5]

SEVERITY ==
  [not_configured |-> 0, healthy |-> 1, unknown |-> 2, stale |-> 3, degraded |-> 4, critical |-> 5]

\* The most severe status present; not_configured is the least of them.
worst(statuses) ==
  CHOOSE s \in statuses : \A t \in statuses : SEVERITY[t] <= SEVERITY[s]

-----------------------------------------------------------------------------
(* engine.py: four sections and their combination                          *)

\* A measure against its degraded and critical thresholds; one that is not
\* there is not judged.
level(v, thresholds) ==
  IF ~Measured(v) THEN "healthy"
  ELSE IF v >= thresholds[2] THEN "critical"
  ELSE IF v >= thresholds[1] THEN "degraded" ELSE "healthy"

\* A workload scaled to zero on purpose is not unhealthy.
evaluate_availability(read, policy) ==
  LET desired == read["desired_replicas"]  ready == read["ready_replicas"] IN
  IF ~(Measured(desired) /\ Measured(ready)) THEN "unknown"
  ELSE IF desired = 0 THEN "healthy"
  ELSE IF ready = 0 THEN "critical"
  ELSE IF 100 * ready < policy.ready * desired THEN "degraded" ELSE "healthy"

evaluate_stability(read, policy) ==
  IF Measured(read["restarts"]) THEN level(read["restarts"], policy.restarts) ELSE "unknown"

\* Utilization against its thresholds, when there is a limit to compare with.
ratio_level(used, limit, thresholds) ==
  IF ~(Measured(used) /\ Measured(limit)) THEN "healthy"
  ELSE IF limit = 0 THEN "healthy"
  ELSE IF 100 * used >= thresholds[2] * limit THEN "critical"
  ELSE IF 100 * used >= thresholds[1] * limit THEN "degraded" ELSE "healthy"

evaluate_resources(read, policy) ==
  IF ~Measured(read["cpu_usage"]) /\ ~Measured(read["memory_usage"]) THEN "unknown"
  ELSE worst({ratio_level(read["cpu_usage"], read["cpu_limit"], policy.use),
              ratio_level(read["memory_usage"], read["memory_limit"], policy.use),
              level(read["cpu_throttling"], THROTTLE)})

\* Publishing no request metrics is a fact about the workload, not a fault in it.
evaluate_application(read, policy) ==
  IF \A s \in APPLICATION_SIGNALS : ~Measured(read[s]) THEN "not_configured"
  ELSE worst({level(read["error_ratio"], policy.errors),
              level(read["latency_p95"], policy.latency)})

\* What the preset does not read is missing.
Through(preset, read) ==
  [s \in SIGNAL_FIELDS |-> IF s \in PRESETS[preset] THEN read[s] ELSE Missing]

Sections(read, policy) ==
  {evaluate_availability(read, policy), evaluate_stability(read, policy),
   evaluate_resources(read, policy), evaluate_application(read, policy)}

\* Stale evidence supports a bad verdict and no good one.
Stalely(status, stale) ==
  IF stale /\ status \in {"healthy", "unknown", "not_configured"} THEN "stale" ELSE status

\* What a read says of its samples: the age of the newest, and whether the query
\* broker served any of them from its own last good answers.
Samples == [age : Ages, served_from_last_good : BOOLEAN]

\* The whole read path of one binding: what stops it before any signal is judged,
\* then the sections. No sample at all is stale, whatever its age would be. Of the
\* reasons, only those the cache asks about are kept.
compute_health(context, answered, samples) ==
  LET policy == HEALTH_POLICIES[context.policy]
      read   == Through(context.preset, answered)
      asked  == {s \in PRESETS[context.preset] : read[s] # NOT_CONFIGURED}
      stale  == \/ \A s \in asked : ~Measured(read[s])
                \/ samples.age > policy.age
                \/ samples.served_from_last_good
  IN  CASE context.lifecycle # "active" -> [status |-> "not_configured", why |-> "binding_disabled"]
        [] context.lifecycle = "active" /\ context.uid = Missing ->
             [status |-> "unknown", why |-> "binding_unresolved"]
        [] OTHER ->
             IF asked = {} THEN [status |-> "not_configured", why |-> "datasource_not_configured"]
             ELSE IF \A s \in asked : read[s] = QUERY_FAILED
               THEN [status |-> "unknown", why |-> "datasource_unavailable"]
             ELSE [status |-> Stalely(worst(Sections(read, policy)), stale),
                   why |-> IF stale THEN "telemetry_stale" ELSE "measured"]

-----------------------------------------------------------------------------
(* bindings.py: the row and those who change it                            *)

Binding ==
  [lifecycle : {"active", "disabled"}, policy : DOMAIN HEALTH_POLICIES,
   preset : DOMAIN PRESETS, uid : Nat \cup {Missing}, revision : Nat]

ASSUME BindingAssumption == Missing \notin Binding

\* The row an onboarding import or an operator creates, once per workload; the
\* unique constraint refuses a second.
create_binding ==
  /\ bound = Missing
  /\ \E policy \in DOMAIN HEALTH_POLICIES, preset \in DOMAIN PRESETS :
       bound' = [lifecycle |-> "active", policy |-> policy, preset |-> preset,
                 uid |-> seenUid, revision |-> 1]
  /\ UNCHANGED <<seenUid, source, fresh, lastGood, edits, views>>

\* A snapshot completes: the workload is seen, perhaps recreated (its row is never
\* deleted), and an unresolved active binding inventory now explains is attached.
resolve_pending_bindings ==
  /\ \E uid \in {seenUid} \cup (1..MaxUid) :
       LET attach == bound # Missing /\ uid # Missing
                       /\ bound.lifecycle = "active" /\ bound.uid = Missing IN
       /\ seenUid # Missing => uid >= seenUid
       /\ attach => bound.revision < MaxRevision
       /\ seenUid' = uid
       /\ bound' = IF attach THEN [bound EXCEPT !.uid = uid, !.revision = @ + 1] ELSE bound
  /\ UNCHANGED <<source, fresh, lastGood, edits, views>>

NoEdit == [pc |-> "idle", expected |-> Missing, was |-> Missing, uid |-> Missing]

\* The operator looks at the binding; the request may carry the revision seen.
ViewBinding(o) ==
  /\ edits[o].pc = "idle" /\ bound # Missing
  /\ \E expected \in {Missing, bound.revision} :
       edits' = [edits EXCEPT ![o] = [NoEdit EXCEPT !.pc = "asking", !.expected = expected]]
  /\ UNCHANGED <<bound, seenUid, source, fresh, lastGood, views>>

\* The SELECT that compares revisions: a conflict ends the request.
CheckRevision(o) ==
  /\ edits[o].pc = "asking"
  /\ edits' = [edits EXCEPT ![o] =
       IF @.expected \notin {Missing, bound.revision} THEN NoEdit
       ELSE [@ EXCEPT !.pc = "checked", !.was = <<bound.policy, bound.preset>>]]
  /\ UNCHANGED <<bound, seenUid, source, fresh, lastGood, views>>

EndEdit(o) == edits' = [edits EXCEPT ![o] = NoEdit]

\* The UPDATE names the row only: whatever was committed since the SELECT is
\* neither compared nor locked.
set_lifecycle(o) ==
  /\ edits[o].pc = "checked" /\ bound.revision < MaxRevision
  /\ \E lifecycle \in {"active", "disabled"} :
       bound' = [bound EXCEPT !.lifecycle = lifecycle, !.revision = @ + 1]
  /\ EndEdit(o) /\ UNCHANGED <<seenUid, source, fresh, lastGood, views>>

\* Nothing is written when the row that was read already says so.
update_binding(o) ==
  /\ edits[o].pc = "checked" /\ bound.revision < MaxRevision
  /\ \E policy \in DOMAIN HEALTH_POLICIES, preset \in DOMAIN PRESETS :
       bound' = IF edits[o].was = <<policy, preset>> THEN bound
                ELSE [bound EXCEPT !.policy = policy, !.preset = preset, !.revision = @ + 1]
  /\ EndEdit(o) /\ UNCHANGED <<seenUid, source, fresh, lastGood, views>>

\* Re-resolution reads inventory, writes what it read (no revision), then drops the
\* fresh verdict of the binding as it is by then.
refresh_resolution(o) ==
  /\ edits[o].pc = "idle" /\ bound # Missing
  /\ edits' = [edits EXCEPT ![o] = [NoEdit EXCEPT !.pc = "resolving", !.uid = seenUid]]
  /\ UNCHANGED <<bound, seenUid, source, fresh, lastGood, views>>

WriteResolution(o) ==
  /\ edits[o].pc = "resolving"
  /\ bound' = [bound EXCEPT !.uid = edits[o].uid]
  /\ edits' = [edits EXCEPT ![o] = [NoEdit EXCEPT !.pc = "resolved"]]
  /\ UNCHANGED <<seenUid, source, fresh, lastGood, views>>

-----------------------------------------------------------------------------
(* cache.py: everything a verdict depends on is in its identity            *)

\* Wrong variant: the resolved workload is left out.
cache_keys_by_revision(row, from) ==
  [revision |-> row.revision, uid |-> Missing, policy |-> row.policy, preset |-> row.preset,
   source |-> from]

cache_keys(row, from) ==
  [revision |-> row.revision, uid |-> row.uid, policy |-> row.policy, preset |-> row.preset,
   source |-> from]

Store(cache, key, verdict) ==
  [k \in DOMAIN cache \cup {key} |-> IF k = key THEN verdict ELSE cache[k]]

ForgetVerdict(cache, key) == [k \in DOMAIN cache \ {key} |-> cache[k]]

invalidate(o) ==
  /\ edits[o].pc = "resolved"
  /\ fresh' = ForgetVerdict(fresh, cache_keys(bound, source))
  /\ EndEdit(o) /\ UNCHANGED <<bound, seenUid, source, lastGood, views>>

\* The time to live of an entry ends, or Redis loses it.
Expire(key) ==
  /\ \/ key \in DOMAIN fresh /\ fresh' = ForgetVerdict(fresh, key) /\ UNCHANGED lastGood
     \/ key \in DOMAIN lastGood /\ lastGood' = ForgetVerdict(lastGood, key) /\ UNCHANGED fresh
  /\ UNCHANGED <<bound, seenUid, source, edits, views>>

\* An operator reconfigures the integration: another identity.
ReconfigureSource ==
  /\ source < MaxSource /\ source' = source + 1
  /\ UNCHANGED <<bound, seenUid, fresh, lastGood, edits, views>>

-----------------------------------------------------------------------------
(* orchestrator.py: one health read                                        *)

NoView == [pc |-> "idle", row |-> Missing, source |-> 0, read |-> Missing, samples |-> Missing,
           answer |-> Missing]

load_context(r) ==
  /\ views[r].pc = "idle" /\ bound # Missing
  /\ views' = [views EXCEPT ![r] = [NoView EXCEPT !.pc = "loaded", !.row = bound, !.source = source]]
  /\ UNCHANGED <<bound, seenUid, source, fresh, lastGood, edits>>

\* A verdict remembers, for the properties, the row and the source it was about.
Verdict(r, read, samples) ==
  [health |-> compute_health(views[r].row, read, samples), row |-> views[r].row,
   source |-> views[r].source]

Served(r, read, samples, answer) ==
  views' = [views EXCEPT ![r].pc = "served", ![r].read = read, ![r].samples = samples,
                         ![r].answer = answer]

\* The fresh verdict, unless a refresh was asked for.
CacheHit(r) ==
  LET key == cache_keys(views[r].row, views[r].source) IN
  /\ views[r].pc = "loaded" /\ key \in DOMAIN fresh
  /\ Served(r, Missing, Missing, fresh[key])
  /\ UNCHANGED <<bound, seenUid, source, fresh, lastGood, edits>>

\* Compute, and store what was computed; a datasource that could not be reached
\* stores nothing and falls back, and stale telemetry is no fallback for later.
\* Redis may be down, which loses the write.
current_health(r, read, samples) ==
  LET key == cache_keys(views[r].row, views[r].source)
      verdict == Verdict(r, read, samples)
      failed == verdict.health.why = "datasource_unavailable"
  IN
  /\ views[r].pc = "loaded"
  /\ \/ /\ ~failed
        /\ Served(r, read, samples, verdict)
        /\ \/ /\ Cardinality(DOMAIN fresh \cup DOMAIN lastGood \cup {key}) <= MaxEntries
              /\ fresh' = Store(fresh, key, verdict)
              /\ lastGood' = IF verdict.health.why = "telemetry_stale" THEN lastGood
                                                              ELSE Store(lastGood, key, verdict)
           \/ UNCHANGED <<fresh, lastGood>>
     \/ /\ failed /\ key \in DOMAIN lastGood
        /\ Served(r, read, samples, [lastGood[key] EXCEPT !.health.status = Stalely(@, TRUE)])
        /\ UNCHANGED <<fresh, lastGood>>
     \/ /\ failed
        /\ Served(r, read, samples, verdict)
        /\ UNCHANGED <<fresh, lastGood>>
  /\ UNCHANGED <<bound, seenUid, source, edits>>

EndView(r) ==
  /\ views[r].pc = "served" /\ views' = [views EXCEPT ![r] = NoView]
  /\ UNCHANGED <<bound, seenUid, source, fresh, lastGood, edits>>

-----------------------------------------------------------------------------
HealthInit ==
  /\ bound = Missing /\ seenUid \in {Missing, 1} /\ source = 0
  /\ fresh = <<>> /\ lastGood = <<>>
  /\ edits = [o \in Editors |-> NoEdit]
  /\ views = [r \in Readers |-> NoView]

HealthNext ==
  \/ create_binding \/ resolve_pending_bindings \/ ReconfigureSource
  \/ \E o \in Editors :
       \/ ViewBinding(o) \/ CheckRevision(o) \/ set_lifecycle(o) \/ update_binding(o)
       \/ refresh_resolution(o) \/ WriteResolution(o) \/ invalidate(o)
  \/ \E r \in Readers :
       \/ load_context(r) \/ CacheHit(r) \/ EndView(r)
       \/ \E read \in Reads, samples \in Samples : current_health(r, read, samples)
  \/ \E key \in DOMAIN fresh \cup DOMAIN lastGood : Expire(key)

HealthSpec == HealthInit /\ [][HealthNext]_healthVars

-----------------------------------------------------------------------------
(* Properties                                                              *)

\* No stale verdict can be addressed: what the cache holds under the identity of the
\* binding as it is now was computed for this lifecycle, workload, policy, preset and
\* datasource, however slow the read that stored it and whatever edits, resolutions
\* and reconfigurations it overlapped.
NoStaleVerdictAddressable ==
  bound # Missing =>
    LET key == cache_keys(bound, source) IN
    \A cache \in {fresh, lastGood} : key \in DOMAIN cache =>
      /\ cache[key].row.lifecycle = bound.lifecycle /\ cache[key].row.uid = bound.uid
      /\ cache[key].row.policy = bound.policy /\ cache[key].row.preset = bound.preset
      /\ cache[key].source = source

Computed(r) == views[r].pc = "served" /\ views[r].read # Missing

Below(v, threshold) == Measured(v) => v < threshold

BelowLimit(used, limit, threshold) ==
  Measured(used) /\ Measured(limit) /\ limit # 0 => 100 * used < threshold * limit

\* "A missing metric is not healthy": a healthy verdict rests on replicas, restarts
\* and usage that were measured, recently and not from the broker's last good answers,
\* and on no measure its preset reads that is past the first threshold of its policy.
HealthyIsEvidenced == \A r \in Readers :
  Computed(r) /\ views[r].answer.health.status = "healthy" =>
    LET policy == HEALTH_POLICIES[views[r].row.policy]
        read   == Through(views[r].row.preset, views[r].read)
    IN
    /\ views[r].row.lifecycle = "active" /\ views[r].row.uid # Missing
    /\ views[r].samples.age <= policy.age /\ ~views[r].samples.served_from_last_good
    /\ Measured(read["desired_replicas"]) /\ Measured(read["ready_replicas"])
    /\ 100 * read["ready_replicas"] >= policy.ready * read["desired_replicas"]
    /\ Measured(read["restarts"]) /\ Below(read["restarts"], policy.restarts[1])
    /\ Measured(read["cpu_usage"]) \/ Measured(read["memory_usage"])
    /\ BelowLimit(read["cpu_usage"], read["cpu_limit"], policy.use[1])
    /\ BelowLimit(read["memory_usage"], read["memory_limit"], policy.use[1])
    /\ Below(read["cpu_throttling"], THROTTLE[1])
    /\ Below(read["error_ratio"], policy.errors[1])
    /\ Below(read["latency_p95"], policy.latency[1])

\* "A failed query is a Drake problem, not a workload problem": had any one signal of
\* this read failed or come back empty, and the samples been of any age without it, the
\* verdict would not have become critical.
LosingASignalAccusesNobody == \A r \in Readers :
  Computed(r) => \A s \in SIGNAL_FIELDS, lost \in {QUERY_FAILED, Missing}, others \in Samples :
    compute_health(views[r].row, [views[r].read EXCEPT ![s] = lost], others).status = "critical"
    => compute_health(views[r].row, views[r].read, views[r].samples).status = "critical"

\* Verdicts need evidence in both directions: to acquit and to accuse
\* (engine.py compute_health).
VerdictsNeedEvidence == HealthyIsEvidenced /\ LosingASignalAccusesNobody

-----------------------------------------------------------------------------
(* Stated by the documents, and not kept by the code: TLC refutes what     *)
(* follows (README, section 6).                                            *)

\* "A stale `expected_revision` is refused with 409 rather than overwriting someone
\* else's edit": an edit that names a revision is made to that revision.
EditsAreNotOverwritten ==
  [][\A o \in Editors :
       edits[o].pc = "checked" /\ edits'[o].pc = "idle" /\ edits[o].expected # Missing
         /\ bound' # bound
         => bound.revision = edits[o].expected]_healthVars
=============================================================================
