------------------------------ MODULE MCSignals ------------------------------
(***************************************************************************)
(* What Drake concludes from the signals it is sent, on small instances    *)
(* side by side: alerts, service level objectives, service health          *)
(* verdicts, data protection and deployments.  They share no state here; a *)
(* behaviour is about one of them, chosen in the initial state, and the    *)
(* others stand still.                                                     *)
(***************************************************************************)
EXTENDS AlertIngest, SloEvaluation, ServiceHealth, Protection, Deployments,
        TLC

CONSTANTS f1, f2, e1, e2, s1, p1, i1

VARIABLE part   \* what this behaviour is about

signalVars == <<part, alertVars, sloVars, healthVars, protectionVars,
                deployVars>>

(* ---- alerts: two fingerprints, one routed by service, one by environment *)
Labels ==
    f1 :> [project |-> NoValue, environment |-> NoValue, service |-> s1,
           cluster |-> NoValue, severity |-> "critical", signal |-> NoValue]
    @@
    f2 :> [project |-> OwnProject, environment |-> e1, service |-> NoValue,
           cluster |-> NoValue, severity |-> "high", signal |-> "protection"]

\* The service runs in one environment, or in two: then its alerts are
\* ambiguous.
OneOrTwoPlaces ==
    {[environments |-> E, services |-> {s1}, clusters |-> {},
      placements |-> {[service |-> s1, environment |-> e] : e \in E}] :
        E \in {{e1}, {e1, e2}}}

\* No alert about protection names the other environment.
WhereItMatters == protection' \subseteq {e1}

(* ---- objectives: series that fail, are aged, good and bad *)
Series ==
    {[kind |-> "failed"], [kind |-> "aged", points |-> <<0, 1>>],
     [kind |-> "ok", points |-> <<2, 0>>], [kind |-> "ok", points |-> <<1, 3>>]}

BurnSeries == {[kind |-> "failed"], [kind |-> "ok", points |-> <<1, 3>>]}

\* The objective is one of availability, until the one with a budget becomes one of
\* latency for good.
LatencyAtLast ==
    definition' # definition =>
        /\ definition.indicator = "availability"
        /\ definition'.indicator = "latency" => 0 \notin {definition.budget, definition'.budget}

(* ---- service health: a good reading, readings with two signals off or   *)
(* two of them lost, and readings that are one answer throughout           *)
Good ==
    [desired_replicas |-> 2, ready_replicas |-> 2, restarts |-> 0,
     cpu_usage |-> 1, cpu_limit |-> 2, memory_usage |-> 1, memory_limit |-> 2,
     cpu_throttling |-> 0, request_rate |-> 5, error_ratio |-> 0,
     latency_p95 |-> 1, freshness |-> 1]

Odd ==
    [desired_replicas |-> {0}, ready_replicas |-> {0, 1}, restarts |-> {2, 6},
     cpu_usage |-> {2}, cpu_limit |-> {0}, memory_usage |-> {2},
     memory_limit |-> {0}, cpu_throttling |-> {30, 60}, request_rate |-> {0},
     error_ratio |-> {3, 20}, latency_p95 |-> {20, 200}, freshness |-> {1}]

OddMeasure == UNION {{<<s, v>> : v \in Odd[s]} : s \in SIGNAL_FIELDS}
NoMeasure == SIGNAL_FIELDS \X {QUERY_FAILED, Missing}

SomeReads ==
    {[Good EXCEPT ![a[1]] = a[2], ![b[1]] = b[2]] : a \in OddMeasure, b \in OddMeasure}
    \cup {[Good EXCEPT ![a[1]] = a[2], ![b[1]] = b[2]] : a \in NoMeasure, b \in NoMeasure}
    \cup {Good, [Good EXCEPT !.ready_replicas = 0]}
    \cup {[s \in SIGNAL_FIELDS |-> answer] :
             answer \in {QUERY_FAILED, NOT_CONFIGURED, Missing}}

(* ---- protection: four stories of one policy's backups *)
Promised ==
    [p \in Policies |-> [rpo |-> 1, ttl |-> 1, offsite |-> TRUE,
                         integrity |-> TRUE]]
AtBinding == [p \in Policies |-> "db"]
AtNoPlace == [p \in Policies |-> Nowhere]
TwoPlaces == {AtBinding, AtNoPlace}

Fact(kind, run, key, value, at, start) ==
    [kind |-> kind, policy |-> p1, run |-> run, key |-> key, value |-> value,
     at |-> at, start |-> start]

Drill(restored, value, at) ==
    [kind |-> "drill", policy |-> p1, run |-> Unbound, key |-> 1, value |-> value,
     at |-> at, start |-> 0, restored |-> restored]

\* A backup is taken and checked, then its artifact and its copy are lost.
LostArtifact ==
    <<Fact("run", 1, 0, "succeeded", 1, 1), Fact("artifact", 1, 1, "present", 1, 0),
      Fact("integrity", 1, 1, "passed", 1, 0), Fact("copy", 1, 1, "present", 1, 0),
      Fact("artifact", 1, 1, "missing", 2, 0), Fact("copy", 1, 1, "failed", 2, 0)>>

\* A run succeeds late, and the drill of its artifact turns out slow.
SlowDrill ==
    <<Fact("run", 1, 0, "started", 1, 1), Fact("run", 1, 0, "succeeded", 2, 1),
      Fact("artifact", 1, 1, "present", 2, 0),
      Drill(Unbound, "passed", 1), Drill(1, "slow", 2)>>

\* A run and a drill fail.
FailingRuns ==
    <<Fact("run", 1, 0, "started", 1, 1), Fact("run", 1, 0, "failed", 2, 1),
      Drill(Unbound, "failed", 2)>>

\* Two runs leave an artifact under one key; the first is checked and copied.
SharedKey ==
    <<Fact("run", 1, 0, "succeeded", 1, 1), Fact("artifact", 1, 1, "present", 1, 0),
      Fact("integrity", 1, 1, "passed", 1, 0), Fact("run", 2, 0, "succeeded", 2, 2),
      Fact("artifact", 2, 1, "present", 2, 0), Fact("copy", 1, 1, "present", 1, 0)>>

FourStories == {LostArtifact, SlowDrill, FailingRuns, SharedKey}

\* One request evaluates at a time; two do so while the run and the drill fail, in the
\* second hour. The policy without a place is the one whose run fails.
FewEvaluateAtOnce ==
    story # FailingRuns \/ place # AtBinding \/ hour' # 2
        => Cardinality({h \in Handlers : handlers'[h] # AtEase}) <= 1

(* ---- deployments: a tag image with labels, a pinned one scaled to zero *)
TwoSpecs ==
    {[desired |-> REPLICAS, pinned |-> FALSE, labelled |-> TRUE],
     [desired |-> 0, pinned |-> TRUE, labelled |-> FALSE]}

\* Two passes overlap over a Deployment with the clock at rest, one of them still at
\* the first generation; or one pass, within its lease, follows a Deployment that keeps
\* its pods as the clock runs, or a DaemonSet that gains nodes and loses pods.  Once
\* the clock runs the workload is only observed.
SmallRollouts ==
    LET was == report.seen  is == report'.seen IN
    /\ minute' > 0 => is = was /\ is.kind = "Deployment"
    /\ is.kind = "Deployment" /\ is.observed = was.observed => is.ready >= was.ready
    /\ is.kind = "DaemonSet" => is.desired >= was.desired
    /\ part = "passes" =>
         /\ minute' = 0 /\ is.available = 0
         /\ \A i \in Ingesters \ {i1} :
              ingesters'[i].pc = "read" => ingesters'[i].row.seen.generation = 1
    /\ part = "deployments" =>
         /\ \A i \in Ingesters \ {i1} : ingesters'[i] = AtHome
         /\ (ingesters'[i1] = AtHome) <=> (cycle' = NoTime)

----------------------------------------------------------------------------
SignalsInit ==
    /\ part \in {"alerts", "objectives", "health", "protection", "deployments", "passes"}
    /\ AlertInit
    /\ part # "alerts" => catalog.environments = {e1}
    /\ SloInit
    /\ definition.indicator = "availability"
    /\ part # "objectives" => definition.budget = 0
    /\ HealthInit
    /\ part # "health" => seenUid = 1
    /\ ProtectionInit
    /\ part # "protection" => story = FailingRuns
    /\ part # "protection" \/ story # FailingRuns => place = AtBinding
    /\ DeployInit
    /\ part # "deployments" => report = FirstReport("Deployment")

SignalsNext ==
    /\ UNCHANGED part
    /\ \/ /\ part = "alerts" /\ AlertNext /\ WhereItMatters
          /\ UNCHANGED <<sloVars, healthVars, protectionVars, deployVars>>
       \/ /\ part = "objectives" /\ SloNext /\ LatencyAtLast
          /\ UNCHANGED <<alertVars, healthVars, protectionVars, deployVars>>
       \/ /\ part = "health" /\ HealthNext
          /\ UNCHANGED <<alertVars, sloVars, protectionVars, deployVars>>
       \/ /\ part = "protection" /\ ProtectionNext /\ FewEvaluateAtOnce
          /\ UNCHANGED <<alertVars, sloVars, healthVars, deployVars>>
       \/ /\ part \in {"deployments", "passes"} /\ DeployNext /\ SmallRollouts
          /\ UNCHANGED <<alertVars, sloVars, healthVars, protectionVars>>

SignalsSpec == SignalsInit /\ [][SignalsNext]_signalVars
=============================================================================
