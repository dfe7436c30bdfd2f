---------------------------- MODULE SignalProofs ----------------------------
(***************************************************************************)
(* Proofs about what Drake concludes from the signals it is sent: the      *)
(* revisions of deployment intelligence, the verdicts of service health    *)
(* with their cache, the judgements of service level objectives and the    *)
(* evidence of data protection, for any number of replicas and requests.   *)
(***************************************************************************)
EXTENDS Deployments, ServiceHealth, SloEvaluation, Protection,
        FiniteSetTheorems, WellFoundedInduction, TLAPS

----------------------------------------------------------------------------
(* Deployments.                                                            *)

Report == [seen : Workload, first : Minutes, at : Minutes]
Pass ==
    [pc : {"idle", "leased", "read", "done"}, row : Report \cup {NoTime}, now : Minutes]

(* A workload that looks complete is one whose replicas were all updated   *)
(* and ready: the controller counts for the generation it has observed.    *)
Earned(w) == Complete(w) => w.generation \in finished

\* The report as it is, and as a pass read it.
Sighting(row) ==
    /\ row \in Report
    /\ row.first = report.first /\ row.first <= row.at /\ row.at <= minute
    /\ Earned(row.seen)

\* A row of deployment_revisions.
IsRevision(r) ==
    /\ r = [rollout |-> r.rollout, evidence |-> r.evidence, digest |-> r.digest,
            started |-> r.started, previous |-> r.previous, completed |-> r.completed,
            health |-> r.health]
    /\ r.health = [verdict |-> r.health.verdict, at |-> r.health.at]
    /\ r.rollout \in RolloutStates /\ r.evidence \in EvidenceStates
    /\ r.health.verdict \in Verdicts \cup {"none"} /\ r.health.at \in Minutes \cup {NoTime}
    /\ r.completed \in Minutes \cup {NoTime}

(* What a row says of the generation g is earned, and it completed no      *)
(* earlier than the workload was first seen.                               *)
Stands(r, g) ==
    /\ r.started = report.first
    /\ r.completed # NoTime => g \in finished /\ r.started <= r.completed
    /\ r.rollout = "healthy" => g \in finished
    /\ r.health.at # NoTime =>
         r.completed # NoTime /\ r.completed + SETTLE + WINDOW <= r.health.at

DeployShape ==
    /\ minute \in Minutes /\ report \in Report
    /\ ingesters \in [Ingesters -> Pass] /\ cycle \in Ingesters \cup {NoTime}
    /\ revisions = [g \in DOMAIN revisions |-> revisions[g]]
    /\ DOMAIN revisions \subseteq Generations
    /\ \A g \in DOMAIN revisions : IsRevision(revisions[g])
    /\ comparing \subseteq Generations

\* The inductive invariant of deployment intelligence.
DeployInv ==
    /\ DeployShape
    /\ report.seen.observed <= report.seen.generation /\ Sighting(report)
    /\ \A i \in Ingesters : ingesters[i].pc = "read" => Sighting(ingesters[i].row)
    /\ \A g \in DOMAIN revisions : Stands(revisions[g], g)
    /\ \A g \in comparing :
         /\ g \in DOMAIN revisions /\ revisions[g].completed # NoTime
         /\ revisions[g].completed + CLOSED_AFTER < minute

\* The invariant holds initially.
LEMMA DeployInitially == DeployInit => DeployInv
<1> SUFFICES ASSUME DeployInit
             PROVE  DeployInv
  OBVIOUS
<1> USE DeploymentAssumption DEF DeploymentAssumption
<1>1. 0 \in Minutes /\ 1 \in Generations
  BY DEF Minutes, Generations
<1>2. PICK kind \in WorkloadKinds : report = FirstReport(kind)
  BY DEF DeployInit
<1>3. report \in Report
  <2>1. FirstWorkload(kind) \in Workload
    BY <1>1 DEF FirstWorkload, Workload, Generations
  <2> QED
    BY <1>1, <1>2, <2>1 DEF FirstReport, Report
<1>4. AtHome \in Pass /\ AtHome.pc = "idle"
  BY <1>1 DEF AtHome, Pass
<1>5. ingesters \in [Ingesters -> Pass] /\ \A i \in Ingesters : ingesters[i].pc # "read"
  BY <1>4 DEF DeployInit
<1>6. DOMAIN revisions = {}
  BY DEF DeployInit
<1>7. revisions = [g \in DOMAIN revisions |-> revisions[g]]
  BY DEF DeployInit
<1>8. DeployShape
  BY <1>1, <1>3, <1>5, <1>6, <1>7 DEF DeployInit, DeployShape
<1>9. report.seen.observed <= report.seen.generation /\ Sighting(report)
  BY <1>2, <1>3 DEF DeployInit, FirstReport, FirstWorkload, Sighting, Earned, Complete,
     generation_observed
<1> QED
  BY <1>5, <1>6, <1>8, <1>9 DEF DeployInv, DeployInit

(* A report that shows what is earned, when nothing that is on record is   *)
(* undone and time does not go back, keeps the invariant.                  *)
LEMMA WorldMoves ==
    ASSUME DeployInv, report' \in Report, minute' \in Minutes, minute <= minute',
           report'.first = report.first, report.at <= report'.at, report'.at <= minute',
           report'.seen.observed <= report'.seen.generation,
           finished \subseteq finished', Earned(report.seen)',
           UNCHANGED <<revisions, ingesters, cycle, comparing>>
    PROVE  DeployInv'
<1> USE DeploymentAssumption DEF DeploymentAssumption
<1>1. minute \in Nat /\ minute' \in Nat
  BY DEF DeployInv, DeployShape, Minutes
<1>2. DeployShape'
  BY DEF DeployInv, DeployShape
<1>3. /\ report.first \in Nat /\ report.at \in Nat /\ report'.at \in Nat
      /\ report.first <= report.at
  BY DEF DeployInv, DeployShape, Report, Minutes, Sighting
<1>4. Sighting(report)'
  BY <1>1, <1>3 DEF Sighting
<1>5. ASSUME NEW i \in Ingesters, ingesters[i].pc = "read"
      PROVE  Sighting(ingesters[i].row)'
  <2>1. Sighting(ingesters[i].row) /\ ingesters[i].row.at \in Nat
    BY <1>5 DEF DeployInv, Sighting, Report, Minutes
  <2> QED
    BY <1>1, <2>1 DEF Sighting, Earned
<1>6. ASSUME NEW g \in DOMAIN revisions
      PROVE  Stands(revisions[g], g)'
  BY DEF DeployInv, Stands
<1>7. ASSUME NEW g \in comparing
      PROVE  /\ g \in DOMAIN revisions /\ revisions[g].completed # NoTime
             /\ revisions[g].completed + CLOSED_AFTER < minute'
  <2>1. /\ g \in DOMAIN revisions /\ revisions[g].completed # NoTime
        /\ revisions[g].completed + CLOSED_AFTER < minute
    BY DEF DeployInv
  <2>2. revisions[g].completed \in Minutes
    <3>1. IsRevision(revisions[g])
      BY <2>1 DEF DeployInv, DeployShape
    <3> QED
      BY <2>1, <3>1 DEF IsRevision
  <2>3. revisions[g].completed \in Nat
    BY <2>2 DEF Minutes
  <2> QED
    BY <1>1, <2>1, <2>3
<1> QED
  BY <1>2, <1>4, <1>5, <1>6, <1>7 DEF DeployInv

\* Time, a new generation, and the controller at work.
LEMMA WorldStep ==
    ASSUME DeployInv, Tick \/ NewGeneration \/ ControllerSteps
    PROVE  DeployInv'
<1> USE DeploymentAssumption DEF DeploymentAssumption
<1>1. UNCHANGED <<revisions, ingesters, cycle, comparing>>
  BY DEF Tick, NewGeneration, ControllerSteps, DrakeWaits
<1> report \in Report /\ minute \in Minutes /\ minute \in Nat
  BY DEF DeployInv, DeployShape, Minutes
<1>2. /\ report.first \in Nat /\ report.at \in Nat /\ report.at <= minute
      /\ report.seen \in Workload /\ report.seen.observed <= report.seen.generation
      /\ Earned(report.seen)
  BY DEF DeployInv, DeployShape, Report, Minutes, Sighting
<1>3. CASE Tick
  <2>1. minute' = minute + 1 /\ minute' \in Minutes /\ UNCHANGED <<report, finished>>
    BY <1>1, <1>3 DEF Tick, Minutes
  <2>2. Earned(report.seen)'
    BY <1>2, <2>1 DEF Earned
  <2> QED
    BY <1>1, <1>2, <2>1, <2>2, WorldMoves
<1> DEFINE w == report.seen
           v == report'.seen
<1>4. /\ w.generation \in Generations /\ w.desired \in {0, REPLICAS} /\ w.observed \in Nat
      /\ w.updated \in 0..REPLICAS /\ w.ready \in 0..REPLICAS /\ w.generation \in Nat
      /\ w.available \in 0..REPLICAS
  BY <1>2 DEF Workload, Generations
<1>5. CASE NewGeneration
  <2> DEFINE asked(spec) == [w EXCEPT !.generation = w.generation + 1, !.pinned = spec.pinned,
                !.labelled = spec.labelled,
                !.desired = IF w.kind = "DaemonSet" THEN @ ELSE spec.desired]
  <2>1. PICK spec \in Specs : Reported(asked(spec))
    BY <1>5 DEF NewGeneration
  <2>2. w.generation + 1 \in Generations /\ UNCHANGED <<minute, finished>>
    BY <1>5 DEF NewGeneration
  <2> DEFINE n == asked(spec)
  <2>3. n \in Workload /\ n.generation = w.generation + 1 /\ n.observed = w.observed
    BY <1>2, <1>4, <2>2 DEF Workload
  <2>4. Reported(n)
    BY <2>1
  <2> HIDE DEF n
  <2>4a. report' \in Report /\ report'.first = report.first /\ report'.at = minute /\ v = n
    BY <1>1, <2>3, <2>4 DEF Reported, Report
  <2>5. v.observed <= v.generation /\ ~generation_observed(v)
    BY <1>2, <1>4, <2>3, <2>4a DEF generation_observed
  <2>6. Earned(report.seen)'
    BY <2>5 DEF Earned, Complete
  <2> QED
    BY <1>1, <1>2, <2>2, <2>4a, <2>5, <2>6, WorldMoves
<1>6. CASE ControllerSteps
  <2>1. PICK n : Reported(n) /\ n \in Workload /\ n.observed <= n.generation
    <3>1. CASE /\ w.observed < w.generation
               /\ Reported([w EXCEPT !.observed = w.generation, !.updated = 0, !.failing = FALSE,
                     !.ready = AtMost(@, w.desired), !.available = AtMost(@, w.desired)])
      <4> DEFINE n == [w EXCEPT !.observed = w.generation, !.updated = 0, !.failing = FALSE,
                     !.ready = AtMost(@, w.desired), !.available = AtMost(@, w.desired)]
      <4>1. /\ w.generation \in 0..MaxGeneration /\ 0 \in 0..REPLICAS
            /\ AtMost(w.ready, w.desired) \in 0..REPLICAS
            /\ AtMost(w.available, w.desired) \in 0..REPLICAS
        BY <1>4 DEF Generations, AtMost
      <4>2. n \in Workload /\ n.observed = w.generation /\ n.generation = w.generation
        BY <1>2, <1>4, <4>1 DEF Workload
      <4>3. Reported(n)
        BY <3>1
      <4> HIDE DEF n
      <4> QED
        BY <1>4, <4>2, <4>3
    <3>2. CASE /\ w.observed = w.generation /\ w.updated < w.desired
               /\ Reported([w EXCEPT !.updated = w.updated + 1,
                                     !.ready = IF @ < w.updated + 1 THEN w.updated + 1 ELSE @,
                                     !.pods = IF w.updated + 1 = w.desired THEN {w.generation}
                                              ELSE @ \cup {w.generation}])
      <4> DEFINE up == w.updated + 1
                 n == [w EXCEPT !.updated = up, !.ready = IF @ < up THEN up ELSE @,
                                !.pods = IF up = w.desired THEN {w.generation}
                                         ELSE @ \cup {w.generation}]
      <4>1. up \in 0..REPLICAS
        BY <1>4, <3>2
      <4> HIDE DEF up
      <4>2. n \in Workload /\ n.observed = w.observed /\ n.generation = w.generation
        BY <1>2, <1>4, <4>1 DEF Workload
      <4> QED
        BY <1>2, <3>2, <4>2 DEF up
    <3>3. CASE Reported([w EXCEPT !.failing = TRUE])
      <4> DEFINE n == [w EXCEPT !.failing = TRUE]
      <4>1. n \in Workload /\ n.observed = w.observed /\ n.generation = w.generation
        BY <1>2, <1>4 DEF Workload
      <4> QED
        BY <1>2, <3>3, <4>1
    <3>4. CASE w.ready > 0 /\ Reported([w EXCEPT !.ready = @ - 1,
                                                 !.available = AtMost(@, w.ready - 1)])
      <4> DEFINE n == [w EXCEPT !.ready = @ - 1, !.available = AtMost(@, w.ready - 1)]
      <4>1. w.ready - 1 \in 0..REPLICAS /\ AtMost(w.available, w.ready - 1) \in 0..REPLICAS
        BY <1>4, <3>4 DEF AtMost
      <4>2. n \in Workload /\ n.observed = w.observed /\ n.generation = w.generation
        BY <1>2, <1>4, <4>1 DEF Workload
      <4> QED
        BY <1>2, <3>4, <4>2
    <3>5. CASE w.ready < w.updated /\ Reported([w EXCEPT !.ready = @ + 1])
      <4> DEFINE n == [w EXCEPT !.ready = @ + 1]
      <4>1. n \in Workload /\ n.observed = w.observed /\ n.generation = w.generation
        BY <1>2, <1>4, <3>5 DEF Workload
      <4> QED
        BY <1>2, <3>5, <4>1
    <3>7. CASE w.available < w.ready /\ Reported([w EXCEPT !.available = @ + 1])
      <4> DEFINE n == [w EXCEPT !.available = @ + 1]
      <4>1. n \in Workload /\ n.observed = w.observed /\ n.generation = w.generation
        BY <1>2, <1>4, <3>7 DEF Workload
      <4> QED
        BY <1>2, <3>7, <4>1
    <3>8. ASSUME NEW nodes \in {0, REPLICAS} \ {w.desired},
                 Reported([w EXCEPT !.desired = nodes, !.updated = 0, !.ready = 0,
                                    !.available = 0])
          PROVE  \E n : Reported(n) /\ n \in Workload /\ n.observed <= n.generation
      <4> DEFINE n == [w EXCEPT !.desired = nodes, !.updated = 0, !.ready = 0, !.available = 0]
      <4>1. 0 \in 0..REPLICAS
        OBVIOUS
      <4>2. n \in Workload /\ n.observed = w.observed /\ n.generation = w.generation
        BY <1>2, <1>4, <4>1 DEF Workload
      <4> QED
        BY <1>2, <3>8, <4>2
    <3>6. CASE Reported(w)
      BY <1>2, <3>6
    <3> QED
      BY <1>6, <3>1, <3>2, <3>3, <3>4, <3>5, <3>6, <3>7, <3>8 DEF ControllerSteps
  <2>2. /\ report' \in Report /\ report'.first = report.first /\ report'.at = minute /\ v = n
        /\ UNCHANGED minute
    BY <1>1, <1>6, <2>1 DEF Reported, Report, ControllerSteps
  <2>3. finished' = IF RolledOut(v) THEN finished \cup {v.generation} ELSE finished
    BY <1>6 DEF ControllerSteps
  <2>4. Complete(v) => RolledOut(v)
    <3>1. /\ v.generation \in Nat /\ v.observed \in Nat /\ v.desired \in {0, REPLICAS}
          /\ v.updated \in 0..REPLICAS /\ v.ready \in 0..REPLICAS
          /\ v.available \in 0..REPLICAS
      BY <2>1, <2>2 DEF Workload, Generations
    <3> QED
      BY <2>1, <2>2, <3>1 DEF Complete, RolledToEnd, Counted, RolledOut, generation_observed
  <2>5. Earned(report.seen)' /\ finished \subseteq finished'
    BY <2>3, <2>4 DEF Earned, Complete, generation_observed
  <2> QED
    BY <1>1, <1>2, <2>1, <2>2, <2>5, WorldMoves
<1> QED
  BY <1>3, <1>5, <1>6

\* The lease and what a pass reads.
LEMMA PassStep ==
    ASSUME DeployInv,
           \/ \E i \in Ingesters : run_ingest_cycle(i) \/ workload_rows(i) \/ EndCycle(i)
           \/ LeaseRunsOut
    PROVE  DeployInv'
<1> USE DeploymentAssumption DEF DeploymentAssumption
<1>1. /\ minute \in Minutes /\ report \in Report /\ ingesters \in [Ingesters -> Pass]
      /\ cycle \in Ingesters \cup {NoTime}
  BY DEF DeployInv, DeployShape
<1>2. UNCHANGED <<minute, report, finished, revisions, comparing>>
  BY DEF run_ingest_cycle, workload_rows, EndCycle, LeaseRunsOut, Outside
<1>3. AtHome \in Pass /\ AtHome.pc = "idle"
  BY DEF AtHome, Pass, Minutes
<1>4. /\ ingesters' \in [Ingesters -> Pass] /\ cycle' \in Ingesters \cup {NoTime}
      /\ \A i \in Ingesters : ingesters'[i].pc = "read" =>
           ingesters'[i].row = report \/ ingesters'[i] = ingesters[i]
  <2>1. ASSUME NEW i \in Ingesters, run_ingest_cycle(i)
        PROVE  <1>4
    <3>1. ingesters' = [ingesters EXCEPT ![i].pc = "leased"] /\ cycle' = i
      BY <2>1 DEF run_ingest_cycle
    <3> QED
      BY <1>1, <3>1 DEF Pass
  <2>2. ASSUME NEW i \in Ingesters, workload_rows(i)
        PROVE  <1>4
    <3> DEFINE p == [pc |-> "read", row |-> report, now |-> minute]
    <3>1. p \in Pass /\ p.row = report
      BY <1>1 DEF Pass
    <3>2. ingesters' = [ingesters EXCEPT ![i] = p] /\ cycle' = cycle
      BY <2>2 DEF workload_rows
    <3> HIDE DEF p
    <3> QED
      BY <1>1, <3>1, <3>2
  <2>3. ASSUME NEW i \in Ingesters, EndCycle(i)
        PROVE  <1>4
    BY <1>1, <1>3, <2>3 DEF EndCycle
  <2>4. CASE LeaseRunsOut
    BY <1>1, <1>3, <2>4 DEF LeaseRunsOut
  <2> QED
    BY <2>1, <2>2, <2>3, <2>4
<1>5. DeployShape'
  BY <1>2, <1>4 DEF DeployInv, DeployShape
<1>6. \A i \in Ingesters : ingesters'[i].pc = "read" => Sighting(ingesters[i].row)'
  BY <1>2, <1>4 DEF DeployInv, Sighting, Earned
<1>7. \A g \in DOMAIN revisions : Stands(revisions[g], g)'
  BY <1>2 DEF DeployInv, Stands
<1>8. Sighting(report)'
  BY <1>2 DEF DeployInv, Sighting, Earned
<1> QED
  BY <1>2, <1>5, <1>6, <1>7, <1>8 DEF DeployInv

\* A comparison takes one revision off the list; it was read after the
\* window of that revision had closed.
LEMMA CompareStep ==
    ASSUME DeployInv, compare_pending \/ \E g \in Generations : CompareOne(g)
    PROVE  DeployInv'
<1> USE DeploymentAssumption DEF DeploymentAssumption
<1>1. UNCHANGED <<minute, report, finished, ingesters, cycle>> /\ minute \in Nat
  BY DEF compare_pending, CompareOne, Outside, DeployInv, DeployShape, Minutes
<1>2. CASE compare_pending
  <2>1. UNCHANGED revisions
    BY <1>2 DEF compare_pending
  <2>2. \A g \in comparing' : g \in DOMAIN revisions /\ Comparable(revisions[g])
    BY <1>2 DEF compare_pending
  <2>3. DeployShape'
    BY <1>1, <2>1, <2>2 DEF DeployInv, DeployShape
  <2>4. \A g \in DOMAIN revisions : Stands(revisions[g], g)'
    BY <1>1, <2>1 DEF DeployInv, Stands
  <2>5. \A i \in Ingesters : ingesters[i].pc = "read" => Sighting(ingesters[i].row)'
    BY <1>1 DEF DeployInv, Sighting, Earned
  <2>6. Sighting(report)'
    BY <1>1 DEF DeployInv, Sighting, Earned
  <2> QED
    BY <1>1, <2>1, <2>2, <2>3, <2>4, <2>5, <2>6 DEF DeployInv, Comparable
<1>3. ASSUME NEW g \in Generations, CompareOne(g)
      PROVE  DeployInv'
  <2>1. /\ g \in DOMAIN revisions /\ revisions[g].completed # NoTime
        /\ revisions[g].completed + CLOSED_AFTER < minute
        /\ IsRevision(revisions[g]) /\ Stands(revisions[g], g)
    BY <1>3 DEF CompareOne, DeployInv, DeployShape
  <2>2. comparing' = comparing \ {g}
    BY <1>3 DEF CompareOne
  <2>3. CASE UNCHANGED revisions
    <3>1. DeployShape'
      BY <1>1, <2>2, <2>3 DEF DeployInv, DeployShape
    <3>2. \A h \in DOMAIN revisions : Stands(revisions[h], h)'
      BY <1>1, <2>3 DEF DeployInv, Stands
    <3>3. \A i \in Ingesters : ingesters[i].pc = "read" => Sighting(ingesters[i].row)'
      BY <1>1 DEF DeployInv, Sighting, Earned
    <3>4. Sighting(report)'
      BY <1>1 DEF DeployInv, Sighting, Earned
    <3> QED
      BY <1>1, <2>2, <2>3, <3>1, <3>2, <3>3, <3>4 DEF DeployInv
  <2>4. ASSUME NEW directions \in SUBSET Measurements, NEW disrupted \in BOOLEAN,
               revisions' = [revisions EXCEPT ![g].health =
                               [verdict |-> decide(directions, disrupted), at |-> minute]]
        PROVE  DeployInv'
    <3> DEFINE verdict == decide(directions, disrupted)
    <3>1. verdict \in Verdicts
      BY DEF decide, Verdicts
    <3> HIDE DEF verdict
    <3> DEFINE r == [revisions[g] EXCEPT !.health = [verdict |-> verdict, at |-> minute]]
    <3>2. /\ r.started = revisions[g].started /\ r.completed = revisions[g].completed
          /\ r.rollout = revisions[g].rollout /\ r.evidence = revisions[g].evidence
          /\ r.previous = revisions[g].previous /\ r.digest = revisions[g].digest
          /\ r.health = [verdict |-> verdict, at |-> minute]
      BY <2>1 DEF IsRevision
    <3>3. r = [rollout |-> r.rollout, evidence |-> r.evidence, digest |-> r.digest,
               started |-> r.started, previous |-> r.previous, completed |-> r.completed,
               health |-> r.health]
      BY <2>1, <3>2 DEF IsRevision
    <3>4. /\ DOMAIN revisions' = DOMAIN revisions /\ revisions'[g] = r
          /\ \A h \in DOMAIN revisions \ {g} : revisions'[h] = revisions[h]
          /\ revisions' = [h \in DOMAIN revisions' |-> revisions'[h]]
      BY <2>1, <2>4 DEF verdict
    <3> HIDE DEF r
    <3>5. IsRevision(r)
      BY <1>1, <2>1, <3>1, <3>2, <3>3 DEF IsRevision, DeployInv, DeployShape
    <3>6. r.started \in Nat /\ r.completed \in Nat /\ r.started <= r.completed
      BY <2>1, <3>2 DEF Stands, IsRevision, Minutes, DeployInv, DeployShape, Report
    <3>7. r.completed # NoTime /\ r.completed + SETTLE + WINDOW <= minute
      BY <1>1, <2>1, <3>2, <3>6
    <3>8. Stands(revisions[g], g)'
      BY <1>1, <2>1, <3>2, <3>4, <3>7 DEF Stands
    <3>9. DeployShape'
      BY <1>1, <2>2, <3>4, <3>5 DEF DeployInv, DeployShape
    <3>10. \A h \in DOMAIN revisions \ {g} : Stands(revisions[h], h)'
      BY <1>1, <3>4 DEF DeployInv, Stands
    <3>11. \A i \in Ingesters : ingesters[i].pc = "read" => Sighting(ingesters[i].row)'
      BY <1>1 DEF DeployInv, Sighting, Earned
    <3>12. Sighting(report)'
      BY <1>1 DEF DeployInv, Sighting, Earned
    <3> QED
      BY <1>1, <2>2, <3>2, <3>4, <3>8, <3>9, <3>10, <3>11, <3>12 DEF DeployInv
  <2> QED
    BY <1>3, <2>3, <2>4 DEF CompareOne
<1> QED
  BY <1>2, <1>3

\* What a pass writes of the workload it read: a rollout is called healthy
\* or completed only for a generation that was.
LEMMA IngestStep ==
    ASSUME DeployInv, NEW i \in Ingesters, ingest_workload(i)
    PROVE  DeployInv'
<1> USE DeploymentAssumption DEF DeploymentAssumption
<1> DEFINE row == ingesters[i].row
           w == row.seen
           g == w.generation
           completed == IF Complete(w) THEN row.at ELSE NoTime
<1>1. /\ ingesters[i] \in Pass /\ row \in Report /\ w \in Workload /\ g \in Generations
      /\ row.at \in Minutes /\ row.first \in Nat /\ row.at \in Nat
      /\ Sighting(row)
  BY DEF DeployInv, DeployShape, Sighting, Pass, Report, Workload, Minutes, ingest_workload
<1>2. /\ UNCHANGED <<minute, report, finished, cycle, comparing>>
      /\ ingesters' = [ingesters EXCEPT ![i] = [AtHome EXCEPT !.pc = "done"]]
  BY DEF ingest_workload, Outside
<1> DEFINE known == g \in DOMAIN revisions
           written(running) ==
             [rollout |-> evaluate_rollout(w, row.first, ingesters[i].now),
              evidence |-> evaluate_evidence(w, running),
              digest |-> primary_digest(w, running),
              started |-> IF known THEN revisions[g].started ELSE row.first,
              previous |-> IF known THEN revisions[g].previous ELSE previous_revision(g),
              completed |-> IF known THEN RecordedOnce(revisions[g].completed, completed)
                            ELSE completed,
              health |-> IF known THEN revisions[g].health
                         ELSE [verdict |-> "none", at |-> NoTime]]
<1>3. PICK running \in {NoTime} \cup report.seen.pods :
         revisions' = [h \in DOMAIN revisions \cup {g} |->
                         IF h = g THEN written(running) ELSE revisions[h]]
  <2>1. PICK running \in (IF report.seen.pods = {} THEN {NoTime} ELSE report.seen.pods) :
         revisions' = [h \in DOMAIN revisions \cup {g} |->
                         IF h = g THEN written(running) ELSE revisions[h]]
    BY DEF ingest_workload
  <2> HIDE DEF written
  <2> QED
    BY <2>1
<1>4. evaluate_rollout(w, row.first, ingesters[i].now) \in RolloutStates
  BY DEF evaluate_rollout, RolloutStates, Complete
<1>5. evaluate_rollout(w, row.first, ingesters[i].now) = "healthy" => Complete(w)
  BY DEF evaluate_rollout, Complete
<1>6. evaluate_evidence(w, running) \in EvidenceStates
  BY DEF evaluate_evidence, EvidenceStates
<1> DEFINE r == written(running)
<1>7. /\ r.rollout \in RolloutStates /\ r.evidence \in EvidenceStates
      /\ r.rollout = "healthy" => Complete(w)
  BY <1>4, <1>5, <1>6
<1>8. /\ completed \in Minutes \cup {NoTime}
      /\ completed # NoTime => Complete(w) /\ completed = row.at
  BY <1>1
<1> HIDE DEF completed
<1>9. Complete(w) => g \in finished
  BY <1>1 DEF Sighting, Earned
<1>10. /\ r.started = report.first /\ r.completed \in Minutes \cup {NoTime}
       /\ r.completed # NoTime => g \in finished /\ r.started <= r.completed
       /\ r.health = [verdict |-> r.health.verdict, at |-> r.health.at]
       /\ r.health.verdict \in Verdicts \cup {"none"} /\ r.health.at \in Minutes \cup {NoTime}
       /\ r.health.at # NoTime =>
            r.completed # NoTime /\ r.completed + SETTLE + WINDOW <= r.health.at
       /\ known /\ revisions[g].completed # NoTime => r.completed = revisions[g].completed
  <2>1. CASE ~known
    <3>1. /\ r.started = row.first /\ r.completed = completed
          /\ r.health = [verdict |-> "none", at |-> NoTime]
      BY <2>1
    <3> QED
      BY <1>1, <1>8, <1>9, <2>1, <3>1 DEF Sighting
  <2>2. CASE known
    <3>1. /\ r.started = revisions[g].started
          /\ r.completed = RecordedOnce(revisions[g].completed, completed)
          /\ r.health = revisions[g].health
      BY <2>2
    <3>2. IsRevision(revisions[g]) /\ Stands(revisions[g], g)
      BY <2>2 DEF DeployInv, DeployShape
    <3>3. r.health = [verdict |-> r.health.verdict, at |-> r.health.at]
      BY <3>1, <3>2 DEF IsRevision
    <3>4. r.started = report.first /\ r.completed \in {revisions[g].completed, completed}
      BY <3>1, <3>2 DEF Stands, RecordedOnce
    <3> QED
      BY <1>1, <1>8, <1>9, <3>1, <3>2, <3>3, <3>4 DEF Sighting, Stands, IsRevision, RecordedOnce
  <2> QED
    BY <2>1, <2>2
<1>11. r = [rollout |-> r.rollout, evidence |-> r.evidence, digest |-> r.digest,
            started |-> r.started, previous |-> r.previous, completed |-> r.completed,
            health |-> r.health]
  OBVIOUS
<1> HIDE DEF written
<1>12. IsRevision(r)
  BY <1>7, <1>10, <1>11 DEF IsRevision
<1>13. /\ DOMAIN revisions' = DOMAIN revisions \cup {g} /\ revisions'[g] = r
       /\ \A h \in DOMAIN revisions \ {g} : revisions'[h] = revisions[h]
       /\ revisions' = [h \in DOMAIN revisions' |-> revisions'[h]]
  BY <1>3
<1>14. /\ ingesters' \in [Ingesters -> Pass]
       /\ \A j \in Ingesters : ingesters'[j].pc = "read" => ingesters'[j] = ingesters[j]
  <2>1. [AtHome EXCEPT !.pc = "done"] \in Pass /\ [AtHome EXCEPT !.pc = "done"].pc = "done"
    BY DEF AtHome, Pass, Minutes
  <2> QED
    BY <1>2, <2>1 DEF DeployInv, DeployShape
<1>15. DeployShape'
  BY <1>1, <1>2, <1>12, <1>13, <1>14 DEF DeployInv, DeployShape
<1>16. ASSUME NEW h \in {g}
       PROVE  Stands(revisions[h], h)'
  BY <1>2, <1>7, <1>9, <1>10, <1>13 DEF Stands
<1>17. \A h \in DOMAIN revisions \ {g} : Stands(revisions[h], h)'
  BY <1>2, <1>13 DEF DeployInv, Stands
<1>18. \A j \in Ingesters : ingesters'[j].pc = "read" => Sighting(ingesters[j].row)'
  BY <1>2, <1>14 DEF DeployInv, Sighting, Earned
<1>19. Sighting(report)'
  BY <1>2 DEF DeployInv, Sighting, Earned
<1>20. ASSUME NEW h \in comparing'
       PROVE  /\ h \in DOMAIN revisions' /\ revisions'[h].completed # NoTime
              /\ revisions'[h].completed + CLOSED_AFTER < minute'
  <2>1. /\ h \in DOMAIN revisions /\ revisions[h].completed # NoTime
        /\ revisions[h].completed + CLOSED_AFTER < minute
    BY <1>2, <1>20 DEF DeployInv
  <2>2. revisions'[h].completed = revisions[h].completed
    BY <1>10, <1>13, <2>1
  <2> QED
    BY <1>2, <1>13, <2>1, <2>2
<1> QED
  BY <1>2, <1>13, <1>15, <1>16, <1>17, <1>18, <1>19, <1>20 DEF DeployInv

\* Every step keeps the invariant.
LEMMA DeployStep ==
    DeployInv /\ [DeployNext]_deployVars => DeployInv'
<1> SUFFICES ASSUME DeployInv, [DeployNext]_deployVars
             PROVE  DeployInv'
  OBVIOUS
<1>1. CASE UNCHANGED deployVars
  BY <1>1 DEF deployVars, DeployInv, DeployShape, Sighting, Earned, Stands
<1>2. CASE DeployNext
  BY <1>2, WorldStep, PassStep, CompareStep, IngestStep DEF DeployNext
<1> QED
  BY <1>1, <1>2

\* For any number of replicas whose passes overlap: a generation recorded as
\* rolled out really was, and a comparison of health looks at a window that
\* had closed (deployments/ingest.py ingest_workload, worker.py).
THEOREM RevisionsAreTrue == DeploySpec => []RevisionsClaimFacts
<1>1. DeployInv => RevisionsClaimFacts
  <2> SUFFICES ASSUME DeployInv
               PROVE  RevisionsClaimFacts
    OBVIOUS
  <2>1. DeployTypeOK
    BY DEF DeployInv, DeployShape, DeployTypeOK, IsRevision, Report
  <2>2. CompletedWasRolledOut /\ ComparedWhenClosed
    BY DEF DeployInv, Stands, CompletedWasRolledOut, ComparedWhenClosed
  <2> QED
    BY <2>1, <2>2 DEF RevisionsClaimFacts
<1> QED
  BY <1>1, DeployInitially, DeployStep, PTL DEF DeploySpec

\* The start, the completion and the predecessor of a generation stay as
\* first recorded, whatever pass writes it again.
THEOREM DeploymentHistoryStands == DeploySpec => HistoryStands
<1>1. DeployInv /\ [DeployNext]_deployVars =>
        [\A g \in DOMAIN revisions :
           /\ g \in DOMAIN revisions'
           /\ revisions'[g].started = revisions[g].started
           /\ revisions'[g].previous = revisions[g].previous
           /\ revisions[g].completed # NoTime =>
                revisions'[g].completed = revisions[g].completed]_deployVars
  <2> SUFFICES ASSUME DeployInv, DeployNext, NEW g \in DOMAIN revisions
               PROVE  /\ g \in DOMAIN revisions'
                      /\ revisions'[g].started = revisions[g].started
                      /\ revisions'[g].previous = revisions[g].previous
                      /\ revisions[g].completed # NoTime =>
                           revisions'[g].completed = revisions[g].completed
    OBVIOUS
  <2>1. ASSUME NEW i \in Ingesters, ingest_workload(i)
        PROVE  /\ g \in DOMAIN revisions'
               /\ revisions'[g].started = revisions[g].started
               /\ revisions'[g].previous = revisions[g].previous
               /\ revisions[g].completed # NoTime =>
                    revisions'[g].completed = revisions[g].completed
    BY <2>1 DEF ingest_workload, RecordedOnce
  <2>2. ASSUME NEW h \in Generations, CompareOne(h)
        PROVE  /\ g \in DOMAIN revisions'
               /\ revisions'[g].started = revisions[g].started
               /\ revisions'[g].previous = revisions[g].previous
               /\ revisions'[g].completed = revisions[g].completed
    <3>1. IsRevision(revisions[g]) /\ revisions = [k \in DOMAIN revisions |-> revisions[k]]
      BY DEF DeployInv, DeployShape
    <3>2. CASE UNCHANGED revisions
      BY <3>2
    <3>3. ASSUME NEW health, revisions' = [revisions EXCEPT ![h].health = health]
          PROVE  /\ g \in DOMAIN revisions'
                 /\ revisions'[g].started = revisions[g].started
                 /\ revisions'[g].previous = revisions[g].previous
                 /\ revisions'[g].completed = revisions[g].completed
      BY <3>1, <3>3 DEF IsRevision
    <3> QED
      BY <2>2, <3>2, <3>3 DEF CompareOne
  <2>3. CASE UNCHANGED revisions
    BY <2>3
  <2> QED
    BY <2>1, <2>2, <2>3 DEF DeployNext, Tick, NewGeneration, ControllerSteps, DrakeWaits,
       run_ingest_cycle, workload_rows, EndCycle, LeaseRunsOut, compare_pending
<1> QED
  BY <1>1, DeployInitially, DeployStep, PTL DEF DeploySpec, HistoryStands

----------------------------------------------------------------------------
(* Service health.                                                         *)

Judgement ==
  [status : DOMAIN SEVERITY,
   why : {"binding_disabled", "binding_unresolved", "datasource_not_configured",
          "datasource_unavailable", "telemetry_stale", "measured"}]

Statuses == {"not_configured", "healthy", "unknown", "stale", "degraded", "critical"}

\* The severities of the six statuses.
LEMMA Severities ==
    /\ DOMAIN SEVERITY = Statuses
    /\ SEVERITY["not_configured"] = 0 /\ SEVERITY["healthy"] = 1 /\ SEVERITY["unknown"] = 2
    /\ SEVERITY["stale"] = 3 /\ SEVERITY["degraded"] = 4 /\ SEVERITY["critical"] = 5
  BY DEF SEVERITY, Statuses

\* The worst of some statuses is one of them, and none of them is worse.
LEMMA WorstIsWorst ==
    ASSUME NEW S, S \subseteq Statuses, S # {}
    PROVE  worst(S) \in S /\ \A t \in S : SEVERITY[t] <= SEVERITY[worst(S)]
<1>1. \E s \in S : \A t \in S : SEVERITY[t] <= SEVERITY[s]
  <2>1. CASE "critical" \in S
    BY <2>1, Severities DEF Statuses
  <2>2. CASE "critical" \notin S /\ "degraded" \in S
    BY <2>2, Severities DEF Statuses
  <2>3. CASE S \subseteq {"not_configured", "healthy", "unknown", "stale"} /\ "stale" \in S
    BY <2>3, Severities
  <2>4. CASE S \subseteq {"not_configured", "healthy", "unknown"} /\ "unknown" \in S
    BY <2>4, Severities
  <2>5. CASE S \subseteq {"not_configured", "healthy"} /\ "healthy" \in S
    BY <2>5, Severities
  <2>6. CASE S = {"not_configured"}
    BY <2>6, Severities
  <2> QED
    BY <2>1, <2>2, <2>3, <2>4, <2>5, <2>6 DEF Statuses
<1> QED
  BY <1>1 DEF worst

\* What decides whether the worst is critical, and whether it is healthy.
LEMMA WorstDecided ==
    ASSUME NEW S, S \subseteq Statuses, S # {}
    PROVE  /\ worst(S) \in Statuses
           /\ worst(S) = "critical" <=> "critical" \in S
           /\ worst(S) = "healthy" => S \subseteq {"healthy", "not_configured"}
<1>1. worst(S) \in S /\ \A t \in S : SEVERITY[t] <= SEVERITY[worst(S)]
  BY WorstIsWorst
<1>2. ASSUME "critical" \in S
      PROVE  worst(S) = "critical"
  <2>1. SEVERITY["critical"] <= SEVERITY[worst(S)]
    BY <1>1, <1>2
  <2>2. \A t \in Statuses : 5 <= SEVERITY[t] => t = "critical"
    BY Severities DEF Statuses
  <2> QED
    BY <1>1, <2>1, <2>2, Severities
<1>3. worst(S) = "healthy" => S \subseteq {"healthy", "not_configured"}
  BY <1>1, Severities DEF Statuses
<1> QED
  BY <1>1, <1>2, <1>3

\* A level is healthy, degraded or critical.
LEMMA LevelIsStatus ==
    ASSUME NEW v, NEW thresholds
    PROVE  level(v, thresholds) \in {"healthy", "degraded", "critical"}
  BY DEF level

LEMMA RatioLevelIsStatus ==
    ASSUME NEW used, NEW limit, NEW thresholds
    PROVE  ratio_level(used, limit, thresholds) \in {"healthy", "degraded", "critical"}
  BY DEF ratio_level

\* Every section is a status.
LEMMA SectionsAreStatuses ==
    ASSUME NEW read, NEW policy
    PROVE  Sections(read, policy) \subseteq Statuses /\ Sections(read, policy) # {}
<1>1. evaluate_availability(read, policy) \in Statuses
  BY DEF evaluate_availability, Statuses
<1>2. evaluate_stability(read, policy) \in Statuses
  BY LevelIsStatus DEF evaluate_stability, Statuses
<1>3. evaluate_resources(read, policy) \in Statuses
  <2> DEFINE S == {ratio_level(read["cpu_usage"], read["cpu_limit"], policy.use),
                   ratio_level(read["memory_usage"], read["memory_limit"], policy.use),
                   level(read["cpu_throttling"], THROTTLE)}
  <2>1. S \subseteq Statuses /\ S # {}
    BY LevelIsStatus, RatioLevelIsStatus DEF Statuses
  <2> HIDE DEF S
  <2>2. worst(S) \in Statuses
    BY <2>1, WorstDecided
  <2> QED
    BY <2>2 DEF evaluate_resources, S, Statuses
<1>4. evaluate_application(read, policy) \in Statuses
  <2> DEFINE S == {level(read["error_ratio"], policy.errors),
                   level(read["latency_p95"], policy.latency)}
  <2>1. S \subseteq Statuses /\ S # {}
    BY LevelIsStatus DEF Statuses
  <2> HIDE DEF S
  <2>2. worst(S) \in Statuses
    BY <2>1, WorstDecided
  <2> QED
    BY <2>2 DEF evaluate_application, S, Statuses
<1> QED
  BY <1>1, <1>2, <1>3, <1>4 DEF Sections

\* Staleness turns a verdict into one that acquits nobody and accuses nobody.
LEMMA StalelyDecided ==
    ASSUME NEW status \in Statuses, NEW stale \in BOOLEAN
    PROVE  /\ Stalely(status, stale) \in Statuses
           /\ Stalely(status, stale) = "critical" <=> status = "critical"
           /\ Stalely(status, stale) = "healthy" => status = "healthy" /\ ~stale
  BY DEF Stalely, Statuses

\* What a read of a binding is judged on.
Asked(context, answered) ==
    {s \in PRESETS[context.preset] : Through(context.preset, answered)[s] # NOT_CONFIGURED}

StaleRead(context, answered, samples) ==
    \/ \A s \in Asked(context, answered) : ~Measured(Through(context.preset, answered)[s])
    \/ samples.age > HEALTH_POLICIES[context.policy].age
    \/ samples.served_from_last_good

\* What stops a read before any signal of it is judged.
Stopped(context, answered) ==
    \/ context.lifecycle # "active" \/ context.uid = Missing \/ Asked(context, answered) = {}
    \/ \A s \in Asked(context, answered) :
          Through(context.preset, answered)[s] = QUERY_FAILED

\* A verdict, taken apart.
LEMMA HealthTakenApart ==
    ASSUME NEW context, NEW answered, NEW samples
    PROVE  /\ Stopped(context, answered) =>
                compute_health(context, answered, samples).status \in {"not_configured", "unknown"}
           /\ ~Stopped(context, answered) =>
                compute_health(context, answered, samples).status
                  = Stalely(worst(Sections(Through(context.preset, answered),
                                           HEALTH_POLICIES[context.policy])),
                            StaleRead(context, answered, samples))
           /\ compute_health(context, answered, samples) \in Judgement
<1> DEFINE read == Through(context.preset, answered)
           secs == Sections(read, HEALTH_POLICIES[context.policy])
           stale == StaleRead(context, answered, samples)
           st == Stalely(worst(secs), stale)
<1>1. st \in Statuses
  <2>1. secs \subseteq Statuses /\ secs # {}
    BY SectionsAreStatuses
  <2>2. worst(secs) \in Statuses
    <3> HIDE DEF secs
    <3> QED BY <2>1, WorstDecided
  <2>3. stale \in BOOLEAN
    BY DEF StaleRead
  <2> HIDE DEF secs, stale
  <2> QED
    BY <2>2, <2>3, StalelyDecided
<1>2. Stopped(context, answered) =>
        compute_health(context, answered, samples) \in
          [status : {"not_configured", "unknown"},
           why : {"binding_disabled", "binding_unresolved", "datasource_not_configured",
                  "datasource_unavailable"}]
  BY DEF Stopped, Asked, compute_health
<1>3. ~Stopped(context, answered) =>
        compute_health(context, answered, samples)
          = [status |-> st, why |-> IF stale THEN "telemetry_stale" ELSE "measured"]
  BY DEF Stopped, Asked, StaleRead, compute_health
<1>4. {"not_configured", "unknown"} \subseteq DOMAIN SEVERITY /\ st \in DOMAIN SEVERITY
  BY <1>1, Severities DEF Statuses
<1> HIDE DEF st, stale
<1>5. ~Stopped(context, answered) => compute_health(context, answered, samples) \in Judgement
  BY <1>3, <1>4 DEF Judgement
<1>6. Stopped(context, answered) => compute_health(context, answered, samples) \in Judgement
  BY <1>2, <1>4 DEF Judgement
<1>7. ~Stopped(context, answered) => compute_health(context, answered, samples).status = st
  BY <1>3
<1>8. Stopped(context, answered) =>
        compute_health(context, answered, samples).status \in {"not_configured", "unknown"}
  BY <1>2
<1> QED
  BY <1>5, <1>6, <1>7, <1>8 DEF st, stale

\* One answer says no more than another: what it measures, the other measures so.
SaysLess(lost, read) ==
    \A s \in SIGNAL_FIELDS : Measured(lost[s]) => lost[s] = read[s]

\* The twelve signals.
LEMMA Fields ==
    /\ "desired_replicas" \in SIGNAL_FIELDS /\ "ready_replicas" \in SIGNAL_FIELDS
    /\ "restarts" \in SIGNAL_FIELDS /\ "cpu_usage" \in SIGNAL_FIELDS
    /\ "cpu_limit" \in SIGNAL_FIELDS /\ "memory_usage" \in SIGNAL_FIELDS
    /\ "memory_limit" \in SIGNAL_FIELDS /\ "cpu_throttling" \in SIGNAL_FIELDS
    /\ "error_ratio" \in SIGNAL_FIELDS /\ "latency_p95" \in SIGNAL_FIELDS
    /\ APPLICATION_SIGNALS \subseteq SIGNAL_FIELDS
  BY DEF SIGNAL_FIELDS, APPLICATION_SIGNALS

\* A critical level is of something measured, and so is a ratio past a threshold.
LEMMA CriticalIsMeasured ==
    ASSUME NEW v, NEW thresholds, level(v, thresholds) = "critical"
    PROVE  Measured(v)
  BY DEF level

LEMMA RatioIsMeasured ==
    ASSUME NEW used, NEW limit, NEW thresholds,
           ratio_level(used, limit, thresholds) = "critical"
    PROVE  Measured(used) /\ Measured(limit)
  BY DEF ratio_level

\* A section that is critical on less evidence is critical on more, and rests on
\* something that was measured.
LEMMA CriticalSections ==
    ASSUME NEW lost, NEW read, NEW policy, SaysLess(lost, read),
           "critical" \in Sections(lost, policy)
    PROVE  /\ "critical" \in Sections(read, policy)
           /\ \E s \in SIGNAL_FIELDS : Measured(lost[s])
<1>1. ASSUME NEW s \in SIGNAL_FIELDS, Measured(lost[s])
      PROVE  lost[s] = read[s]
  BY <1>1 DEF SaysLess
<1>2. CASE evaluate_availability(lost, policy) = "critical"
  <2>1. Measured(lost["desired_replicas"]) /\ Measured(lost["ready_replicas"])
    BY <1>2 DEF evaluate_availability
  <2>2. evaluate_availability(read, policy) = evaluate_availability(lost, policy)
    BY <1>1, <2>1, Fields DEF evaluate_availability
  <2> QED
    BY <1>2, <2>1, <2>2, Fields DEF Sections
<1>3. CASE evaluate_stability(lost, policy) = "critical"
  <2>1. Measured(lost["restarts"])
    BY <1>3 DEF evaluate_stability
  <2>2. evaluate_stability(read, policy) = evaluate_stability(lost, policy)
    BY <1>1, <2>1, Fields DEF evaluate_stability
  <2> QED
    BY <1>3, <2>1, <2>2, Fields DEF Sections
<1>4. CASE evaluate_resources(lost, policy) = "critical"
  <2> DEFINE S(a) == {ratio_level(a["cpu_usage"], a["cpu_limit"], policy.use),
                      ratio_level(a["memory_usage"], a["memory_limit"], policy.use),
                      level(a["cpu_throttling"], THROTTLE)}
  <2>1. \A a : S(a) \subseteq Statuses /\ S(a) # {}
    BY LevelIsStatus, RatioLevelIsStatus DEF Statuses
  <2>2. evaluate_resources(lost, policy) = worst(S(lost))
    BY <1>4 DEF evaluate_resources
  <2>3. "critical" \in S(lost)
    <3> HIDE DEF S
    <3> QED
      BY <1>4, <2>1, <2>2, WorstDecided
  <2>5. "critical" \in S(read)
    <3>1. CASE ratio_level(lost["cpu_usage"], lost["cpu_limit"], policy.use) = "critical"
      BY <1>1, <3>1, RatioIsMeasured, Fields
    <3>2. CASE ratio_level(lost["memory_usage"], lost["memory_limit"], policy.use) = "critical"
      BY <1>1, <3>2, RatioIsMeasured, Fields
    <3>3. CASE level(lost["cpu_throttling"], THROTTLE) = "critical"
      BY <1>1, <3>3, CriticalIsMeasured, Fields
    <3> QED
      BY <2>3, <3>1, <3>2, <3>3
  <2>6. worst(S(read)) = "critical"
    <3> HIDE DEF S
    <3> QED
      BY <2>1, <2>5, WorstDecided
  <2>7. Measured(lost["cpu_usage"]) \/ Measured(lost["memory_usage"])
    BY <1>4 DEF evaluate_resources
  <2>8. evaluate_resources(read, policy) = worst(S(read))
    BY <1>1, <2>7, Fields DEF evaluate_resources
  <2> QED
    BY <2>6, <2>7, <2>8, Fields DEF Sections
<1>5. CASE evaluate_application(lost, policy) = "critical"
  <2> DEFINE S(a) == {level(a["error_ratio"], policy.errors),
                      level(a["latency_p95"], policy.latency)}
  <2>1. \A a : S(a) \subseteq Statuses /\ S(a) # {}
    BY LevelIsStatus DEF Statuses
  <2>2. evaluate_application(lost, policy) = worst(S(lost))
    BY <1>5 DEF evaluate_application
  <2>3. "critical" \in S(lost)
    <3> HIDE DEF S
    <3> QED
      BY <1>5, <2>1, <2>2, WorstDecided
  <2>4. "critical" \in S(read)
    BY <1>1, <2>3, CriticalIsMeasured, Fields
  <2>5. worst(S(read)) = "critical"
    <3> HIDE DEF S
    <3> QED
      BY <2>1, <2>4, WorstDecided
  <2>6. PICK s \in APPLICATION_SIGNALS : Measured(lost[s])
    BY <1>5 DEF evaluate_application
  <2>7. evaluate_application(read, policy) = worst(S(read))
    BY <1>1, <2>6, Fields DEF evaluate_application
  <2> QED
    BY <2>5, <2>6, <2>7, Fields DEF Sections
<1> QED
  BY <1>2, <1>3, <1>4, <1>5 DEF Sections

\* A verdict that is critical on less evidence is critical on more.
LEMMA CriticalVerdicts ==
    ASSUME NEW context, context.preset \in DOMAIN PRESETS, NEW samples, NEW others,
           NEW lost, NEW read, SaysLess(lost, read),
           compute_health(context, lost, others).status = "critical"
    PROVE  compute_health(context, read, samples).status = "critical"
<1> DEFINE l == Through(context.preset, lost)
           a == Through(context.preset, read)
           policy == HEALTH_POLICIES[context.policy]
<1>0. /\ ~Measured(Missing) /\ ~Measured(NOT_CONFIGURED) /\ ~Measured(QUERY_FAILED)
      /\ PRESETS[context.preset] \subseteq SIGNAL_FIELDS
  BY DEF Measured, PRESETS
<1>1. SaysLess(l, a)
  BY <1>0 DEF SaysLess, Through
<1>2. ~Stopped(context, lost)
  BY HealthTakenApart
<1>3. "critical" \in Sections(l, policy)
  <2> DEFINE secs == Sections(l, policy)
  <2>1. secs \subseteq Statuses /\ secs # {}
    BY SectionsAreStatuses
  <2>2. Stalely(worst(secs), StaleRead(context, lost, others)) = "critical"
    BY <1>2, HealthTakenApart
  <2>3. StaleRead(context, lost, others) \in BOOLEAN
    BY DEF StaleRead
  <2> HIDE DEF secs
  <2>4. worst(secs) = "critical"
    BY <2>1, <2>2, <2>3, StalelyDecided, WorstDecided
  <2>5. "critical" \in secs
    BY <2>1, <2>4, WorstDecided
  <2> QED
    BY <2>5 DEF secs
<1>4. "critical" \in Sections(a, policy) /\ \E s \in SIGNAL_FIELDS : Measured(l[s])
  <2> HIDE DEF l, a, policy
  <2> QED
    BY <1>1, <1>3, CriticalSections
<1>5. PICK s \in SIGNAL_FIELDS : Measured(l[s]) /\ l[s] = a[s]
  BY <1>1, <1>4 DEF SaysLess
<1>6. s \in PRESETS[context.preset] /\ Measured(a[s])
  BY <1>0, <1>5 DEF Through
<1>7. ~Stopped(context, read)
  BY <1>0, <1>2, <1>6 DEF Stopped, Asked
<1>8. worst(Sections(a, policy)) = "critical"
  <2> DEFINE secs == Sections(a, policy)
  <2>1. secs \subseteq Statuses /\ secs # {} /\ "critical" \in secs
    BY <1>4, SectionsAreStatuses
  <2> HIDE DEF secs
  <2>2. worst(secs) = "critical"
    BY <2>1, WorstDecided
  <2> QED
    BY <2>2 DEF secs
<1>9. Stalely("critical", StaleRead(context, read, samples)) = "critical"
  BY DEF Stalely
<1> QED
  BY <1>7, <1>8, <1>9, HealthTakenApart

\* The thresholds of a policy are numbers.
LEMMA PoliciesAreNumbers ==
    ASSUME NEW name \in DOMAIN HEALTH_POLICIES
    PROVE  /\ HEALTH_POLICIES[name].age \in Nat /\ HEALTH_POLICIES[name].ready \in Nat
           /\ HEALTH_POLICIES[name].restarts[1] \in Nat
           /\ HEALTH_POLICIES[name].use[1] \in Nat
           /\ HEALTH_POLICIES[name].errors[1] \in Nat
           /\ HEALTH_POLICIES[name].latency[1] \in Nat
  BY DEF HEALTH_POLICIES

\* A healthy level is of nothing past its first threshold.
LEMMA HealthyIsBelow ==
    ASSUME NEW v, Measured(v) => v \in Nat, NEW thresholds, thresholds[1] \in Nat,
           level(v, thresholds) = "healthy"
    PROVE  Below(v, thresholds[1])
  BY DEF level, Below

LEMMA HealthyIsBelowLimit ==
    ASSUME NEW used, Measured(used) => used \in Nat, NEW limit,
           Measured(limit) => limit \in Nat, NEW thresholds, thresholds[1] \in Nat,
           ratio_level(used, limit, thresholds) = "healthy"
    PROVE  BelowLimit(used, limit, thresholds[1])
<1> SUFFICES ASSUME Measured(used), Measured(limit), limit # 0
             PROVE  100 * used < thresholds[1] * limit
  BY DEF BelowLimit
<1>1. ~(100 * used >= thresholds[1] * limit)
  BY DEF ratio_level
<1>2. 100 * used \in Nat /\ thresholds[1] * limit \in Nat
  OBVIOUS
<1> QED
  BY <1>1, <1>2

\* The levels of the worst of some levels, when it is healthy.
LEMMA HealthyLevels ==
    ASSUME NEW S, S \subseteq {"healthy", "degraded", "critical"}, S # {},
           worst(S) \in {"healthy", "not_configured"}
    PROVE  S = {"healthy"}
<1>1. S \subseteq Statuses
  BY DEF Statuses
<1>2. worst(S) \in S
  BY <1>1, WorstIsWorst
<1> QED
  BY <1>1, <1>2, WorstDecided

\* What a healthy verdict rests on.
LEMMA HealthyVerdicts ==
    ASSUME NEW context \in Binding, NEW answered \in Reads, NEW samples \in Samples,
           compute_health(context, answered, samples).status = "healthy"
    PROVE  LET policy == HEALTH_POLICIES[context.policy]
               read   == Through(context.preset, answered)
           IN
           /\ context.lifecycle = "active" /\ context.uid # Missing
           /\ samples.age <= policy.age /\ ~samples.served_from_last_good
           /\ Measured(read["desired_replicas"]) /\ Measured(read["ready_replicas"])
           /\ 100 * read["ready_replicas"] >= policy.ready * read["desired_replicas"]
           /\ Measured(read["restarts"]) /\ Below(read["restarts"], policy.restarts[1])
           /\ Measured(read["cpu_usage"]) \/ Measured(read["memory_usage"])
           /\ BelowLimit(read["cpu_usage"], read["cpu_limit"], policy.use[1])
           /\ BelowLimit(read["memory_usage"], read["memory_limit"], policy.use[1])
           /\ Below(read["cpu_throttling"], THROTTLE[1])
           /\ Below(read["error_ratio"], policy.errors[1])
           /\ Below(read["latency_p95"], policy.latency[1])
<1> DEFINE read == Through(context.preset, answered)
           policy == HEALTH_POLICIES[context.policy]
           secs == Sections(read, policy)
<1>0. context.preset \in DOMAIN PRESETS /\ context.policy \in DOMAIN HEALTH_POLICIES
  BY DEF Binding
<1>1. ~Stopped(context, answered)
  BY HealthTakenApart
<1>2. /\ Stalely(worst(secs), StaleRead(context, answered, samples)) = "healthy"
      /\ StaleRead(context, answered, samples) \in BOOLEAN
  BY <1>1, HealthTakenApart DEF StaleRead, Samples
<1>3. secs \subseteq Statuses /\ secs # {}
  BY SectionsAreStatuses
<1>4. secs \subseteq {"healthy", "not_configured"} /\ ~StaleRead(context, answered, samples)
  <2> HIDE DEF secs
  <2> QED
    BY <1>2, <1>3, StalelyDecided, WorstDecided
<1>5. /\ ~(samples.age > policy.age) /\ ~samples.served_from_last_good
      /\ context.lifecycle = "active" /\ context.uid # Missing
  BY <1>1, <1>4 DEF StaleRead, Stopped
<1>6. ~Measured(Missing)
  BY DEF Measured
<1>7. \A s \in SIGNAL_FIELDS : Measured(read[s]) => read[s] \in Nat
  BY <1>6, HealthAssumption DEF Through
<1>8. /\ policy.age \in Nat /\ policy.ready \in Nat /\ policy.restarts[1] \in Nat
      /\ policy.use[1] \in Nat /\ policy.errors[1] \in Nat /\ policy.latency[1] \in Nat
      /\ THROTTLE[1] \in Nat /\ samples.age \in Nat
  BY <1>0, PoliciesAreNumbers, HealthAssumption DEF THROTTLE, Samples
<1>9. /\ evaluate_availability(read, policy) \in {"healthy", "not_configured"}
      /\ evaluate_stability(read, policy) \in {"healthy", "not_configured"}
      /\ evaluate_resources(read, policy) \in {"healthy", "not_configured"}
      /\ evaluate_application(read, policy) \in {"healthy", "not_configured"}
  BY <1>4 DEF Sections
<1> HIDE DEF read, policy, secs
<1>10. /\ Measured(read["desired_replicas"]) /\ Measured(read["ready_replicas"])
       /\ 100 * read["ready_replicas"] >= policy.ready * read["desired_replicas"]
  <2>1. Measured(read["desired_replicas"]) /\ Measured(read["ready_replicas"])
    BY <1>9 DEF evaluate_availability
  <2>2. read["desired_replicas"] \in Nat /\ read["ready_replicas"] \in Nat
    BY <1>7, <2>1, Fields
  <2>3. read["desired_replicas"] = 0
          \/ ~(100 * read["ready_replicas"] < policy.ready * read["desired_replicas"])
    BY <1>9, <2>1 DEF evaluate_availability
  <2>4. 100 * read["ready_replicas"] \in Nat /\ policy.ready * read["desired_replicas"] \in Nat
    BY <1>8, <2>2
  <2>5. CASE read["desired_replicas"] = 0
    BY <1>8, <2>1, <2>2, <2>5
  <2> QED
    BY <2>1, <2>3, <2>4, <2>5
<1>11. Measured(read["restarts"]) /\ Below(read["restarts"], policy.restarts[1])
  <2>1. Measured(read["restarts"]) /\ level(read["restarts"], policy.restarts) = "healthy"
    BY <1>9, LevelIsStatus DEF evaluate_stability
  <2> QED
    BY <1>7, <1>8, <2>1, Fields, HealthyIsBelow
<1>12. /\ Measured(read["cpu_usage"]) \/ Measured(read["memory_usage"])
       /\ BelowLimit(read["cpu_usage"], read["cpu_limit"], policy.use[1])
       /\ BelowLimit(read["memory_usage"], read["memory_limit"], policy.use[1])
       /\ Below(read["cpu_throttling"], THROTTLE[1])
  <2> DEFINE S == {ratio_level(read["cpu_usage"], read["cpu_limit"], policy.use),
                   ratio_level(read["memory_usage"], read["memory_limit"], policy.use),
                   level(read["cpu_throttling"], THROTTLE)}
  <2>1. Measured(read["cpu_usage"]) \/ Measured(read["memory_usage"])
    BY <1>9 DEF evaluate_resources
  <2>2. evaluate_resources(read, policy) = worst(S)
    BY <2>1 DEF evaluate_resources
  <2>3. S \subseteq {"healthy", "degraded", "critical"} /\ S # {}
    BY LevelIsStatus, RatioLevelIsStatus
  <2>4. S = {"healthy"}
    <3> HIDE DEF S
    <3> QED
      BY <1>9, <2>2, <2>3, HealthyLevels
  <2>5. /\ ratio_level(read["cpu_usage"], read["cpu_limit"], policy.use) = "healthy"
        /\ ratio_level(read["memory_usage"], read["memory_limit"], policy.use) = "healthy"
        /\ level(read["cpu_throttling"], THROTTLE) = "healthy"
    BY <2>4
  <2> HIDE DEF S
  <2>6. /\ BelowLimit(read["cpu_usage"], read["cpu_limit"], policy.use[1])
        /\ BelowLimit(read["memory_usage"], read["memory_limit"], policy.use[1])
    BY <1>7, <1>8, <2>5, Fields, HealthyIsBelowLimit
  <2>7. Below(read["cpu_throttling"], THROTTLE[1])
    BY <1>7, <1>8, <2>5, Fields, HealthyIsBelow
  <2> QED
    BY <2>1, <2>6, <2>7
<1>13. Below(read["error_ratio"], policy.errors[1]) /\ Below(read["latency_p95"], policy.latency[1])
  <2> DEFINE S == {level(read["error_ratio"], policy.errors),
                   level(read["latency_p95"], policy.latency)}
  <2>1. CASE \A s \in APPLICATION_SIGNALS : ~Measured(read[s])
    BY <2>1 DEF Below, APPLICATION_SIGNALS
  <2>2. CASE ~\A s \in APPLICATION_SIGNALS : ~Measured(read[s])
    <3>1. evaluate_application(read, policy) = worst(S)
      BY <2>2 DEF evaluate_application
    <3>2. S \subseteq {"healthy", "degraded", "critical"} /\ S # {}
      BY LevelIsStatus
    <3>3. S = {"healthy"}
      <4> HIDE DEF S
      <4> QED
        BY <1>9, <3>1, <3>2, HealthyLevels
    <3>4. /\ level(read["error_ratio"], policy.errors) = "healthy"
          /\ level(read["latency_p95"], policy.latency) = "healthy"
      BY <3>3
    <3> HIDE DEF S
    <3> QED
      BY <1>7, <1>8, <3>4, Fields, HealthyIsBelow
  <2> QED
    BY <2>1, <2>2
<1>14. samples.age <= policy.age
  BY <1>5, <1>8
<1> QED
  BY <1>5, <1>10, <1>11, <1>12, <1>13, <1>14 DEF policy, read

Edit ==
  [pc : {"idle", "asking", "checked", "resolving", "resolved"},
   expected : Nat \cup {Missing},
   was : ((DOMAIN HEALTH_POLICIES) \X (DOMAIN PRESETS)) \cup {Missing}, uid : Nat \cup {Missing}]

Answer == [health : Judgement, row : Binding, source : Nat]

View ==
  [pc : {"idle", "loaded", "served"}, row : Binding \cup {Missing}, source : Nat,
   read : Reads \cup {Missing}, samples : Samples \cup {Missing},
   answer : Answer \cup {Missing}]

HealthTypeOK ==
    /\ bound \in Binding \cup {Missing} /\ seenUid \in Nat \cup {Missing} /\ source \in Nat
    /\ edits \in [Editors -> Edit] /\ views \in [Readers -> View]
    /\ \A key \in DOMAIN fresh : fresh[key] \in Answer
    /\ \A key \in DOMAIN lastGood : lastGood[key] \in Answer

(* A row that was read is the binding as it is, but for the resolution, or *)
(* carries an older revision.                                              *)
Known(row, now) ==
    /\ row \in Binding /\ now \in Binding /\ row.revision <= now.revision
    /\ row.revision = now.revision => row.lifecycle = now.lifecycle

\* What the cache holds, it holds under its own identity.
Addressed(cache, now) ==
    \A key \in DOMAIN cache :
       Known(cache[key].row, now) /\ key = cache_keys(cache[key].row, cache[key].source)

(* What a read that queried answers with is its own verdict, or a fallback *)
(* no longer healthy.                                                      *)
Supported(v) ==
    v.pc = "served" /\ v.read # Missing =>
       /\ v.read \in Reads /\ v.samples \in Samples /\ v.row \in Binding
       /\ \/ v.answer.health = compute_health(v.row, v.read, v.samples)
          \/ v.answer.health.status # "healthy"

\* The inductive invariant of service health: rows, requests and the cache.
HealthInv ==
    /\ HealthTypeOK
    /\ \A o \in Editors : edits[o].pc # "idle" => bound # Missing
    /\ \A r \in Readers : views[r].pc # "idle" => Known(views[r].row, bound)
    /\ \A r \in Readers : Supported(views[r])
    /\ Addressed(fresh, bound) /\ Addressed(lastGood, bound)

\* The invariant holds initially.
LEMMA HealthInitially == HealthInit => HealthInv
<1> SUFFICES ASSUME HealthInit
             PROVE  HealthInv
  OBVIOUS
<1>1. NoEdit \in Edit /\ NoEdit.pc = "idle"
  BY DEF NoEdit, Edit
<1>2. NoView \in View /\ NoView.pc = "idle"
  BY DEF NoView, View
<1>3. DOMAIN fresh = {} /\ DOMAIN lastGood = {}
  BY DEF HealthInit
<1>4. HealthTypeOK
  BY <1>1, <1>2, <1>3 DEF HealthInit, HealthTypeOK
<1> QED
  BY <1>1, <1>2, <1>3, <1>4 DEF HealthInit, HealthInv, Addressed, Supported

(* What a step does to the binding, for the readers of it: nothing, or its *)
(* creation, or a change that moves the revision or keeps the lifecycle.   *)
BindingMoves ==
    \/ bound' = bound
    \/ bound = Missing /\ bound' \in Binding
    \/ /\ bound \in Binding /\ bound' \in Binding
       /\ \/ bound'.revision = bound.revision + 1
          \/ bound'.revision = bound.revision /\ bound'.lifecycle = bound.lifecycle

\* Whatever moves the binding, a row that was known is known.
LEMMA RowsStayKnown ==
    ASSUME BindingMoves, NEW row, Known(row, bound)
    PROVE  Known(row, bound')
<1>1. bound \in Binding /\ bound # Missing
  BY BindingAssumption DEF Known
<1>2. CASE bound' = bound
  BY <1>2 DEF Known
<1>3. CASE bound' # bound
  <2>1. bound' \in Binding /\ bound.revision \in Nat /\ bound'.revision \in Nat
    BY <1>1, <1>3 DEF BindingMoves, Binding
  <2>2. row \in Binding /\ row.revision \in Nat
    BY DEF Known, Binding
  <2> QED
    BY <1>1, <1>3, <2>1, <2>2 DEF BindingMoves, Known
<1> QED
  BY <1>2, <1>3

\* A rewritten binding is a binding, and says what was written.
LEMMA BindingRewritten ==
    ASSUME NEW b \in Binding
    PROVE  /\ \A uid \in Nat \cup {Missing} :
                LET n == [b EXCEPT !.uid = uid, !.revision = @ + 1]
                IN  n \in Binding /\ n.revision = b.revision + 1
           /\ \A lifecycle \in {"active", "disabled"} :
                LET n == [b EXCEPT !.lifecycle = lifecycle, !.revision = @ + 1]
                IN  n \in Binding /\ n.revision = b.revision + 1
           /\ \A policy \in DOMAIN HEALTH_POLICIES, preset \in DOMAIN PRESETS :
                LET n == [b EXCEPT !.policy = policy, !.preset = preset, !.revision = @ + 1]
                IN  n \in Binding /\ n.revision = b.revision + 1
<1>1. b.revision + 1 \in Nat
  BY DEF Binding
<1>2. ASSUME NEW uid \in Nat \cup {Missing}
      PROVE  /\ [b EXCEPT !.uid = uid, !.revision = b.revision + 1] \in Binding
             /\ [b EXCEPT !.uid = uid, !.revision = b.revision + 1].revision = b.revision + 1
  BY <1>1 DEF Binding
<1>3. ASSUME NEW lifecycle \in {"active", "disabled"}
      PROVE  /\ [b EXCEPT !.lifecycle = lifecycle, !.revision = b.revision + 1] \in Binding
             /\ [b EXCEPT !.lifecycle = lifecycle, !.revision = b.revision + 1].revision
                  = b.revision + 1
  BY <1>1 DEF Binding
<1>4. ASSUME NEW policy \in DOMAIN HEALTH_POLICIES, NEW preset \in DOMAIN PRESETS
      PROVE  LET n == [b EXCEPT !.policy = policy, !.preset = preset, !.revision = b.revision + 1]
             IN  n \in Binding /\ n.revision = b.revision + 1
  BY <1>1 DEF Binding
<1> QED
  BY <1>2, <1>3, <1>4

\* Every step moves the binding that way.
LEMMA BindingMovesSo == HealthInv /\ [HealthNext]_healthVars => BindingMoves
<1> SUFFICES ASSUME HealthInv, [HealthNext]_healthVars
             PROVE  BindingMoves
  OBVIOUS
<1>1. seenUid \in Nat \cup {Missing} /\ bound \in Binding \cup {Missing}
  BY DEF HealthInv, HealthTypeOK
<1>2. \A o \in Editors : edits[o].uid \in Nat \cup {Missing} /\ (edits[o].pc # "idle" => bound \in Binding)
  BY <1>1 DEF HealthInv, HealthTypeOK, Edit
<1>3. CASE create_binding
  BY <1>1, <1>3 DEF create_binding, BindingMoves, Binding, HEALTH_POLICIES, PRESETS
<1>4. CASE resolve_pending_bindings
  <2>1. PICK uid \in {seenUid} \cup (1..MaxUid) :
           LET attach == bound # Missing /\ uid # Missing
                       /\ bound.lifecycle = "active" /\ bound.uid = Missing IN
             bound' = IF attach THEN [bound EXCEPT !.uid = uid, !.revision = @ + 1] ELSE bound
    BY <1>4 DEF resolve_pending_bindings
  <2>2. uid \in Nat \cup {Missing}
    BY <1>1, HealthAssumption
  <2>3. CASE bound' = bound
    BY <2>3 DEF BindingMoves
  <2>4. CASE bound' = [bound EXCEPT !.uid = uid, !.revision = @ + 1] /\ bound \in Binding
    <3>1. bound' \in Binding /\ bound'.revision = bound.revision + 1
      BY <2>2, <2>4, BindingRewritten
    <3> QED
      BY <2>4, <3>1 DEF BindingMoves
  <2> QED
    BY <1>1, <2>1, <2>3, <2>4
<1>5. CASE \E o \in Editors : set_lifecycle(o)
  <2>1. PICK o \in Editors : set_lifecycle(o)
    BY <1>5
  <2>2. bound \in Binding
    BY <1>2, <2>1 DEF set_lifecycle
  <2>3. PICK lifecycle \in {"active", "disabled"} :
           bound' = [bound EXCEPT !.lifecycle = lifecycle, !.revision = @ + 1]
    BY <2>1 DEF set_lifecycle
  <2>4. bound' \in Binding /\ bound'.revision = bound.revision + 1
    BY <2>2, <2>3, BindingRewritten
  <2> QED
    BY <2>2, <2>4 DEF BindingMoves
<1>6. CASE \E o \in Editors : update_binding(o)
  <2>1. PICK o \in Editors : update_binding(o)
    BY <1>6
  <2>2. bound \in Binding
    BY <1>2, <2>1 DEF update_binding
  <2>3. PICK policy \in DOMAIN HEALTH_POLICIES, preset \in DOMAIN PRESETS :
           \/ bound' = bound
           \/ bound' = [bound EXCEPT !.policy = policy, !.preset = preset, !.revision = @ + 1]
    BY <2>1 DEF update_binding
  <2>4. CASE bound' = [bound EXCEPT !.policy = policy, !.preset = preset, !.revision = @ + 1]
    <3>1. bound' \in Binding /\ bound'.revision = bound.revision + 1
      BY <2>2, <2>4, BindingRewritten
    <3> QED
      BY <2>2, <3>1 DEF BindingMoves
  <2> QED
    BY <2>3, <2>4 DEF BindingMoves
<1>7. CASE \E o \in Editors : WriteResolution(o)
  <2>1. PICK o \in Editors : WriteResolution(o)
    BY <1>7
  <2>2. bound \in Binding /\ edits[o].uid \in Nat \cup {Missing}
    BY <1>2, <2>1 DEF WriteResolution
  <2>3. bound' \in Binding /\ bound'.revision = bound.revision /\ bound'.lifecycle = bound.lifecycle
    BY <2>1, <2>2 DEF WriteResolution, Binding
  <2> QED
    BY <2>2, <2>3 DEF BindingMoves
<1>8. CASE bound' = bound
  BY <1>8 DEF BindingMoves
<1>9. CASE \E o \in Editors :
             \/ ViewBinding(o) \/ CheckRevision(o) \/ refresh_resolution(o) \/ invalidate(o)
  BY <1>9, <1>8 DEF ViewBinding, CheckRevision, refresh_resolution, invalidate
<1>10. CASE \E r \in Readers :
             \/ load_context(r) \/ CacheHit(r) \/ EndView(r)
             \/ \E read \in Reads, samples \in Samples : current_health(r, read, samples)
  BY <1>10, <1>8 DEF load_context, CacheHit, EndView, current_health
<1>11. CASE ReconfigureSource \/ \E key \in DOMAIN fresh \cup DOMAIN lastGood : Expire(key)
  BY <1>11, <1>8 DEF ReconfigureSource, Expire
<1>12. CASE UNCHANGED healthVars
  BY <1>12, <1>8 DEF healthVars
<1> QED
  BY <1>3, <1>4, <1>5, <1>6, <1>7, <1>9, <1>10, <1>11, <1>12 DEF HealthNext

\* An entry that is stored is there, and the others are as they were.
LEMMA StoredEntries ==
    ASSUME NEW cache, NEW key, NEW verdict, NEW k \in DOMAIN Store(cache, key, verdict)
    PROVE  \/ k = key /\ Store(cache, key, verdict)[k] = verdict
           \/ k \in DOMAIN cache /\ Store(cache, key, verdict)[k] = cache[k]
  BY DEF Store

LEMMA ForgottenEntries ==
    ASSUME NEW cache, NEW key, NEW k \in DOMAIN ForgetVerdict(cache, key)
    PROVE  k \in DOMAIN cache /\ ForgetVerdict(cache, key)[k] = cache[k]
  BY DEF ForgetVerdict

\* A verdict that was stored by a read of row is held under its own identity.
LEMMA VerdictIsAnswer ==
    ASSUME HealthInv, NEW r \in Readers, views[r].pc = "loaded", NEW read, NEW samples
    PROVE  /\ Verdict(r, read, samples) \in Answer
           /\ Known(Verdict(r, read, samples).row, bound)
           /\ cache_keys(views[r].row, views[r].source)
                = cache_keys(Verdict(r, read, samples).row, Verdict(r, read, samples).source)
<1>1. views[r] \in View /\ Known(views[r].row, bound)
  BY DEF HealthInv, HealthTypeOK
<1>2. views[r].row \in Binding /\ views[r].source \in Nat
  BY <1>1 DEF Known, View
<1>3. compute_health(views[r].row, read, samples) \in Judgement
  BY HealthTakenApart
<1> QED
  BY <1>1, <1>2, <1>3 DEF Verdict, Answer

(* What a step may do to a cache: forget entries, or store the verdict of  *)
(* a read that was loaded.                                                 *)
CacheMoves(cache, later) ==
    \A k \in DOMAIN later :
       \/ k \in DOMAIN cache /\ later[k] = cache[k]
       \/ /\ later[k] \in Answer /\ Known(later[k].row, bound)
          /\ k = cache_keys(later[k].row, later[k].source)

\* Every step moves the caches that way.
LEMMA CachesMoveSo ==
    HealthInv /\ [HealthNext]_healthVars =>
       CacheMoves(fresh, fresh') /\ CacheMoves(lastGood, lastGood')
<1> SUFFICES ASSUME HealthInv, [HealthNext]_healthVars
             PROVE  CacheMoves(fresh, fresh') /\ CacheMoves(lastGood, lastGood')
  OBVIOUS
<1>1. \A cache : CacheMoves(cache, cache)
  BY DEF CacheMoves
<1>2. \A cache, key : CacheMoves(cache, ForgetVerdict(cache, key))
  BY ForgottenEntries DEF CacheMoves
<1>3. CASE \E r \in Readers, read \in Reads, samples \in Samples : current_health(r, read, samples)
  <2>1. PICK r \in Readers, read \in Reads, samples \in Samples : current_health(r, read, samples)
    BY <1>3
  <2> DEFINE key == cache_keys(views[r].row, views[r].source)
             verdict == Verdict(r, read, samples)
  <2>2. /\ fresh' = fresh \/ fresh' = Store(fresh, key, verdict)
        /\ lastGood' = lastGood \/ lastGood' = Store(lastGood, key, verdict)
    BY <2>1 DEF current_health
  <2>3. /\ verdict \in Answer /\ Known(verdict.row, bound)
        /\ key = cache_keys(verdict.row, verdict.source)
    BY <2>1, VerdictIsAnswer DEF current_health
  <2> HIDE DEF key, verdict
  <2>4. \A cache : CacheMoves(cache, Store(cache, key, verdict))
    BY <2>3, StoredEntries DEF CacheMoves
  <2> QED
    BY <1>1, <2>2, <2>4
<1>4. CASE \E key \in DOMAIN fresh \cup DOMAIN lastGood : Expire(key)
  BY <1>1, <1>2, <1>4 DEF Expire
<1>5. CASE \E o \in Editors : invalidate(o)
  BY <1>1, <1>2, <1>5 DEF invalidate
<1>6. CASE UNCHANGED <<fresh, lastGood>>
  BY <1>1, <1>6
<1>7. CASE create_binding \/ resolve_pending_bindings \/ ReconfigureSource
  BY <1>6, <1>7 DEF create_binding, resolve_pending_bindings, ReconfigureSource
<1>8. CASE \E o \in Editors :
            \/ ViewBinding(o) \/ CheckRevision(o) \/ set_lifecycle(o) \/ update_binding(o)
            \/ refresh_resolution(o) \/ WriteResolution(o)
  BY <1>6, <1>8 DEF ViewBinding, CheckRevision, set_lifecycle, update_binding,
     refresh_resolution, WriteResolution
<1>9. CASE \E r \in Readers : load_context(r) \/ CacheHit(r) \/ EndView(r)
  BY <1>6, <1>9 DEF load_context, CacheHit, EndView
<1>10. CASE UNCHANGED healthVars
  BY <1>6, <1>10 DEF healthVars
<1> QED
  BY <1>3, <1>4, <1>5, <1>7, <1>8, <1>9, <1>10 DEF HealthNext

\* A step leaves the caches addressed by what they hold.
LEMMA CachesStayAddressed ==
    ASSUME NEW cache, NEW later, CacheMoves(cache, later), BindingMoves,
           Addressed(cache, bound), \A key \in DOMAIN cache : cache[key] \in Answer
    PROVE  Addressed(later, bound') /\ \A key \in DOMAIN later : later[key] \in Answer
<1> SUFFICES ASSUME NEW k \in DOMAIN later
             PROVE  /\ Known(later[k].row, bound') /\ later[k] \in Answer
                    /\ k = cache_keys(later[k].row, later[k].source)
  BY DEF Addressed
<1>1. /\ Known(later[k].row, bound) /\ later[k] \in Answer
      /\ k = cache_keys(later[k].row, later[k].source)
  BY DEF CacheMoves, Addressed
<1> QED
  BY <1>1, RowsStayKnown

\* An operator's request stays what it is, and has a binding.
LEMMA EditsStayInOrder ==
    ASSUME HealthInv, [HealthNext]_healthVars, BindingMoves
    PROVE  /\ edits' \in [Editors -> Edit]
           /\ \A o \in Editors : edits'[o].pc # "idle" => bound' # Missing
<1>1. /\ edits \in [Editors -> Edit] /\ bound \in Binding \cup {Missing}
      /\ seenUid \in Nat \cup {Missing}
      /\ \A o \in Editors : edits[o].pc # "idle" => bound # Missing
  BY DEF HealthInv, HealthTypeOK
<1>2. bound # Missing => bound' # Missing
  BY BindingAssumption DEF BindingMoves
<1>3. NoEdit \in Edit /\ NoEdit.pc = "idle"
  BY DEF NoEdit, Edit
<1>4. CASE edits' = edits
  BY <1>1, <1>2, <1>4
<1>5. ASSUME NEW o \in Editors, NEW e \in Edit, edits' = [edits EXCEPT ![o] = e],
             e.pc # "idle" => bound # Missing
      PROVE  /\ edits' \in [Editors -> Edit]
             /\ \A q \in Editors : edits'[q].pc # "idle" => bound' # Missing
  BY <1>1, <1>2, <1>5
<1>6. CASE \E o \in Editors : EndEdit(o)
  BY <1>3, <1>5, <1>6 DEF EndEdit
<1>7. CASE \E o \in Editors : ViewBinding(o)
  <2>1. PICK o \in Editors : ViewBinding(o)
    BY <1>7
  <2>2. PICK expected \in {Missing, bound.revision} :
           edits' = [edits EXCEPT ![o] = [NoEdit EXCEPT !.pc = "asking", !.expected = expected]]
    BY <2>1 DEF ViewBinding
  <2>3. bound # Missing /\ expected \in Nat \cup {Missing}
    BY <1>1, <2>1 DEF ViewBinding, Binding
  <2>4. [NoEdit EXCEPT !.pc = "asking", !.expected = expected] \in Edit
    BY <1>3, <2>3 DEF Edit
  <2> QED
    BY <1>5, <2>2, <2>3, <2>4
<1>8. CASE \E o \in Editors : CheckRevision(o)
  <2>1. PICK o \in Editors : CheckRevision(o)
    BY <1>8
  <2>2. bound \in Binding /\ bound # Missing /\ edits[o] \in Edit
    BY <1>1, <2>1 DEF CheckRevision
  <2>3. <<bound.policy, bound.preset>> \in (DOMAIN HEALTH_POLICIES) \X (DOMAIN PRESETS)
    BY <2>2 DEF Binding
  <2>4. [edits[o] EXCEPT !.pc = "checked", !.was = <<bound.policy, bound.preset>>] \in Edit
    <3> DEFINE policies == DOMAIN HEALTH_POLICIES  presets == DOMAIN PRESETS
               was == <<bound.policy, bound.preset>>
    <3>1. was \in (policies \X presets) \cup {Missing}
      BY <2>3
    <3> HIDE DEF policies, presets, was
    <3>2. [edits[o] EXCEPT !.pc = "checked", !.was = was] \in Edit
      BY <2>2, <3>1 DEF Edit, policies, presets
    <3> QED
      BY <3>2 DEF was
  <2>5. \/ edits' = [edits EXCEPT ![o] = NoEdit]
        \/ edits' = [edits EXCEPT ![o] =
             [edits[o] EXCEPT !.pc = "checked", !.was = <<bound.policy, bound.preset>>]]
    BY <2>1 DEF CheckRevision
  <2> QED
    BY <1>3, <1>5, <2>2, <2>4, <2>5
<1>9. CASE \E o \in Editors : refresh_resolution(o)
  <2>1. PICK o \in Editors : refresh_resolution(o)
    BY <1>9
  <2>2. [NoEdit EXCEPT !.pc = "resolving", !.uid = seenUid] \in Edit
    BY <1>1, <1>3 DEF Edit
  <2> QED
    BY <1>5, <2>1, <2>2 DEF refresh_resolution
<1>10. CASE \E o \in Editors : WriteResolution(o)
  <2>1. PICK o \in Editors : WriteResolution(o)
    BY <1>10
  <2>2. [NoEdit EXCEPT !.pc = "resolved"] \in Edit
    BY <1>3 DEF Edit
  <2> QED
    BY <1>1, <1>5, <2>1, <2>2 DEF WriteResolution
<1>11. CASE \E o \in Editors : set_lifecycle(o) \/ update_binding(o) \/ invalidate(o)
  BY <1>6, <1>11 DEF set_lifecycle, update_binding, invalidate
<1>12. CASE create_binding \/ resolve_pending_bindings \/ ReconfigureSource
  BY <1>4, <1>12 DEF create_binding, resolve_pending_bindings, ReconfigureSource
<1>13. CASE \E r \in Readers :
              \/ load_context(r) \/ CacheHit(r) \/ EndView(r)
              \/ \E read \in Reads, samples \in Samples : current_health(r, read, samples)
  BY <1>4, <1>13 DEF load_context, CacheHit, EndView, current_health
<1>14. CASE \E key \in DOMAIN fresh \cup DOMAIN lastGood : Expire(key)
  BY <1>4, <1>14 DEF Expire
<1>15. CASE UNCHANGED healthVars
  BY <1>4, <1>15 DEF healthVars
<1> QED
  BY <1>7, <1>8, <1>9, <1>10, <1>11, <1>12, <1>13, <1>14, <1>15 DEF HealthNext

\* A health read stays what it is: its row is known, its answer supported.
LEMMA ViewsStayInOrder ==
    ASSUME HealthInv, [HealthNext]_healthVars, BindingMoves
    PROVE  /\ views' \in [Readers -> View]
           /\ \A r \in Readers : views'[r].pc # "idle" => Known(views'[r].row, bound')
           /\ \A r \in Readers : Supported(views'[r])
<1> DEFINE Fine(v) ==
             v \in View /\ (v.pc # "idle" => Known(v.row, bound)) /\ Supported(v)
<1>1. /\ views \in [Readers -> View] /\ bound \in Binding \cup {Missing} /\ source \in Nat
      /\ \A r \in Readers : Fine(views[r])
  BY DEF HealthInv, HealthTypeOK
<1>2. \A v : Fine(v) => (v.pc # "idle" => Known(v.row, bound'))
  BY RowsStayKnown
<1>3. NoView \in View /\ NoView.pc = "idle" /\ Fine(NoView)
  BY DEF NoView, View, Supported
<1>4. CASE views' = views
  BY <1>1, <1>2, <1>4
<1>5. ASSUME NEW r \in Readers, NEW v, Fine(v), views' = [views EXCEPT ![r] = v]
      PROVE  /\ views' \in [Readers -> View]
             /\ \A q \in Readers : views'[q].pc # "idle" => Known(views'[q].row, bound')
             /\ \A q \in Readers : Supported(views'[q])
  <2>1. views' \in [Readers -> View] /\ \A q \in Readers : Fine(views'[q])
    <3> HIDE DEF Fine
    <3>1. \A q \in Readers : views'[q] = IF q = r THEN v ELSE views[q]
      BY <1>1, <1>5
    <3>2. v \in View
      BY <1>5 DEF Fine
    <3> QED
      BY <1>1, <1>5, <3>1, <3>2
  <2> QED
    BY <1>2, <2>1
<1>6. CASE \E r \in Readers : load_context(r)
  <2>1. PICK r \in Readers : load_context(r)
    BY <1>6
  <2> DEFINE v == [NoView EXCEPT !.pc = "loaded", !.row = bound, !.source = source]
  <2>2. bound \in Binding /\ bound.revision \in Nat
    BY <1>1, <2>1 DEF load_context, Binding
  <2>3. v \in View /\ v.pc = "loaded" /\ v.row = bound
    BY <1>1, <1>3, <2>2 DEF View
  <2>4. Fine(v)
    BY <2>2, <2>3 DEF Known, Supported
  <2> QED
    BY <1>5, <2>1, <2>4 DEF load_context
<1>7. ASSUME NEW r \in Readers, views[r].pc = "loaded", NEW read \in Reads \cup {Missing},
             NEW samples \in Samples \cup {Missing}, NEW answer \in Answer, Served(r, read, samples, answer),
             read # Missing =>
                /\ read \in Reads /\ samples \in Samples
                /\ \/ answer.health = compute_health(views[r].row, read, samples)
                   \/ answer.health.status # "healthy"
      PROVE  \E v : Fine(v) /\ views' = [views EXCEPT ![r] = v]
  <2> DEFINE v == [views[r] EXCEPT !.pc = "served", !.read = read, !.samples = samples, !.answer = answer]
  <2>1. views' = [views EXCEPT ![r] = v]
    BY <1>1, <1>7 DEF Served
  <2>2. /\ v \in View /\ v.pc = "served" /\ v.row = views[r].row /\ v.read = read
        /\ v.samples = samples /\ v.answer = answer
    BY <1>1, <1>7 DEF View
  <2>3. Known(v.row, bound)
    BY <1>1, <1>7, <2>2
  <2>4. v.row \in Binding
    BY <2>3 DEF Known
  <2>5. Supported(v)
    BY <1>7, <2>2, <2>4 DEF Supported
  <2> QED
    BY <2>1, <2>2, <2>3, <2>5
<1>8. CASE \E r \in Readers : CacheHit(r)
  <2>1. PICK r \in Readers : CacheHit(r)
    BY <1>8
  <2>2. PICK key \in DOMAIN fresh : Served(r, Missing, Missing, fresh[key])
    BY <2>1 DEF CacheHit
  <2>3. fresh[key] \in Answer /\ views[r].pc = "loaded"
    BY <2>1 DEF CacheHit, HealthInv, HealthTypeOK
  <2>4. \E v : Fine(v) /\ views' = [views EXCEPT ![r] = v]
    BY <1>7, <2>2, <2>3
  <2> QED
    BY <1>5, <2>4
<1>9. CASE \E r \in Readers, read \in Reads, samples \in Samples : current_health(r, read, samples)
  <2>1. PICK r \in Readers, read \in Reads, samples \in Samples : current_health(r, read, samples)
    BY <1>9
  <2> DEFINE key == cache_keys(views[r].row, views[r].source)
             verdict == Verdict(r, read, samples)
  <2>2. views[r].pc = "loaded" /\ samples \in Samples
    BY <2>1, HealthAssumption DEF current_health
  <2>3. verdict \in Answer /\ verdict.health = compute_health(views[r].row, read, samples)
    BY <2>2, VerdictIsAnswer DEF Verdict
  <2>4. CASE Served(r, read, samples, verdict)
    <3>1. \E v : Fine(v) /\ views' = [views EXCEPT ![r] = v]
      BY <1>7, <2>2, <2>3, <2>4
    <3> QED
      BY <1>5, <3>1
  <2>5. ASSUME NEW k \in DOMAIN lastGood,
               Served(r, read, samples, [lastGood[k] EXCEPT !.health.status = Stalely(@, TRUE)])
        PROVE  \E v : Fine(v) /\ views' = [views EXCEPT ![r] = v]
    <3> DEFINE old == lastGood[k]
               status == Stalely(old.health.status, TRUE)
               given == [old EXCEPT !.health = [old.health EXCEPT !.status = status]]
    <3>1. old \in Answer /\ old.health \in Judgement
      BY DEF HealthInv, HealthTypeOK, Answer
    <3>2. old.health.status \in Statuses
      BY <3>1, Severities DEF Judgement
    <3>3. status \in DOMAIN SEVERITY /\ status # "healthy"
      BY <3>2, StalelyDecided, Severities
    <3>4. given = [old EXCEPT !.health.status = Stalely(@, TRUE)]
      BY <3>1 DEF Answer
    <3> HIDE DEF status
    <3>5. /\ [old.health EXCEPT !.status = status] \in Judgement
          /\ [old.health EXCEPT !.status = status].status = status
      BY <3>1, <3>3 DEF Judgement
    <3>6. given \in Answer /\ given.health.status = status
      BY <3>1, <3>5 DEF Answer
    <3> HIDE DEF given
    <3> QED
      BY <1>7, <2>2, <2>5, <3>3, <3>4, <3>6
  <2>6. \/ Served(r, read, samples, verdict)
        \/ \E k \in DOMAIN lastGood :
              Served(r, read, samples, [lastGood[k] EXCEPT !.health.status = Stalely(@, TRUE)])
    BY <2>1 DEF current_health
  <2> QED
    BY <1>5, <2>4, <2>5, <2>6
<1>10. CASE \E r \in Readers : EndView(r)
  BY <1>3, <1>5, <1>10 DEF EndView
<1>11. CASE create_binding \/ resolve_pending_bindings \/ ReconfigureSource
  BY <1>4, <1>11 DEF create_binding, resolve_pending_bindings, ReconfigureSource
<1>12. CASE \E o \in Editors :
              \/ ViewBinding(o) \/ CheckRevision(o) \/ set_lifecycle(o) \/ update_binding(o)
              \/ refresh_resolution(o) \/ WriteResolution(o) \/ invalidate(o)
  BY <1>4, <1>12 DEF ViewBinding, CheckRevision, set_lifecycle, update_binding,
     refresh_resolution, WriteResolution, invalidate
<1>13. CASE \E key \in DOMAIN fresh \cup DOMAIN lastGood : Expire(key)
  BY <1>4, <1>13 DEF Expire
<1>14. CASE UNCHANGED healthVars
  BY <1>4, <1>14 DEF healthVars
<1> QED
  BY <1>6, <1>8, <1>9, <1>10, <1>11, <1>12, <1>13, <1>14 DEF HealthNext

\* Every step of service health keeps the invariant.
LEMMA HealthStep == HealthInv /\ [HealthNext]_healthVars => HealthInv'
<1> SUFFICES ASSUME HealthInv, [HealthNext]_healthVars
             PROVE  HealthInv'
  OBVIOUS
<1>1. BindingMoves
  BY BindingMovesSo
<1>2. CacheMoves(fresh, fresh') /\ CacheMoves(lastGood, lastGood')
  BY CachesMoveSo
<1>3. /\ bound \in Binding \cup {Missing} /\ seenUid \in Nat \cup {Missing} /\ source \in Nat
      /\ Addressed(fresh, bound) /\ Addressed(lastGood, bound)
      /\ \A key \in DOMAIN fresh : fresh[key] \in Answer
      /\ \A key \in DOMAIN lastGood : lastGood[key] \in Answer
  BY DEF HealthInv, HealthTypeOK
<1>4. /\ Addressed(fresh', bound') /\ Addressed(lastGood', bound')
      /\ \A key \in DOMAIN fresh' : fresh'[key] \in Answer
      /\ \A key \in DOMAIN lastGood' : lastGood'[key] \in Answer
  BY <1>1, <1>2, <1>3, CachesStayAddressed
<1>5. /\ edits' \in [Editors -> Edit]
      /\ \A o \in Editors : edits'[o].pc # "idle" => bound' # Missing
  BY <1>1, EditsStayInOrder
<1>6. /\ views' \in [Readers -> View]
      /\ \A r \in Readers : views'[r].pc # "idle" => Known(views'[r].row, bound')
      /\ \A r \in Readers : Supported(views'[r])
  BY <1>1, ViewsStayInOrder
<1>7. bound' \in Binding \cup {Missing}
  BY <1>1, <1>3 DEF BindingMoves
<1>8. seenUid' \in Nat \cup {Missing} /\ source' \in Nat
  <2>1. CASE resolve_pending_bindings
    BY <1>3, <2>1, HealthAssumption DEF resolve_pending_bindings
  <2>2. CASE ReconfigureSource
    BY <1>3, <2>2 DEF ReconfigureSource
  <2>3. CASE UNCHANGED <<seenUid, source>>
    BY <1>3, <2>3
  <2>4. CASE create_binding \/ UNCHANGED healthVars
    BY <2>3, <2>4 DEF create_binding, healthVars
  <2>5. CASE \E o \in Editors :
                \/ ViewBinding(o) \/ CheckRevision(o) \/ set_lifecycle(o) \/ update_binding(o)
                \/ refresh_resolution(o) \/ WriteResolution(o) \/ invalidate(o)
    BY <2>3, <2>5 DEF ViewBinding, CheckRevision, set_lifecycle, update_binding,
       refresh_resolution, WriteResolution, invalidate
  <2>6. CASE \E r \in Readers :
                \/ load_context(r) \/ CacheHit(r) \/ EndView(r)
                \/ \E read \in Reads, samples \in Samples : current_health(r, read, samples)
    BY <2>3, <2>6 DEF load_context, CacheHit, EndView, current_health
  <2>7. CASE \E key \in DOMAIN fresh \cup DOMAIN lastGood : Expire(key)
    BY <2>3, <2>7 DEF Expire
  <2> QED
    BY <2>1, <2>2, <2>4, <2>5, <2>6, <2>7 DEF HealthNext
<1> QED
  BY <1>4, <1>5, <1>6, <1>7, <1>8 DEF HealthInv, HealthTypeOK

\* Every behaviour of service health keeps the invariant.
LEMMA HealthInvariant == HealthSpec => []HealthInv
  BY HealthInitially, HealthStep, PTL DEF HealthSpec

(* However slow the read that stored it and whatever edits, resolutions    *)
(* and reconfigurations it overlapped, a verdict the cache gives for the   *)
(* binding as it is was computed for this lifecycle, workload, policy,     *)
(* preset and datasource.                                                  *)
THEOREM NoStaleVerdict == HealthSpec => []NoStaleVerdictAddressable
<1>1. HealthInv => NoStaleVerdictAddressable
  <2> SUFFICES ASSUME HealthInv, bound # Missing, NEW cache \in {fresh, lastGood},
                      cache_keys(bound, source) \in DOMAIN cache
               PROVE  LET key == cache_keys(bound, source) IN
                      /\ cache[key].row.lifecycle = bound.lifecycle
                      /\ cache[key].row.uid = bound.uid
                      /\ cache[key].row.policy = bound.policy
                      /\ cache[key].row.preset = bound.preset /\ cache[key].source = source
    BY DEF NoStaleVerdictAddressable
  <2> DEFINE key == cache_keys(bound, source)
             held == cache[key]
  <2>1. Known(held.row, bound) /\ key = cache_keys(held.row, held.source)
    BY DEF HealthInv, Addressed
  <2>2. /\ held.row.revision = bound.revision /\ held.row.uid = bound.uid
        /\ held.row.policy = bound.policy /\ held.row.preset = bound.preset
        /\ held.source = source
    BY <2>1 DEF cache_keys
  <2> QED
    BY <2>1, <2>2 DEF Known
<1> QED
  BY <1>1, HealthInvariant, PTL

(* A healthy verdict rests on replicas, restarts and usage that were       *)
(* measured, recently and not by a last good answer, and on no measure     *)
(* past the first threshold of its policy: restarts, usage of cpu and      *)
(* memory against their limits, throttling, errors and latency.  And a     *)
(* signal that was lost is never what makes a verdict critical.            *)
THEOREM VerdictsRestOnEvidence == HealthSpec => []VerdictsNeedEvidence
<1>1. HealthInv => VerdictsNeedEvidence
  <2> SUFFICES ASSUME HealthInv
               PROVE  HealthyIsEvidenced /\ LosingASignalAccusesNobody
    BY DEF VerdictsNeedEvidence
  <2>1. \A r \in Readers : Computed(r) =>
          /\ views[r].read \in Reads /\ views[r].samples \in Samples /\ views[r].row \in Binding
          /\ \/ views[r].answer.health
                  = compute_health(views[r].row, views[r].read, views[r].samples)
             \/ views[r].answer.health.status # "healthy"
    BY HealthAssumption DEF HealthInv, Supported, Computed
  <2>2. HealthyIsEvidenced
    BY <2>1, HealthyVerdicts DEF HealthyIsEvidenced
  <2>3. LosingASignalAccusesNobody
    <3> SUFFICES ASSUME NEW r \in Readers, Computed(r), NEW s \in SIGNAL_FIELDS,
                        NEW lost \in {QUERY_FAILED, Missing}, NEW others \in Samples,
                        compute_health(views[r].row, [views[r].read EXCEPT ![s] = lost],
                                       others).status = "critical"
                 PROVE  compute_health(views[r].row, views[r].read, views[r].samples).status
                          = "critical"
      BY DEF LosingASignalAccusesNobody
    <3>1. views[r].read \in Reads /\ views[r].row.preset \in DOMAIN PRESETS
      BY <2>1 DEF Binding
    <3>2. DOMAIN views[r].read = SIGNAL_FIELDS /\ ~Measured(lost)
      BY <3>1, HealthAssumption DEF Measured
    <3>3. SaysLess([views[r].read EXCEPT ![s] = lost], views[r].read)
      BY <3>2 DEF SaysLess
    <3> QED
      BY <3>1, <3>3, CriticalVerdicts
  <2> QED
    BY <2>2, <2>3
<1> QED
  BY <1>1, HealthInvariant, PTL

----------------------------------------------------------------------------
(* Data protection.                                                        *)

(* A row of the projections stands for one accepted event, and no accepted *)
(* event that went to it is newer.  This is what makes the property        *)
(* inductive: a value alone does not say which event it came from, nor     *)
(* that an older one may still be refused as stale.                        *)
RowsTold ==
    /\ DOMAIN went = Accepted
    /\ \A e \in Accepted :
          /\ went[e] \in DOMAIN evidence
          /\ story[e].at <= evidence[went[e]].at
    /\ \A id \in DOMAIN evidence :
          \E e \in Accepted :
             /\ went[e] = id
             /\ evidence[id].policy = story[e].policy
             /\ evidence[id].value = story[e].value
             /\ evidence[id].at = story[e].at

\* What says by itself which row it is about, or does so by a key of one artifact.
Certain(e) == story[e].kind \in {"run", "artifact", "drill"} \/ OneArtifactPerKey

\* An accepted event went to a row of its kind, and to the right one if it says which.
RightRows == \A e \in Accepted :
    /\ went[e].kind = story[e].kind
    /\ Certain(e) => went[e] = Entity(e)

\* A request is a record of its parts, and an evaluation is of a policy.
Requests(why, at, read) ==
    [pc : {"idle", "due", "reading", "judging", "looked"}, left : SUBSET Policies,
     why : {why}, at : {at}, read : {read}, seen : BOOLEAN, policy : Policies \cup {Unbound}]

IsRequest(r) ==
    /\ r \in Requests(r.why, r.at, r.read)
    /\ r.pc \in {"reading", "judging", "looked"} => r.policy \in Policies

\* An evaluation under way, and every incident, is about a policy.
AboutPolicies ==
    /\ handlers = [h \in Handlers |-> handlers[h]]
    /\ \A h \in Handlers : IsRequest(handlers[h])
    /\ \A n \in DOMAIN incidents : incidents[n].policy \in Policies

ProtectionInv ==
    /\ hour \in 1..MaxHour
    /\ story \in Stories
    /\ DOMAIN events \subseteq DOMAIN story
    /\ \A e \in DOMAIN events : events[e] \in {"applied", "ignored_stale", "rejected"}
    /\ RowsTold
    /\ RightRows
    /\ AboutPolicies

\* An event finds a row of its kind, and one that says which row it is about finds
\* that one: the artifacts of its key are one artifact when no two runs share a key.
LEMMA IdentityIsEntity ==
    ASSUME ProtectionInv, NEW e \in DOMAIN story, ParentKnown(story[e])
    PROVE  /\ Identity(story[e]).kind = story[e].kind
           /\ Certain(e) => Identity(story[e]) = Entity(e)
<1> DEFINE fact == story[e]
<1>0. story \in Stories /\ IsFact(fact)
  BY StoryAssumption DEF ProtectionInv
<1>1. CASE fact.kind \in {"run", "artifact", "drill"}
  BY <1>0, <1>1 DEF Identity, Entity, Id, IsFact
<1>2. CASE fact.kind \in {"integrity", "copy"}
  <2> DEFINE found == {id \in Rows("artifact") : id.key = fact.key}
  <2>1. \E id \in Rows("artifact") : id.key = fact.key
    BY <1>2 DEF ParentKnown, Names
  <2>2. ASSUME OneArtifactPerKey, NEW id \in found
        PROVE  id = Id("artifact", fact.run, fact.key) /\ evidence[id].at \in Nat
    <3>1. id \in DOMAIN evidence /\ id.kind = "artifact" /\ id.key = fact.key
      BY DEF Rows
    <3>2. PICK o \in Accepted : went[o] = id /\ evidence[id].at = story[o].at
      BY <3>1 DEF ProtectionInv, RowsTold
    <3>3. o \in DOMAIN story
      BY DEF ProtectionInv, Accepted
    <3>4. story[o].kind = "artifact" /\ id = Entity(o)
      BY <2>2, <3>1, <3>2 DEF ProtectionInv, RightRows, Certain
    <3>5. story[o].key = fact.key
      BY <3>1, <3>4 DEF Entity, Id
    <3>6. story[o].run = fact.run
      BY <1>2, <2>2, <3>3, <3>4, <3>5 DEF OneArtifactPerKey
    <3>7. story[o].at \in Nat
      BY <1>0, <3>3, StoryAssumption DEF IsFact
    <3> QED
      BY <3>2, <3>4, <3>5, <3>6, <3>7 DEF Entity
  <2>3. ASSUME OneArtifactPerKey PROVE artifact_id(fact.key).run = fact.run
    <3>1. found = {Id("artifact", fact.run, fact.key)}
      BY <2>1, <2>2, <2>3
    <3>2. \E id \in found : \A other \in found : evidence[other].at <= evidence[id].at
      BY <2>2, <2>3, <3>1
    <3>3. artifact_id(fact.key) \in found
      BY <3>2 DEF artifact_id, Newest
    <3> QED
      BY <3>1, <3>3 DEF Id
  <2>4. Identity(fact) = Id(fact.kind, artifact_id(fact.key).run, fact.key)
    BY <1>2 DEF Identity
  <2> QED
    BY <1>2, <2>3, <2>4 DEF Entity, Id, Certain
<1> QED
  BY <1>0, <1>1, <1>2 DEF IsFact, Kinds

\* Applying an event, whenever it arrives, leaves the newest word in its row.
LEMMA AppliedEventTells ==
    ASSUME ProtectionInv, NEW e \in DOMAIN story, apply_event(e), UNCHANGED story
    PROVE  /\ RowsTold'
           /\ RightRows'
           /\ DOMAIN events' \subseteq DOMAIN story'
           /\ \A o \in DOMAIN events' : events'[o] \in {"applied", "ignored_stale", "rejected"}
<1> DEFINE fact == story[e]  row == Identity(story[e])
<1>1. row.kind = fact.kind /\ (Certain(e) => row = Entity(e))
  BY IdentityIsEntity DEF apply_event
<1>2. fact.at \in Nat
  BY StoryAssumption DEF ProtectionInv, IsFact
<1>3. \A o \in Accepted : story[o].at \in Nat
  BY StoryAssumption DEF ProtectionInv, IsFact, Accepted
<1>4. \A id \in DOMAIN evidence : evidence[id].at \in Nat
  BY <1>3 DEF ProtectionInv, RowsTold
<1>5. /\ DOMAIN events' = DOMAIN events \cup {e}
      /\ \A o \in DOMAIN events : events'[o] = events[o]
      /\ events'[e] \in {"applied", "ignored_stale"}
      /\ e \notin DOMAIN events
  BY DEF apply_event
<1>6. \A o : Entity(o)' = Entity(o) /\ Certain(o)' = Certain(o)
  BY DEF Entity, Certain, OneArtifactPerKey
<1>7. Accepted' = Accepted \cup {e} /\ e \notin Accepted
  BY <1>5 DEF Accepted
<1>8. /\ DOMAIN went' = Accepted'
      /\ went'[e] = row
      /\ \A o \in Accepted : went'[o] = went[o]
  <2>1. went' = [id \in DOMAIN went \cup {e} |-> IF id = e THEN row ELSE went[id]]
    BY DEF apply_event
  <2>2. DOMAIN went = Accepted
    BY DEF ProtectionInv, RowsTold
  <2> HIDE DEF row
  <2> QED
    BY <1>7, <2>1, <2>2
<1>9. RightRows'
  <2> HIDE DEF row
  <2> SUFFICES ASSUME NEW o \in Accepted'
               PROVE  went'[o].kind = story[o].kind /\ (Certain(o) => went'[o] = Entity(o))
    BY <1>6 DEF RightRows
  <2>1. CASE o = e
    BY <1>1, <1>8, <2>1
  <2>2. CASE o \in Accepted
    BY <1>8, <2>2 DEF ProtectionInv, RightRows
  <2> QED
    BY <1>7, <2>1, <2>2
<1>10. CASE NotOlder(fact)
  <2>1. evidence' = [id \in DOMAIN evidence \cup {row} |->
                       IF id = row THEN Merged(fact) ELSE evidence[id]]
    BY <1>10 DEF apply_event
  <2>2. /\ Merged(fact).policy = fact.policy
        /\ Merged(fact).value = fact.value
        /\ Merged(fact).at = fact.at
    BY DEF Merged, RowOf
  <2>3. row \in DOMAIN evidence => evidence[row].at <= fact.at
    BY <1>10 DEF NotOlder
  <2> HIDE DEF row, fact
  <2>4. ASSUME NEW o \in Accepted'
        PROVE  went'[o] \in DOMAIN evidence' /\ story[o].at <= evidence'[went'[o]].at
    <3>1. CASE o = e
      BY <1>2, <1>8, <2>1, <2>2, <3>1 DEF fact
    <3>2. CASE o \in Accepted /\ went[o] = row
      <4>1. went[o] \in DOMAIN evidence /\ story[o].at <= evidence[went[o]].at
        BY <3>2 DEF ProtectionInv, RowsTold
      <4>2. evidence'[row].at = fact.at /\ row \in DOMAIN evidence'
        BY <2>1, <2>2
      <4>3. /\ story[o].at \in Nat /\ fact.at \in Nat /\ evidence[row].at \in Nat
            /\ story[o].at <= evidence[row].at /\ evidence[row].at <= fact.at
        BY <1>2, <1>3, <1>4, <2>3, <3>2, <4>1
      <4> QED
        BY <1>8, <3>2, <4>2, <4>3
    <3>3. CASE o \in Accepted /\ went[o] # row
      BY <1>8, <2>1, <3>3 DEF ProtectionInv, RowsTold
    <3> QED
      BY <1>7, <3>1, <3>2, <3>3
  <2>5. ASSUME NEW id \in DOMAIN evidence'
        PROVE  \E o \in Accepted' :
                  /\ went'[o] = id
                  /\ evidence'[id].policy = story[o].policy
                  /\ evidence'[id].value = story[o].value
                  /\ evidence'[id].at = story[o].at
    <3>1. CASE id = row
      BY <1>7, <1>8, <2>1, <2>2, <3>1 DEF fact
    <3>2. CASE id # row
      <4>1. id \in DOMAIN evidence /\ evidence'[id] = evidence[id]
        BY <2>1, <3>2
      <4> QED
        BY <1>7, <1>8, <4>1 DEF ProtectionInv, RowsTold
    <3> QED
      BY <3>1, <3>2
  <2>6. RowsTold'
    BY <1>8, <2>4, <2>5 DEF RowsTold
  <2> QED
    BY <1>5, <1>9, <2>6 DEF ProtectionInv
<1>11. CASE ~NotOlder(fact)
  <2>1. evidence' = evidence
    BY <1>11 DEF apply_event
  <2>2. row \in DOMAIN evidence /\ ~(evidence[row].at <= fact.at)
    BY <1>11 DEF NotOlder
  <2> HIDE DEF row, fact
  <2>3. fact.at <= evidence[row].at
    BY <1>2, <1>4, <2>2
  <2>4. \A o \in Accepted' : went'[o] \in DOMAIN evidence' /\ story[o].at <= evidence'[went'[o]].at
    BY <1>7, <1>8, <2>1, <2>2, <2>3 DEF ProtectionInv, RowsTold, fact
  <2>5. RowsTold'
    BY <1>7, <1>8, <2>1, <2>4 DEF ProtectionInv, RowsTold
  <2> QED
    BY <1>5, <1>9, <2>5 DEF ProtectionInv
<1> QED
  BY <1>10, <1>11

\* An event of an unknown type is answered for, and nothing else.
LEMMA UnknownTypeTellsNothing ==
    ASSUME ProtectionInv, NEW e \in DOMAIN story, unknown_type(e)
    PROVE  /\ RowsTold'
           /\ RightRows'
           /\ DOMAIN events' \subseteq DOMAIN story'
           /\ \A o \in DOMAIN events' : events'[o] \in {"applied", "ignored_stale", "rejected"}
<1>1. /\ DOMAIN events' = DOMAIN events \cup {e}
      /\ \A o \in DOMAIN events : events'[o] = events[o]
      /\ events'[e] = "rejected"
      /\ e \notin DOMAIN events
  BY DEF unknown_type
<1>2. Accepted' = Accepted
  BY <1>1 DEF Accepted
<1>3. UNCHANGED <<story, evidence, went>>
  BY DEF unknown_type
<1>4. RowsTold'
  BY <1>2, <1>3 DEF ProtectionInv, RowsTold
<1>5. RightRows'
  BY <1>2, <1>3 DEF ProtectionInv, RightRows, Certain, OneArtifactPerKey, Entity
<1> QED
  BY <1>1, <1>3, <1>4, <1>5 DEF ProtectionInv

\* An evaluation, and the incident it keeps, stay about a policy.
LEMMA EvaluationsAboutPolicies ==
    ASSUME ProtectionInv, ProtectionNext
    PROVE  AboutPolicies'
<1>0. AboutPolicies
  BY DEF ProtectionInv
<1>1. CASE UNCHANGED <<handlers, incidents>>
  BY <1>0, <1>1 DEF AboutPolicies
<1>2. ASSUME NEW h \in Handlers, NEW v, IsRequest(v),
             handlers' = [handlers EXCEPT ![h] = v]
      PROVE  /\ handlers' = [k \in Handlers |-> handlers'[k]]
             /\ \A k \in Handlers : IsRequest(handlers'[k])
  <2>1. /\ handlers = [k \in Handlers |-> handlers[k]]
        /\ \A k \in Handlers : IsRequest(handlers[k])
    BY <1>0 DEF AboutPolicies
  <2> QED
    BY <1>2, <2>1
<1>3. ASSUME NEW h \in Handlers, NEW v, IsRequest(v),
             handlers' = [handlers EXCEPT ![h] = v], UNCHANGED incidents
      PROVE  AboutPolicies'
  <2>1. /\ handlers' = [k \in Handlers |-> handlers'[k]]
        /\ \A k \in Handlers : IsRequest(handlers'[k])
    BY <1>2, <1>3
  <2> QED
    BY <1>0, <1>3, <2>1 DEF AboutPolicies
<1>4. \A pc \in {"idle", "due"}, left \in SUBSET Policies :
         IsRequest([AtEase EXCEPT !.pc = pc, !.left = left])
  <2> SUFFICES ASSUME NEW pc \in {"idle", "due"}, NEW left \in SUBSET Policies
               PROVE  IsRequest([AtEase EXCEPT !.pc = pc, !.left = left])
    OBVIOUS
  <2> DEFINE r == [AtEase EXCEPT !.pc = pc, !.left = left]
  <2>1. r \in Requests({}, 0, 0) /\ r.pc = pc
    BY DEF AtEase, Requests
  <2> HIDE DEF r
  <2>2. IsRequest(r)
    BY <2>1 DEF IsRequest, Requests
  <2> QED
    BY <2>2 DEF r
<1>5. IsRequest(AtEase)
  BY DEF IsRequest, AtEase, Requests
<1>6. ASSUME NEW h \in Handlers, NEW e, ingest_event(h, e) PROVE AboutPolicies'
  <2>1. IsRequest([AtEase EXCEPT !.pc = "due", !.left = Policies])
    BY <1>4
  <2>2. CASE handlers' = [handlers EXCEPT ![h] = [AtEase EXCEPT !.pc = "due", !.left = Policies]]
    BY <1>3, <1>6, <2>1, <2>2 DEF ingest_event
  <2> QED
    BY <1>1, <1>6, <2>2 DEF ingest_event
<1>7. ASSUME NEW h \in Handlers, complete_snapshot(h) PROVE AboutPolicies'
  <2>1. IsRequest([AtEase EXCEPT !.pc = "due", !.left = Policies])
    BY <1>4
  <2> QED
    BY <1>3, <1>7, <2>1 DEF complete_snapshot
<1>8. ASSUME NEW h \in Handlers, NEW p \in Policies, evaluate_policy(h, p)
      PROVE  AboutPolicies'
  <2> DEFINE v == [AtEase EXCEPT !.pc = "reading", !.left = handlers[h].left \ {p},
                                 !.at = hour, !.policy = p]
  <2>1. handlers' = [handlers EXCEPT ![h] = v] /\ UNCHANGED incidents
    BY <1>8 DEF evaluate_policy
  <2>2. handlers[h].left \in SUBSET Policies
    BY <1>0 DEF AboutPolicies, IsRequest, Requests
  <2>3. v \in Requests({}, hour, 0) /\ v.policy = p
    BY <2>2 DEF Requests, AtEase
  <2> HIDE DEF v
  <2>4. IsRequest(v)
    BY <2>3 DEF IsRequest, Requests
  <2> QED
    BY <1>3, <2>1, <2>4
<1>12. ASSUME NEW h \in Handlers, gather_evidence(h) PROVE AboutPolicies'
  <2> DEFINE me == handlers[h]
  <2>1. IsRequest(me) /\ me.pc = "reading"
    BY <1>0, <1>12 DEF gather_evidence, AboutPolicies
  <2>2. me \in Requests(me.why, me.at, me.read) /\ me.policy \in Policies
    BY <2>1 DEF IsRequest
  <2>3. ASSUME NEW pc \in {"reading", "judging"}, NEW why, NEW read,
               handlers' = [handlers EXCEPT ![h] =
                              [me EXCEPT !.pc = pc, !.read = read, !.why = why]]
        PROVE  AboutPolicies'
    <3> DEFINE v == [me EXCEPT !.pc = pc, !.read = read, !.why = why]
    <3> HIDE DEF me
    <3>1. v \in Requests(why, me.at, read) /\ v.policy = me.policy
      BY <2>2 DEF Requests
    <3> HIDE DEF v
    <3>2. IsRequest(v)
      BY <2>2, <3>1 DEF IsRequest, Requests
    <3>3. handlers' = [handlers EXCEPT ![h] = v]
      BY <2>3 DEF v
    <3> QED
      BY <1>3, <1>12, <3>2, <3>3 DEF gather_evidence
  <2> DEFINE found == me.why \cup Found(Statements[me.read + 1], me.policy, me.at)
             more == [me EXCEPT !.read = me.read + 1, !.why = found]
             done == [me EXCEPT !.pc = "judging", !.read = 0, !.why = evaluate_protection(found)]
  <2>4. \/ handlers' = [handlers EXCEPT ![h] = done]
        \/ handlers' = [handlers EXCEPT ![h] = more]
    BY <1>12 DEF gather_evidence
  <2> HIDE DEF me, found
  <2>5. more = [me EXCEPT !.pc = "reading", !.read = me.read + 1, !.why = found]
    BY <2>1, <2>2 DEF Requests
  <2> HIDE DEF more
  <2> QED
    BY <2>3, <2>4, <2>5
<1>9. ASSUME NEW h \in Handlers, LookForIncident(h) PROVE AboutPolicies'
  <2> DEFINE me == handlers[h]
             found == place[me.policy] # Nowhere /\ Active(me.policy) # {}
             v == [me EXCEPT !.pc = "looked", !.seen = found]
  <2>1. IsRequest(me) /\ me.pc = "judging"
    BY <1>0, <1>9 DEF LookForIncident, AboutPolicies
  <2>2. handlers' = [handlers EXCEPT ![h] = v] /\ UNCHANGED incidents
    BY <1>9 DEF LookForIncident
  <2> HIDE DEF me, found
  <2>3. me \in Requests(me.why, me.at, me.read) /\ me.policy \in Policies
    BY <2>1 DEF IsRequest
  <2>4. found \in BOOLEAN
    BY DEF found
  <2>5. v \in Requests(me.why, me.at, me.read) /\ v.policy = me.policy
    BY <2>3, <2>4 DEF Requests
  <2> HIDE DEF v
  <2>6. IsRequest(v)
    BY <2>3, <2>5 DEF IsRequest, Requests
  <2> QED
    BY <1>3, <2>2, <2>6 DEF v
<1>10. ASSUME NEW h \in Handlers, sync_incident(h) PROVE AboutPolicies'
  <2>1. handlers[h].policy \in Policies
    BY <1>0, <1>10 DEF sync_incident, AboutPolicies, IsRequest
  <2>0. handlers[h].left \in SUBSET Policies
    BY <1>0 DEF AboutPolicies, IsRequest, Requests
  <2>2. PICK pc \in {"idle", "due"}, left \in SUBSET Policies :
           handlers' = [handlers EXCEPT ![h] = [AtEase EXCEPT !.pc = pc, !.left = left]]
    BY <1>10, <2>0 DEF sync_incident
  <2>3. IsRequest([AtEase EXCEPT !.pc = pc, !.left = left])
    BY <1>4, <2>2
  <2>4. /\ handlers' = [k \in Handlers |-> handlers'[k]]
        /\ \A k \in Handlers : IsRequest(handlers'[k])
    BY <1>2, <2>2, <2>3
  <2>5. CASE incidents' = Append(incidents, [policy |-> handlers[h].policy, open |-> TRUE])
    <3>1. \A n \in DOMAIN incidents' : incidents'[n].policy \in Policies
      BY <1>0, <2>1, <2>5 DEF AboutPolicies
    <3> QED
      BY <2>4, <3>1 DEF AboutPolicies
  <2>6. CASE UNCHANGED incidents
    BY <1>0, <2>4, <2>6 DEF AboutPolicies
  <2>7. CASE incidents' = [n \in DOMAIN incidents |->
               IF handlers[h].seen /\ n \in Active(handlers[h].policy)
                 THEN [incidents[n] EXCEPT !.open = FALSE] ELSE incidents[n]]
    BY <1>0, <2>4, <2>7 DEF AboutPolicies
  <2> QED
    BY <1>10, <2>5, <2>6, <2>7 DEF sync_incident
<1>11. ASSUME NEW h \in Handlers, EvaluationFails(h) PROVE AboutPolicies'
  <2>0. handlers[h].left \in SUBSET Policies
    BY <1>0 DEF AboutPolicies, IsRequest, Requests
  <2>1. PICK left \in SUBSET Policies : handlers' = [handlers EXCEPT ![h] =
           IF left = {} THEN AtEase ELSE [AtEase EXCEPT !.pc = "due", !.left = left]]
    BY <1>11, <2>0 DEF EvaluationFails
  <2>2. IsRequest([AtEase EXCEPT !.pc = "due", !.left = left])
    BY <1>4
  <2>3. PICK v : IsRequest(v) /\ handlers' = [handlers EXCEPT ![h] = v]
    BY <1>5, <2>1, <2>2
  <2> QED
    BY <1>3, <1>11, <2>3 DEF EvaluationFails
<1> QED
  BY <1>1, <1>6, <1>7, <1>8, <1>9, <1>10, <1>11, <1>12
     DEF ProtectionNext, HourPasses, begin_snapshot, snapshot_page, unknown_type

\* The invariant of the Protection Center is inductive.
LEMMA ProtectionNextInv ==
    ProtectionInv /\ [ProtectionNext]_protectionVars => ProtectionInv'
<1> SUFFICES ASSUME ProtectionInv, [ProtectionNext]_protectionVars
             PROVE  ProtectionInv'
  OBVIOUS
<1> DEFINE Told == /\ RowsTold
                   /\ RightRows
                   /\ DOMAIN events \subseteq DOMAIN story
                   /\ \A e \in DOMAIN events :
                         events[e] \in {"applied", "ignored_stale", "rejected"}
<1>0. UNCHANGED <<story, events, evidence, went>> => Told'
  BY DEF ProtectionInv, RowsTold, RightRows, Certain, OneArtifactPerKey, Entity, Accepted
<1>1. CASE UNCHANGED protectionVars
  <2>1. Told' /\ AboutPolicies' /\ UNCHANGED <<hour, story>>
    BY <1>0, <1>1 DEF ProtectionInv, AboutPolicies, protectionVars
  <2> QED
    BY <2>1 DEF ProtectionInv
<1>2. CASE ProtectionNext
  <2>1. AboutPolicies'
    BY <1>2, EvaluationsAboutPolicies
  <2>2. story' = story
    BY <1>2 DEF ProtectionNext, HourPasses, begin_snapshot, snapshot_page, ingest_event,
                unknown_type, complete_snapshot, evaluate_policy, gather_evidence,
                LookForIncident, sync_incident, EvaluationFails, Evaluating
  <2>3. hour' \in 1..MaxHour
    <3>1. hour \in 1..MaxHour /\ MaxHour \in Nat
      BY ProtectionAssumption DEF ProtectionInv
    <3>2. hour' = hour \/ (hour < MaxHour /\ hour' = hour + 1)
      BY <1>2 DEF ProtectionNext, HourPasses, begin_snapshot, snapshot_page, ingest_event,
                  unknown_type, complete_snapshot, evaluate_policy, gather_evidence,
                  LookForIncident, sync_incident, EvaluationFails, Evaluating
    <3> QED
      BY <3>1, <3>2
  <2>4. ASSUME \E e \in DOMAIN story : apply_event(e) PROVE Told'
    BY <2>2, <2>4, AppliedEventTells
  <2>5. ASSUME \E e \in DOMAIN story : unknown_type(e) PROVE Told'
    BY <2>5, UnknownTypeTellsNothing
  <2>6. ASSUME UNCHANGED <<events, evidence, went>> PROVE Told'
    BY <1>0, <2>2, <2>6
  <2>7. Told'
    BY <1>2, <2>4, <2>5, <2>6
       DEF ProtectionNext, HourPasses, begin_snapshot, snapshot_page, ingest_event,
           complete_snapshot, evaluate_policy, gather_evidence, LookForIncident,
           sync_incident, EvaluationFails, Evaluating
  <2> QED
    BY <2>1, <2>2, <2>3, <2>7 DEF ProtectionInv
<1> QED
  BY <1>1, <1>2 DEF protectionVars

\* Nothing is known, and nothing is being evaluated, at the start.
LEMMA ProtectionInitInv == ProtectionInit => ProtectionInv
<1> SUFFICES ASSUME ProtectionInit PROVE ProtectionInv
  OBVIOUS
<1>1. DOMAIN events = {} /\ DOMAIN evidence = {} /\ DOMAIN incidents = {}
  BY DEF ProtectionInit
<1>2. hour \in 1..MaxHour
  BY ProtectionAssumption DEF ProtectionInit
<1>3. AboutPolicies
  BY <1>1 DEF ProtectionInit, AboutPolicies, IsRequest, Requests, AtEase
<1>4. Accepted = {} /\ DOMAIN went = {}
  BY <1>1 DEF Accepted, ProtectionInit
<1> QED
  BY <1>1, <1>2, <1>3, <1>4 DEF ProtectionInit, ProtectionInv, RowsTold, RightRows

\* The invariant says what the property promises.
LEMMA ToldMeansForgotten == ProtectionInv => ArrivalOrderIsForgotten
<1> SUFFICES ASSUME ProtectionInv PROVE ArrivalOrderIsForgotten
  OBVIOUS
<1>0. story \in Stories /\ DOMAIN events \subseteq DOMAIN story
  BY DEF ProtectionInv
<1>1. \A e \in DOMAIN story : IsFact(story[e])
  BY <1>0, StoryAssumption
<1>2. Accepted \subseteq DOMAIN story
  BY <1>0 DEF Accepted
<1>3. ASSUME NEW id \in DOMAIN evidence
      PROVE  id.kind \in Kinds /\ evidence[id].policy \in Policies
  <2>1. PICK o \in Accepted : went[o] = id /\ evidence[id].policy = story[o].policy
    BY DEF ProtectionInv, RowsTold
  <2>2. story[o].kind \in Kinds /\ story[o].policy \in Policies
    BY <1>1, <1>2 DEF IsFact
  <2>3. id.kind = story[o].kind
    BY <2>1 DEF ProtectionInv, RightRows
  <2> QED
    BY <2>1, <2>2, <2>3
<1>4. ProtectionTypeOK
  BY <1>1, <1>3 DEF ProtectionInv, AboutPolicies, ProtectionTypeOK
<1>5. ASSUME NEW e \in Accepted
      PROVE  LET same == {o \in Accepted : went[o] = went[e]}
             IN  \E last \in same : /\ \A o \in same : story[o].at <= story[last].at
                                    /\ evidence[went[e]].value = story[last].value
  <2> DEFINE same == {o \in Accepted : went[o] = went[e]}
  <2>1. went[e] \in DOMAIN evidence
    BY DEF ProtectionInv, RowsTold
  <2>2. PICK last \in Accepted : /\ went[last] = went[e]
                                 /\ evidence[went[e]].value = story[last].value
                                 /\ evidence[went[e]].at = story[last].at
    BY <2>1 DEF ProtectionInv, RowsTold
  <2>3. \A o \in same : story[o].at <= story[last].at
    BY <2>2 DEF ProtectionInv, RowsTold
  <2> QED
    BY <2>2, <2>3
<1>6. NewestWordStands
  BY <1>5 DEF NewestWordStands
<1>7. \A e \in Accepted :
         story[e].kind \in {"run", "artifact", "drill"} \/ OneArtifactPerKey
            => went[e] = Entity(e)
  BY DEF ProtectionInv, RightRows, Certain
<1> QED
  BY <1>4, <1>6, <1>7 DEF ArrivalOrderIsForgotten

\* Whatever was late, repeated, refused at first or delivered in pages, a projected row
\* says what the provider said last of what was accepted and went to it; and what went to
\* a row is what was meant for it, for runs, artifacts and drills always, and for checks
\* and copies when the provider gives no two runs an artifact of one key.
THEOREM ArrivalOrderNeverMatters == ProtectionSpec => []ArrivalOrderIsForgotten
BY ProtectionInitInv, ProtectionNextInv, ToldMeansForgotten, PTL DEF ProtectionSpec

----------------------------------------------------------------------------
(* Sums over a finite set.  MapThenSumSet picks the elements in an order of *)
(* its own; a sum is what it computes when the order does not matter.       *)

\* What MapThenSumSet evaluates: f adds the weights of a set one by one.
Tally(f, w, S) ==
    f = [s \in SUBSET S |->
            IF s = {} THEN 0
            ELSE LET x == CHOOSE x \in s : TRUE IN w[x] + f[s \ {x}]]

\* f is the sum of the weights, whichever element is taken first.
IsSum(f, w, S) ==
    /\ f \in [SUBSET S -> Nat]
    /\ f[{}] = 0
    /\ \A s \in SUBSET S : \A x \in s : f[s] = w[x] + f[s \ {x}]

\* A set of numbers that is not empty has a least.
LEMMA LeastNumber ==
    ASSUME NEW S, S \subseteq Nat, S # {}
    PROVE  \E m \in S : \A n \in S : m <= n
<1> DEFINE R == {p \in Nat \X Nat : p[1] < p[2]}
<1>1. IsWellFoundedOn(R, Nat)
  <2>1. R = OpToRel(<, Nat)
    BY DEF OpToRel
  <2> QED
    BY <2>1, NatLessThanWellFounded
<1>2. PICK m \in S : \A n \in S : ~(<<n, m>> \in R)
  <2> HIDE DEF R
  <2> QED
    BY <1>1, WFMin
<1>3. ASSUME NEW n \in S PROVE m <= n
  <2>1. ~(n < m)
    BY <1>2
  <2> QED
    BY <2>1
<1> QED
  BY <1>3

\* Among subsets of a finite set one is smallest: induction over a set.
LEMMA SmallestSubset ==
    ASSUME NEW S, IsFiniteSet(S), NEW B, B \subseteq SUBSET S, B # {}
    PROVE  \E s \in B : \A t \in SUBSET s : t # s => t \notin B
<1> DEFINE sizes == {Cardinality(t) : t \in B}
<1>1. \A t \in B : IsFiniteSet(t) /\ Cardinality(t) \in Nat
  BY FS_Subset, FS_CardinalityType
<1>2. sizes \subseteq Nat /\ sizes # {}
  BY <1>1
<1>3. PICK m \in sizes : \A n \in sizes : m <= n
  <2> HIDE DEF sizes
  <2> QED
    BY <1>2, LeastNumber
<1>4. PICK s \in B : Cardinality(s) = m
  BY <1>3
<1>5. ASSUME NEW t \in SUBSET s, t # s, t \in B PROVE FALSE
  <2>1. IsFiniteSet(s) /\ Cardinality(s) \in Nat /\ Cardinality(t) \in Nat
    BY <1>1, <1>5
  <2>2. Cardinality(t) < Cardinality(s)
    BY <1>5, <2>1, FS_Subset
  <2>3. Cardinality(t) \in sizes
    BY <1>5
  <2> QED
    BY <1>3, <1>4, <2>1, <2>2, <2>3
<1> QED
  BY <1>5

\* Taking an element out makes a set one smaller.
LEMMA OneOut ==
    ASSUME NEW S, IsFiniteSet(S), NEW s \in SUBSET S, s # {}
    PROVE  LET x == CHOOSE x \in s : TRUE
           IN  /\ x \in s /\ s \ {x} \in SUBSET S
               /\ Cardinality(s) \in Nat /\ Cardinality(s \ {x}) \in Nat
               /\ Cardinality(s \ {x}) = Cardinality(s) - 1
<1> DEFINE x == CHOOSE x \in s : TRUE
<1>1. x \in s
  OBVIOUS
<1>2. IsFiniteSet(s)
  BY FS_Subset
<1> HIDE DEF x
<1>3. IsFiniteSet(s \ {x}) /\ Cardinality(s \ {x}) = Cardinality(s) - 1
  BY <1>1, <1>2, FS_RemoveElement
<1> QED
  BY <1>1, <1>2, <1>3, FS_CardinalityType DEF x

LEMMA TallyExists ==
    ASSUME NEW S, IsFiniteSet(S), NEW w
    PROVE  \E f : Tally(f, w, S)
<1> DEFINE Upto(n) == {s \in SUBSET S : Cardinality(s) <= n}
           Solves(f, n) == f = [s \in Upto(n) |->
                               IF s = {} THEN 0
                               ELSE LET x == CHOOSE x \in s : TRUE IN w[x] + f[s \ {x}]]
           bad == {n \in Nat : ~\E f : Solves(f, n)}
<1>1. \A s \in SUBSET S : Cardinality(s) \in Nat
  BY FS_Subset, FS_CardinalityType
<1>2. bad = {}
  <2> SUFFICES ASSUME bad # {} PROVE FALSE
    OBVIOUS
  <2>1. PICK m \in bad : \A n \in bad : m <= n
    <3>1. bad \subseteq Nat
      OBVIOUS
    <3> HIDE DEF bad
    <3> QED
      BY <3>1, LeastNumber
  <2>2. CASE m = 0
    <3>1. \A s \in Upto(0) : s = {}
      <4> SUFFICES ASSUME NEW s \in Upto(0) PROVE s = {}
        OBVIOUS
      <4>1. Cardinality(s) = 0 /\ IsFiniteSet(s)
        BY <1>1, FS_Subset
      <4> QED
        BY <4>1, FS_EmptySet
    <3> DEFINE f == [s \in Upto(0) |-> 0]
    <3>2. Solves(f, 0)
      <4> HIDE DEF Upto
      <4> QED
        BY <3>1
    <3> QED
      BY <2>1, <2>2, <3>2
  <2>3. CASE m # 0
    <3>1. m - 1 \in Nat /\ m \in Nat /\ ~(m <= m - 1)
      BY <2>1, <2>3
    <3>2. PICK f : Solves(f, m - 1)
      BY <2>1, <3>1
    <3> DEFINE g == [s \in Upto(m) |->
                        IF s = {} THEN 0
                        ELSE LET x == CHOOSE x \in s : TRUE IN w[x] + f[s \ {x}]]
    <3>3. ASSUME NEW s \in Upto(m), s # {}
          PROVE  LET x == CHOOSE x \in s : TRUE
                 IN  s \ {x} \in Upto(m - 1) /\ s \ {x} \in Upto(m)
      <4> DEFINE x == CHOOSE x \in s : TRUE
      <4>1. /\ x \in s /\ s \ {x} \in SUBSET S
            /\ Cardinality(s) \in Nat /\ Cardinality(s \ {x}) \in Nat
            /\ Cardinality(s \ {x}) = Cardinality(s) - 1
        BY <3>3, OneOut
      <4> HIDE DEF x
      <4>2. s \ {x} \in Upto(m - 1) /\ s \ {x} \in Upto(m)
        BY <3>1, <4>1
      <4> QED
        BY <4>2 DEF x
    <3>4. ASSUME NEW t \in Upto(m - 1), t \in Upto(m) PROVE f[t] = g[t]
      <4> HIDE DEF Upto
      <4> QED
        BY <3>2, <3>4
    <3>5. Solves(g, m)
      <4>1. ASSUME NEW s \in Upto(m)
            PROVE  g[s] = IF s = {} THEN 0
                          ELSE LET x == CHOOSE x \in s : TRUE IN w[x] + g[s \ {x}]
        <5>1. CASE s = {}
          BY <4>1, <5>1
        <5>2. CASE s # {}
          <6> DEFINE x == CHOOSE x \in s : TRUE
          <6>1. s \ {x} \in Upto(m - 1) /\ s \ {x} \in Upto(m)
            BY <4>1, <5>2, <3>3
          <6>2. g[s] = w[x] + f[s \ {x}]
            <7> HIDE DEF Upto
            <7> QED
              BY <4>1, <5>2
          <6> HIDE DEF g, Upto, x
          <6>3. f[s \ {x}] = g[s \ {x}]
            BY <3>4, <6>1
          <6>4. g[s] = w[x] + g[s \ {x}]
            BY <6>2, <6>3
          <6> QED
            BY <5>2, <6>4 DEF x
        <5> QED
          BY <5>1, <5>2
      <4>2. g = [s \in Upto(m) |-> g[s]]
        <5> HIDE DEF Upto
        <5> QED
          OBVIOUS
      <4> HIDE DEF g, Upto
      <4> QED
        BY <4>1, <4>2
    <3> HIDE DEF g, Solves
    <3> QED
      BY <2>1, <3>1, <3>5
  <2> QED
    BY <2>2, <2>3
<1>3. Cardinality(S) \in Nat
  BY <1>1
<1>4. PICK f : Solves(f, Cardinality(S))
  BY <1>2, <1>3
<1>5. Upto(Cardinality(S)) = SUBSET S
  <2>1. \A s \in SUBSET S : Cardinality(s) <= Cardinality(S)
    BY FS_Subset
  <2> QED
    BY <2>1
<1> QED
  BY <1>4, <1>5 DEF Tally

\* Any solution is the sum: the order of the elements does not matter.
LEMMA TallyIsSum ==
    ASSUME NEW S, IsFiniteSet(S), NEW w \in [S -> Nat], NEW f, Tally(f, w, S)
    PROVE  IsSum(f, w, S)
<1> DEFINE Fine(s) == f[s] \in Nat /\ \A x \in s : f[s] = w[x] + f[s \ {x}]
           bad == {s \in SUBSET S : ~Fine(s)}
<1>1. f[{}] = 0
  BY DEF Tally
<1>2. ASSUME NEW s \in SUBSET S, s # {}
      PROVE  \E x \in s : f[s] = w[x] + f[s \ {x}]
  BY <1>2 DEF Tally
<1>3. bad = {}
  <2> SUFFICES ASSUME bad # {} PROVE FALSE
    OBVIOUS
  <2>1. PICK s \in bad : \A t \in SUBSET s : t # s => t \notin bad
    <3>1. bad \subseteq SUBSET S
      OBVIOUS
    <3> HIDE DEF bad
    <3> QED
      BY <3>1, SmallestSubset
  <2>2. s \in SUBSET S /\ ~Fine(s)
    BY <2>1
  <2>3. ASSUME NEW t \in SUBSET s, t # s
        PROVE  f[t] \in Nat /\ \A x \in t : f[t] = w[x] + f[t \ {x}]
    <3>1. t \in SUBSET S /\ t \notin bad
      BY <2>1, <2>2, <2>3
    <3> QED
      BY <3>1
  <2>4. s # {}
    BY <1>1, <2>2
  <2>5. PICK c \in s : f[s] = w[c] + f[s \ {c}]
    BY <1>2, <2>2, <2>4
  <2>6. f[s \ {c}] \in Nat /\ w[c] \in Nat
    BY <2>2, <2>3, <2>5
  <2>7. ASSUME NEW x \in s PROVE f[s] = w[x] + f[s \ {x}]
    <3>1. CASE x = c
      BY <2>5, <3>1
    <3>2. CASE x # c
      <4> DEFINE rest == (s \ {c}) \ {x}
      <4>1. f[s \ {c}] = w[x] + f[rest]
        BY <2>3, <3>2
      <4>2. (s \ {x}) \ {c} = rest
        OBVIOUS
      <4>3. f[s \ {x}] = w[c] + f[rest]
        BY <2>3, <2>5, <3>2, <4>2
      <4>4. f[rest] \in Nat
        <5>1. rest \in SUBSET s /\ rest # s
          BY <2>5
        <5> HIDE DEF rest
        <5> QED
          BY <2>3, <5>1
      <4>5. w[x] \in Nat
        BY <2>2
      <4> HIDE DEF rest
      <4> QED
        BY <2>5, <2>6, <4>1, <4>3, <4>4, <4>5
    <3> QED
      BY <3>1, <3>2
  <2> QED
    BY <2>2, <2>5, <2>6, <2>7
<1>4. \A s \in SUBSET S : f[s] \in Nat /\ \A x \in s : f[s] = w[x] + f[s \ {x}]
  BY <1>3
<1>5. f = [s \in SUBSET S |-> f[s]]
  BY DEF Tally
<1>6. f \in [SUBSET S -> Nat]
  BY <1>4, <1>5
<1> QED
  BY <1>1, <1>4, <1>6 DEF IsSum

\* A sum of sums of weights, taken apart.
LEMMA SumsAdd ==
    ASSUME NEW S, IsFiniteSet(S), NEW f, NEW g, NEW h,
           NEW w \in [S -> Nat], NEW v \in [S -> Nat], NEW u \in [S -> Nat],
           IsSum(f, w, S), IsSum(g, v, S), IsSum(h, u, S),
           \A x \in S : w[x] + v[x] = u[x]
    PROVE  f[S] + g[S] = h[S] /\ f[S] \in Nat /\ g[S] \in Nat /\ h[S] \in Nat
<1> DEFINE bad == {s \in SUBSET S : f[s] + g[s] # h[s]}
<1>1. \A s \in SUBSET S : f[s] \in Nat /\ g[s] \in Nat /\ h[s] \in Nat
  BY DEF IsSum
<1>2. bad = {}
  <2> SUFFICES ASSUME bad # {} PROVE FALSE
    OBVIOUS
  <2>1. PICK s \in bad : \A t \in SUBSET s : t # s => t \notin bad
    <3>1. bad \subseteq SUBSET S
      OBVIOUS
    <3> HIDE DEF bad
    <3> QED
      BY <3>1, SmallestSubset
  <2>2. s \in SUBSET S /\ f[s] + g[s] # h[s]
    BY <2>1
  <2>3. s # {}
    <3>1. f[{}] = 0 /\ g[{}] = 0 /\ h[{}] = 0 /\ 0 + 0 = 0
      BY DEF IsSum
    <3> QED
      BY <2>2, <3>1
  <2>4. PICK x \in s : TRUE
    BY <2>3
  <2>5. /\ f[s] = w[x] + f[s \ {x}]
        /\ g[s] = v[x] + g[s \ {x}]
        /\ h[s] = u[x] + h[s \ {x}]
    BY <2>2, <2>4 DEF IsSum
  <2>6. s \ {x} \in SUBSET S /\ f[s \ {x}] + g[s \ {x}] = h[s \ {x}]
    <3>1. s \ {x} \in SUBSET s /\ s \ {x} # s /\ s \ {x} \in SUBSET S
      BY <2>2, <2>4
    <3> QED
      BY <2>1, <3>1
  <2>7. w[x] \in Nat /\ v[x] \in Nat /\ u[x] \in Nat /\ w[x] + v[x] = u[x]
    BY <2>2, <2>4
  <2> DEFINE rest == s \ {x}
  <2> HIDE DEF rest
  <2>8. f[rest] \in Nat /\ g[rest] \in Nat /\ h[rest] \in Nat
    BY <1>1, <2>6 DEF rest
  <2>9. /\ f[s] = w[x] + f[rest]
        /\ g[s] = v[x] + g[rest]
        /\ h[s] = u[x] + h[rest]
        /\ f[rest] + g[rest] = h[rest]
    BY <2>5, <2>6 DEF rest
  <2>10. f[s] + g[s] = h[s]
    <3> SUFFICES ASSUME NEW a \in Nat, NEW b \in Nat, NEW c \in Nat,
                        NEW i \in Nat, NEW j \in Nat, NEW k \in Nat,
                        a + b = c, i + j = k
                 PROVE  (a + i) + (b + j) = c + k
      BY <2>7, <2>8, <2>9
    <3> QED
      OBVIOUS
  <2> QED
    BY <2>2, <2>10
<1> QED
  BY <1>1, <1>2

\* What weighs nothing may be left out.
LEMMA SumOfPart ==
    ASSUME NEW S, IsFiniteSet(S), NEW T \in SUBSET S, NEW f, NEW g,
           NEW w \in [T -> Nat], NEW v \in [S -> Nat],
           IsSum(f, w, T), IsSum(g, v, S),
           \A x \in T : v[x] = w[x], \A x \in S \ T : v[x] = 0
    PROVE  g[S] = f[T] /\ f[T] \in Nat
<1> DEFINE bad == {s \in SUBSET S : g[s] # f[s \cap T]}
<1>1. /\ \A s \in SUBSET S : g[s] \in Nat
      /\ \A s \in SUBSET T : f[s] \in Nat
  BY DEF IsSum
<1>2. bad = {}
  <2> SUFFICES ASSUME bad # {} PROVE FALSE
    OBVIOUS
  <2>1. PICK s \in bad : \A t \in SUBSET s : t # s => t \notin bad
    <3>1. bad \subseteq SUBSET S
      OBVIOUS
    <3> HIDE DEF bad
    <3> QED
      BY <3>1, SmallestSubset
  <2>2. s \in SUBSET S /\ g[s] # f[s \cap T]
    BY <2>1
  <2>3. s # {}
    <3>1. {} \cap T = {}
      OBVIOUS
    <3> QED
      BY <2>2, <3>1 DEF IsSum
  <2>4. PICK x \in s : TRUE
    BY <2>3
  <2>5. g[s] = v[x] + g[s \ {x}]
    BY <2>2, <2>4 DEF IsSum
  <2>6. g[s \ {x}] = f[(s \ {x}) \cap T] /\ s \ {x} \in SUBSET S
    <3>1. s \ {x} \in SUBSET s /\ s \ {x} # s /\ s \ {x} \in SUBSET S
      BY <2>2, <2>4
    <3> QED
      BY <2>1, <3>1
  <2>7. CASE x \in T
    <3>1. x \in s \cap T /\ s \cap T \in SUBSET T
      BY <2>4, <2>7
    <3>2. f[s \cap T] = w[x] + f[(s \cap T) \ {x}]
      BY <3>1 DEF IsSum
    <3>3. (s \cap T) \ {x} = (s \ {x}) \cap T
      OBVIOUS
    <3> QED
      BY <2>2, <2>5, <2>6, <2>7, <3>2, <3>3
  <2>8. CASE x \notin T
    <3>1. (s \ {x}) \cap T = s \cap T
      BY <2>8
    <3>2. v[x] = 0 /\ g[s \ {x}] \in Nat
      BY <1>1, <2>2, <2>4, <2>6, <2>8
    <3>3. g[s] = g[s \ {x}]
      BY <2>5, <3>2
    <3> QED
      BY <2>2, <2>6, <3>1, <3>3
  <2> QED
    BY <2>7, <2>8
<1>3. g[S] = f[S \cap T]
  BY <1>2
<1>4. S \cap T = T
  OBVIOUS
<1>5. f[T] \in Nat
  BY <1>1
<1> QED
  BY <1>3, <1>4, <1>5

\* Ones add up to the number of elements.
LEMMA SumOfOnes ==
    ASSUME NEW S, IsFiniteSet(S), NEW f, NEW w \in [S -> Nat],
           IsSum(f, w, S), \A x \in S : w[x] = 1
    PROVE  f[S] = Cardinality(S)
<1> DEFINE bad == {s \in SUBSET S : f[s] # Cardinality(s)}
<1>1. bad = {}
  <2> SUFFICES ASSUME bad # {} PROVE FALSE
    OBVIOUS
  <2>1. PICK s \in bad : \A t \in SUBSET s : t # s => t \notin bad
    <3>1. bad \subseteq SUBSET S
      OBVIOUS
    <3> HIDE DEF bad
    <3> QED
      BY <3>1, SmallestSubset
  <2>2. s \in SUBSET S /\ f[s] # Cardinality(s)
    BY <2>1
  <2>3. s # {}
    BY <2>2, FS_EmptySet DEF IsSum
  <2> DEFINE x == CHOOSE x \in s : TRUE
  <2>4. /\ x \in s /\ s \ {x} \in SUBSET S
        /\ Cardinality(s) \in Nat /\ Cardinality(s \ {x}) \in Nat
        /\ Cardinality(s \ {x}) = Cardinality(s) - 1
    BY <2>2, <2>3, OneOut
  <2> HIDE DEF x
  <2>5. f[s] = w[x] + f[s \ {x}] /\ w[x] = 1
    BY <2>2, <2>4 DEF IsSum
  <2>6. f[s \ {x}] = Cardinality(s \ {x})
    <3>1. s \ {x} \in SUBSET s /\ s \ {x} # s
      BY <2>4
    <3> QED
      BY <2>1, <2>4, <3>1
  <2> QED
    BY <2>2, <2>4, <2>5, <2>6
<1> QED
  BY <1>1

\* A sum with a positive weight is positive.
LEMMA SumPositive ==
    ASSUME NEW S, NEW f, NEW w \in [S -> Nat], IsSum(f, w, S),
           NEW x \in S, w[x] > 0
    PROVE  f[S] > 0
<1>1. f[S] = w[x] + f[S \ {x}] /\ f[S \ {x}] \in Nat
  BY DEF IsSum
<1> QED
  BY <1>1

----------------------------------------------------------------------------
(* Service level objectives.                                               *)

\* Two of them with one version are of one objective.
Agree(r, s) == r.version = s.version => r.budget = s.budget /\ r.span = s.span

\* None is of a version the definition has yet to reach.
OfThisLife(r) ==
    /\ r.version \in 1..MaxDefinition /\ r.version <= definition.version
    /\ Agree(r, definition)

(* A replica measures for minutes against the definition it loaded, while  *)
(* the definition moves on: JudgedByItsObjective needs that what is still  *)
(* being measured agrees with the definition and with every row, version   *)
(* by version.                                                             *)
Measuring == {w \in SloReplicas : slo_work[w] # Nothing}

SloInv ==
    /\ SloTypeOK
    /\ \A w \in Measuring : OfThisLife(slo_work[w])
    /\ \A r \in evaluations : OfThisLife(r)
    /\ \A w, v \in Measuring : Agree(slo_work[w], slo_work[v])
    /\ \A w \in Measuring, r \in evaluations : Agree(slo_work[w], r)
    /\ JudgedByItsObjective

\* A definition that changes takes a version nobody has judged under.
LEMMA DefinitionMoves ==
    ASSUME SloInv, NEW b \in Budgets, NEW span \in Spans, NEW i \in Indicators,
           NEW t \in Thresholds, EnsureDefinition(b, span, i, t)
    PROVE  SloInv'
<1> DEFINE next == [definition EXCEPT !.budget = b, !.span = span,
                                      !.indicator = i, !.threshold = t,
                                      !.version = NextVersion(b, span)]
<1>1. definition \in DefinitionRow /\ MaxDefinition \in Nat
  BY SloAssumption DEF SloInv, SloTypeOK
<1>2. /\ definition.version \in 1..MaxDefinition
      /\ NextVersion(b, span) \in 1..MaxDefinition
      /\ definition.version <= NextVersion(b, span)
      /\ NextVersion(b, span) = definition.version =>
            definition.budget = b /\ definition.span = span
  BY <1>1 DEF EnsureDefinition, NextVersion, DefinitionRow
<1>3. /\ next \in DefinitionRow
      /\ next.budget = b /\ next.span = span /\ next.version = NextVersion(b, span)
  BY <1>1, <1>2 DEF DefinitionRow
<1>4. definition' = next
  BY DEF EnsureDefinition
<1> HIDE DEF next
<1>5. ASSUME NEW r, OfThisLife(r) PROVE OfThisLife(r)'
  <2>1. r.version \in 1..MaxDefinition /\ r.version <= definition.version
        /\ Agree(r, definition)
    BY <1>5 DEF OfThisLife
  <2>2. r.version <= next.version
    BY <1>1, <1>2, <1>3, <2>1
  <2>3. Agree(r, next)
    <3> SUFFICES ASSUME r.version = next.version
                 PROVE  r.budget = next.budget /\ r.span = next.span
      BY DEF Agree
    <3>1. r.version = definition.version
      BY <1>1, <1>2, <1>3, <2>1
    <3> QED
      BY <1>2, <1>3, <2>1, <3>1 DEF Agree
  <2> QED
    BY <1>4, <2>1, <2>2, <2>3 DEF OfThisLife
<1> QED
  BY <1>3, <1>4, <1>5
     DEF EnsureDefinition, SloInv, SloTypeOK, Measuring, Agree, JudgedByItsObjective

\* What a replica loads is the definition as it stands.
LEMMA CycleStarts ==
    ASSUME SloInv, NEW w \in SloReplicas, StartSloCycle(w)
    PROVE  SloInv'
<1>1. definition \in DefinitionRow
  BY DEF SloInv, SloTypeOK
<1>2. OfThisLife(definition)
  BY <1>1, SloAssumption DEF OfThisLife, Agree, DefinitionRow
<1>3. /\ slo_work' \in [SloReplicas -> DefinitionRow \cup {Nothing}]
      /\ slo_work'[w] = definition
      /\ \A v \in SloReplicas : v # w => slo_work'[v] = slo_work[v]
  BY <1>1 DEF StartSloCycle, SloInv, SloTypeOK
<1>4. \A v \in Measuring' : slo_work'[v] = definition \/ (v \in Measuring /\ slo_work'[v] = slo_work[v])
  BY <1>3 DEF Measuring
<1>5. UNCHANGED <<definition, period, evaluations>> /\ slo_lease' = w
  BY DEF StartSloCycle
<1>6. SloTypeOK'
  BY <1>3, <1>5 DEF SloInv, SloTypeOK
<1>7. \A v \in Measuring' : OfThisLife(slo_work'[v])
  BY <1>2, <1>4 DEF SloInv
<1>8. \A v \in Measuring', r \in evaluations : Agree(slo_work'[v], r)
  BY <1>4 DEF SloInv, OfThisLife, Agree
<1>9. \A v, u \in Measuring' : Agree(slo_work'[v], slo_work'[u])
  BY <1>4 DEF SloInv, OfThisLife, Agree
<1> QED
  BY <1>5, <1>6, <1>7, <1>8, <1>9 DEF SloInv, OfThisLife, JudgedByItsObjective

\* A replica that is done, or gives up, measures nothing any more.
LEMMA CycleEnds ==
    ASSUME SloInv, NEW w \in SloReplicas,
           slo_work' = [slo_work EXCEPT ![w] = Nothing], UNCHANGED <<definition, period>>,
           slo_lease' \in SloReplicas \cup {Nothing},
           \A r \in evaluations' \ evaluations :
              /\ r.status \in SloStatuses /\ r.period \in 0..MaxPeriod
              /\ OfThisLife(r)
              /\ \A v \in Measuring : Agree(slo_work[v], r)
              /\ \A s \in evaluations : Agree(r, s) /\ Agree(s, r)
                                        /\ ~(s.period = r.period /\ s.version = r.version)
              /\ \A s \in evaluations' \ evaluations : s = r
    PROVE  SloInv'
<1>1. /\ slo_work' \in [SloReplicas -> DefinitionRow \cup {Nothing}]
      /\ \A v \in Measuring' : v \in Measuring /\ slo_work'[v] = slo_work[v]
  BY DEF SloInv, SloTypeOK, Measuring
<1>2. SloTypeOK'
  BY <1>1 DEF SloInv, SloTypeOK
<1>3. /\ \A v \in Measuring' : OfThisLife(slo_work'[v])
      /\ \A v, u \in Measuring' : Agree(slo_work'[v], slo_work'[u])
      /\ \A v \in Measuring', r \in evaluations' : Agree(slo_work'[v], r)
  BY <1>1 DEF SloInv
<1>4. \A r \in evaluations' : OfThisLife(r)
  BY DEF SloInv
<1>5. JudgedByItsObjective'
  BY DEF SloInv, JudgedByItsObjective, Agree
<1> QED
  BY <1>2, <1>3, <1>4, <1>5 DEF SloInv, OfThisLife

\* The row a cycle stores is judged by the definition it loaded.
LEMMA CycleStores ==
    ASSUME SloInv, NEW w \in SloReplicas, NEW primary \in Ratios, NEW rates \in Ratios,
           NEW long \in BurnRatios, NEW short \in BurnRatios,
           EvaluateDefinition(w, primary, rates, long, short)
    PROVE  SloInv'
<1> DEFINE def == slo_work[w]
           row == [period |-> period, version |-> def.version, budget |-> def.budget,
                   span |-> def.span, primary |-> primary, rates |-> rates,
                   indicator |-> def.indicator, threshold |-> def.threshold,
                   status |-> EvaluateSlo(def.budget,
                                          Observe(def.indicator, def.threshold, primary, rates),
                                          Observe(def.indicator, def.threshold, long, rates),
                                          Observe(def.indicator, def.threshold, short, rates))]
<1>1. /\ StoreEvaluation(row)
      /\ slo_work' = [slo_work EXCEPT ![w] = Nothing]
      /\ UNCHANGED <<definition, period>>
      /\ slo_lease' \in SloReplicas \cup {Nothing}
      /\ def # Nothing
  BY DEF EvaluateDefinition, ReleaseSloLease, SloInv, SloTypeOK
<1>2. row.status \in SloStatuses
  BY DEF EvaluateSlo, SloStatus, SloStatuses
<1>3. /\ row.version = def.version /\ row.budget = def.budget
      /\ row.span = def.span /\ row.period = period
  OBVIOUS
<1> HIDE DEF row
<1>4. w \in Measuring /\ OfThisLife(def)
  BY <1>1 DEF SloInv, Measuring
<1>5. /\ row.period \in 0..MaxPeriod
      /\ OfThisLife(row)
      /\ \A v \in Measuring : Agree(slo_work[v], row)
      /\ \A s \in evaluations : Agree(row, s) /\ Agree(s, row)
  BY <1>3, <1>4 DEF SloInv, SloTypeOK, OfThisLife, Agree
<1>6. \A r \in evaluations' \ evaluations :
         r = row /\ \A s \in evaluations : ~(s.period = row.period /\ s.version = row.version)
  BY <1>1 DEF StoreEvaluation
<1> QED
  BY <1>1, <1>2, <1>5, <1>6, CycleEnds

\* The invariant of the objectives is inductive.
LEMMA SloNextInv == SloInv /\ [SloNext]_sloVars => SloInv'
<1> SUFFICES ASSUME SloInv, [SloNext]_sloVars PROVE SloInv'
  OBVIOUS
<1>1. CASE /\ UNCHANGED <<definition, slo_work, evaluations>>
           /\ period' \in 0..MaxPeriod
           /\ slo_lease' \in SloReplicas \cup {Nothing}
  BY <1>1 DEF SloInv, SloTypeOK, Measuring, OfThisLife, JudgedByItsObjective
<1>2. CASE MinutePasses
  <2>1. period \in 0..MaxPeriod /\ MaxPeriod \in Nat
    BY SloAssumption DEF SloInv, SloTypeOK
  <2>2. period' \in 0..MaxPeriod
    BY <1>2, <2>1 DEF MinutePasses
  <2> QED
    BY <1>1, <1>2, <2>2 DEF MinutePasses, SloInv, SloTypeOK
<1>3. CASE SloLeaseExpires
  BY <1>1, <1>3 DEF SloLeaseExpires, SloInv, SloTypeOK
<1>4. ASSUME NEW w \in SloReplicas, AbandonSloCycle(w) PROVE SloInv'
  <2>1. slo_lease' \in SloReplicas \cup {Nothing}
    BY <1>4 DEF AbandonSloCycle, ReleaseSloLease, SloInv, SloTypeOK
  <2> QED
    BY <1>4, <2>1, CycleEnds DEF AbandonSloCycle
<1>5. CASE UNCHANGED sloVars
  BY <1>1, <1>5 DEF sloVars, SloInv, SloTypeOK
<1> QED
  BY <1>2, <1>3, <1>4, <1>5, DefinitionMoves, CycleStarts, CycleStores DEF SloNext

\* What was served, as a sum.
LEMMA ServedIsSum ==
    ASSUME NEW r, IsFiniteSet(SeenBy(r)), \A t \in SeenBy(r) : ServedAt(r, t) \in Nat
    PROVE  \E f : /\ IsSum(f, [t \in SeenBy(r) |-> ServedAt(r, t)], SeenBy(r))
                  /\ ServedIn(r) = f[SeenBy(r)]
<1> DEFINE S == SeenBy(r)
           w == [t \in S |-> ServedAt(r, t)]
           P(g) == g = [s \in SUBSET S |->
                           IF s = {} THEN 0
                           ELSE LET x == CHOOSE x \in s : TRUE IN ServedAt(r, x) + g[s \ {x}]]
<1>1. \A g : P(g) <=> Tally(g, w, S)
  <2> HIDE DEF S
  <2>1. \A s \in SUBSET S : s # {} =>
           LET x == CHOOSE x \in s : TRUE IN w[x] = ServedAt(r, x)
    OBVIOUS
  <2> HIDE DEF w
  <2>2. \A g : P(g) <=> Tally(g, w, S)
    <3> SUFFICES ASSUME NEW g PROVE P(g) <=> Tally(g, w, S)
      OBVIOUS
    <3>1. [s \in SUBSET S |-> IF s = {} THEN 0
                             ELSE LET x == CHOOSE x \in s : TRUE IN ServedAt(r, x) + g[s \ {x}]]
            = [s \in SUBSET S |-> IF s = {} THEN 0
                                 ELSE LET x == CHOOSE x \in s : TRUE IN w[x] + g[s \ {x}]]
      BY <2>1
    <3> QED
      BY <3>1 DEF Tally
  <2> QED
    BY <2>2
<1>2. PICK f : P(f)
  <2> HIDE DEF w, P
  <2> QED
    BY <1>1, TallyExists
<1>3. P(CHOOSE g : P(g))
  <2> HIDE DEF P
  <2> QED
    BY <1>2
<1>4. ServedIn(r) = (CHOOSE g : P(g))[S]
  BY DEF ServedIn, MapThenSumSet, MapThenFoldSet
<1>5. w \in [S -> Nat]
  OBVIOUS
<1>6. IsSum(CHOOSE g : P(g), w, S)
  <2> HIDE DEF w, P
  <2> QED
    BY <1>1, <1>3, <1>5, TallyIsSum
<1> HIDE DEF P
<1> QED
  BY <1>4, <1>6


\* What failed of it.
LEMMA FailedIsSum ==
    ASSUME NEW r, IsFiniteSet(SeenBy(r)), \A t \in SeenBy(r) : FailedAt(r, t) \in Nat
    PROVE  \E f : /\ IsSum(f, [t \in SeenBy(r) |-> FailedAt(r, t)], SeenBy(r))
                  /\ FailedIn(r) = f[SeenBy(r)]
<1> DEFINE S == SeenBy(r)
           w == [t \in S |-> FailedAt(r, t)]
           P(g) == g = [s \in SUBSET S |->
                           IF s = {} THEN 0
                           ELSE LET x == CHOOSE x \in s : TRUE IN FailedAt(r, x) + g[s \ {x}]]
<1>1. \A g : P(g) <=> Tally(g, w, S)
  <2> HIDE DEF S
  <2>1. \A s \in SUBSET S : s # {} =>
           LET x == CHOOSE x \in s : TRUE IN w[x] = FailedAt(r, x)
    OBVIOUS
  <2> HIDE DEF w
  <2>2. \A g : P(g) <=> Tally(g, w, S)
    <3> SUFFICES ASSUME NEW g PROVE P(g) <=> Tally(g, w, S)
      OBVIOUS
    <3>1. [s \in SUBSET S |-> IF s = {} THEN 0
                             ELSE LET x == CHOOSE x \in s : TRUE IN FailedAt(r, x) + g[s \ {x}]]
            = [s \in SUBSET S |-> IF s = {} THEN 0
                                 ELSE LET x == CHOOSE x \in s : TRUE IN w[x] + g[s \ {x}]]
      BY <2>1
    <3> QED
      BY <3>1 DEF Tally
  <2> QED
    BY <2>2
<1>2. PICK f : P(f)
  <2> HIDE DEF w, P
  <2> QED
    BY <1>1, TallyExists
<1>3. P(CHOOSE g : P(g))
  <2> HIDE DEF P
  <2> QED
    BY <1>2
<1>4. FailedIn(r) = (CHOOSE g : P(g))[S]
  BY DEF FailedIn, MapThenSumSet, MapThenFoldSet
<1>5. w \in [S -> Nat]
  OBVIOUS
<1>6. IsSum(CHOOSE g : P(g), w, S)
  <2> HIDE DEF w, P
  <2> QED
    BY <1>1, <1>3, <1>5, TallyIsSum
<1> HIDE DEF P
<1> QED
  BY <1>4, <1>6

\* The failing share of an instant, at most all of it.
Share(x) == IF x > Unit THEN Unit ELSE x

\* The instants the measurement of the availability takes into account.
Paired(r) == {t \in DOMAIN r.primary.points \cap DOMAIN r.rates.points : r.rates.points[t] > 0}

\* What its window counts as bad and as good at an instant.
BadAt(r, t) == r.rates.points[t] * Share(r.primary.points[t])
GoodAt(r, t) == r.rates.points[t] * (Unit - Share(r.primary.points[t]))

\* The window of an availability, as two sums.
LEMMA WindowIsSum ==
    ASSUME NEW r, IsFiniteSet(Paired(r)), Paired(r) # {},
           \A t \in Paired(r) : r.rates.points[t] \in Nat /\ r.primary.points[t] \in Nat
    PROVE  \E f, g :
              /\ IsSum(f, [t \in Paired(r) |-> BadAt(r, t)], Paired(r))
              /\ IsSum(g, [t \in Paired(r) |-> GoodAt(r, t)], Paired(r))
              /\ AvailabilityWindow(r.primary.points, r.rates.points)
                    = [bad |-> f[Paired(r)], good |-> g[Paired(r)]]
<1> DEFINE S == Paired(r)
           bw == [t \in S |-> BadAt(r, t)]
           gw == [t \in S |-> GoodAt(r, t)]
           P(g) == g = [s \in SUBSET S |->
                           IF s = {} THEN 0
                           ELSE LET x == CHOOSE x \in s : TRUE IN BadAt(r, x) + g[s \ {x}]]
           Q(g) == g = [s \in SUBSET S |->
                           IF s = {} THEN 0
                           ELSE LET x == CHOOSE x \in s : TRUE IN GoodAt(r, x) + g[s \ {x}]]
<1>1. bw \in [S -> Nat] /\ gw \in [S -> Nat]
  <2>1. ASSUME NEW t \in S PROVE BadAt(r, t) \in Nat /\ GoodAt(r, t) \in Nat
    <3>1. Share(r.primary.points[t]) \in 0..2
      BY DEF Share, Unit
    <3> QED
      BY <3>1 DEF BadAt, GoodAt, Unit
  <2> HIDE DEF S
  <2> QED
    BY <2>1
<1>2. (\A g : P(g) <=> Tally(g, bw, S)) /\ (\A g : Q(g) <=> Tally(g, gw, S))
  <2> HIDE DEF S
  <2>1. \A s \in SUBSET S : s # {} =>
           LET x == CHOOSE x \in s : TRUE IN bw[x] = BadAt(r, x)
    OBVIOUS
  <2>2. \A s \in SUBSET S : s # {} =>
           LET x == CHOOSE x \in s : TRUE IN gw[x] = GoodAt(r, x)
    OBVIOUS
  <2> HIDE DEF bw, gw
  <2>3. \A g : P(g) <=> Tally(g, bw, S)
    <3> SUFFICES ASSUME NEW g PROVE P(g) <=> Tally(g, bw, S)
      OBVIOUS
    <3>1. [s \in SUBSET S |-> IF s = {} THEN 0
                             ELSE LET x == CHOOSE x \in s : TRUE IN BadAt(r, x) + g[s \ {x}]]
            = [s \in SUBSET S |-> IF s = {} THEN 0
                                 ELSE LET x == CHOOSE x \in s : TRUE IN bw[x] + g[s \ {x}]]
      BY <2>1
    <3> QED
      BY <3>1 DEF Tally
  <2>4. \A g : Q(g) <=> Tally(g, gw, S)
    <3> SUFFICES ASSUME NEW g PROVE Q(g) <=> Tally(g, gw, S)
      OBVIOUS
    <3>1. [s \in SUBSET S |-> IF s = {} THEN 0
                             ELSE LET x == CHOOSE x \in s : TRUE IN GoodAt(r, x) + g[s \ {x}]]
            = [s \in SUBSET S |-> IF s = {} THEN 0
                                 ELSE LET x == CHOOSE x \in s : TRUE IN gw[x] + g[s \ {x}]]
      BY <2>2
    <3> QED
      BY <3>1 DEF Tally
  <2> QED
    BY <2>3, <2>4
<1>3. AvailabilityWindow(r.primary.points, r.rates.points)
        = [bad |-> (CHOOSE g : P(g))[S], good |-> (CHOOSE g : Q(g))[S]]
  BY DEF AvailabilityWindow, MapThenSumSet, MapThenFoldSet, Share, Paired, BadAt, GoodAt
<1> HIDE DEF P, Q, bw, gw
<1>4. P(CHOOSE g : P(g)) /\ Q(CHOOSE g : Q(g))
  BY <1>2, TallyExists
<1>5. IsSum(CHOOSE g : P(g), bw, S) /\ IsSum(CHOOSE g : Q(g), gw, S)
  BY <1>1, <1>2, <1>4, TallyIsSum
<1> QED
  BY <1>3, <1>5 DEF bw, gw

\* A window of an availability that is there: its bad part is what failed, and
\* its total, in units, what was served.
LEMMA AvailabilityMeasures ==
    ASSUME NEW r, r.indicator # "latency", IsFiniteSet(SeenBy(r)),
           \A t \in SeenBy(r) : r.rates.points[t] \in Nat /\ r.primary.points[t] \in Nat,
           NEW window, window = AvailabilityWindow(r.primary.points, r.rates.points),
           window # Nothing
    PROVE  /\ ServedIn(r) \in Nat /\ FailedIn(r) \in Nat /\ ServedIn(r) > 0
           /\ window.bad = FailedIn(r)
           /\ Total(window) = Unit * ServedIn(r)
<1> DEFINE S == SeenBy(r)
           T == Paired(r)
           sw == [t \in S |-> ServedAt(r, t)]
           fw == [t \in S |-> FailedAt(r, t)]
           bw == [t \in T |-> BadAt(r, t)]
           gw == [t \in T |-> GoodAt(r, t)]
           one == [t \in T |-> r.rates.points[t]]
           two == [t \in T |-> 2 * r.rates.points[t]]
<1>1. /\ S = DOMAIN r.primary.points \cap DOMAIN r.rates.points
      /\ T = {t \in S : r.rates.points[t] > 0}
  BY DEF SeenBy, Paired
<1>2. T # {}
  BY DEF AvailabilityWindow, Paired
<1>3. IsFiniteSet(S) /\ IsFiniteSet(T) /\ T \in SUBSET S
  BY <1>1, FS_Subset
<1>4. \A x \in Nat : Min({Unit, x}) = Share(x)
  BY DEF Min, Share, Unit
<1>5. ASSUME NEW t \in S
      PROVE  /\ r.rates.points[t] \in Nat
             /\ Share(r.primary.points[t]) \in 0..2
             /\ ServedAt(r, t) = r.rates.points[t]
             /\ FailedAt(r, t) = r.rates.points[t] * Share(r.primary.points[t])
             /\ t \notin T => r.rates.points[t] = 0
  <2>1. r.rates.points[t] \in Nat /\ r.primary.points[t] \in Nat
    BY <1>5
  <2>2. Share(r.primary.points[t]) \in 0..2
    BY <2>1 DEF Share, Unit
  <2>3. Min({Unit, r.primary.points[t]}) = Share(r.primary.points[t])
    BY <1>4, <2>1
  <2>4. /\ ServedAt(r, t) = r.rates.points[t]
        /\ FailedAt(r, t) = r.rates.points[t] * Share(r.primary.points[t])
    BY <2>3 DEF ServedAt, FailedAt
  <2>5. t \notin T => r.rates.points[t] = 0
    BY <1>1, <1>5, <2>1
  <2> QED
    BY <2>1, <2>2, <2>4, <2>5
<1>6. \A a \in Nat : \A b \in 0..2 : /\ a * b \in Nat /\ a * (2 - b) \in Nat
                                  /\ a * b + a * (2 - b) = 2 * a
                                  /\ 0 * b = 0 /\ a + a = 2 * a
  <2>1. \A b \in 0..2 : b = 0 \/ b = 1 \/ b = 2
    OBVIOUS
  <2> QED
    BY <2>1
<1>7. /\ sw \in [S -> Nat] /\ fw \in [S -> Nat]
      /\ \A t \in S : sw[t] \in Nat /\ fw[t] \in Nat
      /\ \A t \in S : ServedAt(r, t) \in Nat /\ FailedAt(r, t) \in Nat
  <2> HIDE DEF S, T
  <2> QED
    BY <1>5, <1>6
<1>8. /\ bw \in [T -> Nat] /\ gw \in [T -> Nat] /\ one \in [T -> Nat] /\ two \in [T -> Nat]
      /\ \A t \in T : bw[t] + gw[t] = two[t] /\ one[t] + one[t] = two[t]
      /\ \A t \in T : sw[t] = one[t] /\ fw[t] = bw[t]
      /\ \A t \in S \ T : sw[t] = 0 /\ fw[t] = 0
  <2>1. \A t \in T : t \in S
    BY <1>3
  <2> HIDE DEF S, T
  <2>2. ASSUME NEW t \in T
        PROVE  /\ bw[t] \in Nat /\ gw[t] \in Nat /\ one[t] \in Nat /\ two[t] \in Nat
               /\ bw[t] + gw[t] = two[t] /\ one[t] + one[t] = two[t]
               /\ sw[t] = one[t] /\ fw[t] = bw[t]
    BY <1>5, <1>6, <2>1 DEF Unit, BadAt, GoodAt
  <2>3. ASSUME NEW t \in S \ T PROVE sw[t] = 0 /\ fw[t] = 0
    BY <1>5, <1>6
  <2>4. /\ bw = [t \in T |-> bw[t]] /\ gw = [t \in T |-> gw[t]]
        /\ one = [t \in T |-> one[t]] /\ two = [t \in T |-> two[t]]
    OBVIOUS
  <2> HIDE DEF bw, gw, one, two, sw, fw
  <2>5. bw \in [T -> Nat] /\ gw \in [T -> Nat]
    BY <2>2, <2>4
  <2>6. one \in [T -> Nat] /\ two \in [T -> Nat]
    BY <2>2, <2>4
  <2> QED
    BY <2>2, <2>3, <2>5, <2>6
<1>9. PICK sf : IsSum(sf, sw, S) /\ ServedIn(r) = sf[S]
  BY <1>3, <1>7, ServedIsSum
<1>10. PICK ff : IsSum(ff, fw, S) /\ FailedIn(r) = ff[S]
  BY <1>3, <1>7, FailedIsSum
<1>11. PICK bf, gf : /\ IsSum(bf, bw, T) /\ IsSum(gf, gw, T)
                     /\ window = [bad |-> bf[T], good |-> gf[T]]
  <2>1. \A t \in T : r.rates.points[t] \in Nat /\ r.primary.points[t] \in Nat
    BY <1>3
  <2> QED
    BY <1>2, <1>3, <2>1, WindowIsSum
<1> HIDE DEF S, T, sw, fw, bw, gw, one, two
<1>12. PICK onef : IsSum(onef, one, T)
  BY <1>3, <1>8, TallyExists, TallyIsSum
<1>13. PICK twof : IsSum(twof, two, T)
  BY <1>3, <1>8, TallyExists, TallyIsSum
<1>14. bf[T] + gf[T] = twof[T] /\ bf[T] \in Nat /\ gf[T] \in Nat
  BY <1>3, <1>8, <1>11, <1>13, SumsAdd
<1>15. onef[T] + onef[T] = twof[T] /\ onef[T] \in Nat
  BY <1>3, <1>8, <1>12, <1>13, SumsAdd
<1>16. sf[S] = onef[T]
  BY <1>3, <1>7, <1>8, <1>9, <1>12, SumOfPart
<1>17. ff[S] = bf[T]
  BY <1>3, <1>7, <1>8, <1>10, <1>11, SumOfPart
<1>18. onef[T] > 0
  <2>1. PICK t \in T : TRUE
    BY <1>2 DEF T
  <2>2. one[t] > 0
    BY <1>1, <2>1 DEF one
  <2> QED
    BY <1>8, <1>12, <2>1, <2>2, SumPositive
<1>19. window.bad = bf[T] /\ Total(window) = gf[T] + bf[T]
  BY <1>11 DEF Total
<1> QED
  BY <1>9, <1>10, <1>14, <1>15, <1>16, <1>17, <1>18, <1>19 DEF Unit

\* The window of a latency: its total is what was served, in samples.
LEMMA LatencyMeasures ==
    ASSUME NEW r, r.indicator = "latency", IsFiniteSet(SeenBy(r)),
           NEW window, window = LatencyWindow(r.primary.points, r.threshold), window # Nothing
    PROVE  /\ ServedIn(r) \in Nat /\ ServedIn(r) > 0 /\ window.bad \in Nat
           /\ FailedIn(r) = Unit * window.bad
           /\ Total(window) = ServedIn(r)
<1> DEFINE S == SeenBy(r)
           T == {t \in S : r.primary.points[t] > r.threshold}
           sw == [t \in S |-> ServedAt(r, t)]
           fw == [t \in S |-> FailedAt(r, t)]
           one == [t \in T |-> 1]
           two == [t \in T |-> 2]
<1>1. S = DOMAIN r.primary.points
  BY DEF SeenBy
<1>2. S # {} /\ window = [bad |-> Cardinality(T), good |-> Cardinality(S \ T)]
  BY <1>1 DEF LatencyWindow
<1>3. IsFiniteSet(S) /\ IsFiniteSet(T) /\ IsFiniteSet(S \ T) /\ T \in SUBSET S
  BY FS_Subset
<1>4. \A t \in S : /\ ServedAt(r, t) = 1
                   /\ FailedAt(r, t) = IF t \in T THEN 2 ELSE 0
                   /\ ServedAt(r, t) \in Nat /\ FailedAt(r, t) \in Nat
  BY DEF ServedAt, FailedAt, Unit
<1> HIDE DEF S, T
<1>5. /\ sw \in [S -> Nat] /\ fw \in [S -> Nat]
      /\ one \in [T -> Nat] /\ two \in [T -> Nat]
      /\ \A t \in S : sw[t] = 1
      /\ \A t \in T : one[t] = 1 /\ fw[t] = two[t] /\ one[t] + one[t] = two[t]
      /\ \A t \in S \ T : fw[t] = 0
  BY <1>3, <1>4
<1>6. PICK sf : IsSum(sf, sw, S) /\ ServedIn(r) = sf[S]
  BY <1>3, <1>4, ServedIsSum DEF S
<1>7. PICK ff : IsSum(ff, fw, S) /\ FailedIn(r) = ff[S]
  BY <1>3, <1>4, FailedIsSum DEF S
<1> HIDE DEF sw, fw, one, two
<1>8. PICK onef : IsSum(onef, one, T)
  BY <1>3, <1>5, TallyExists, TallyIsSum
<1>9. PICK twof : IsSum(twof, two, T)
  BY <1>3, <1>5, TallyExists, TallyIsSum
<1>10. onef[T] + onef[T] = twof[T] /\ onef[T] \in Nat
  BY <1>3, <1>5, <1>8, <1>9, SumsAdd
<1>11. ff[S] = twof[T]
  BY <1>3, <1>5, <1>7, <1>9, SumOfPart
<1>12. onef[T] = Cardinality(T) /\ sf[S] = Cardinality(S)
  BY <1>3, <1>5, <1>6, <1>8, SumOfOnes
<1>13. /\ Cardinality(S) \in Nat /\ Cardinality(S) > 0
       /\ Cardinality(T) \in Nat /\ Cardinality(S \ T) \in Nat
       /\ Cardinality(S) = Cardinality(T) + Cardinality(S \ T)
  <2>1. T \cup (S \ T) = S /\ T \cap (S \ T) = {}
    BY <1>3
  <2>2. Cardinality(T \cup (S \ T))
          = Cardinality(T) + Cardinality(S \ T) - Cardinality(T \cap (S \ T))
    BY <1>3, FS_Union
  <2>3. /\ Cardinality(S) \in Nat /\ Cardinality(T) \in Nat /\ Cardinality(S \ T) \in Nat
    BY <1>3, FS_CardinalityType
  <2>4. Cardinality({}) = 0 /\ Cardinality(S) # 0
    BY <1>2, <1>3, FS_EmptySet
  <2>5. Cardinality(S) = Cardinality(T) + Cardinality(S \ T) - 0
    BY <2>1, <2>2, <2>4
  <2> QED
    BY <2>3, <2>4, <2>5
<1>14. window.bad = Cardinality(T) /\ Total(window) = Cardinality(S \ T) + Cardinality(T)
  BY <1>2 DEF Total
<1> QED
  BY <1>6, <1>7, <1>10, <1>11, <1>12, <1>13, <1>14 DEF Unit

LEMMA BudgetsAreNumbers == Budgets \subseteq Nat /\ Scale \in Nat
  BY SloAssumption

\* A row that was judged healthy rests on what its series say.
LEMMA HealthyRests ==
    ASSUME NEW r, r.primary \in Ratios, r.rates \in Ratios, r.budget \in Budgets,
           NEW long, NEW short,
           EvaluateSlo(r.budget, Observe(r.indicator, r.threshold, r.primary, r.rates), long, short)
             = "healthy"
    PROVE  /\ r.primary.kind = "ok"
           /\ ServedIn(r) > 0
           /\ 4 * FailedIn(r) * Scale <= 3 * r.budget * ServedIn(r) * Unit
<1> DEFINE main == Observe(r.indicator, r.threshold, r.primary, r.rates)
           window == main.window
<1>1. /\ main.kind \notin {"not_configured", "failed", "stale", "aged"}
      /\ window # Nothing
      /\ SloStatus(window, r.budget,
                   ActiveLevels(long.window, short.window, r.budget)) = "healthy"
  <2>1. EvaluateSlo(r.budget, main, long, short) = "healthy"
    OBVIOUS
  <2> HIDE DEF main
  <2> QED
    BY <2>1 DEF EvaluateSlo
<1>2. IsSeries(r.primary) /\ IsSeries(r.rates)
  BY SloAssumption
<1>3. r.primary.kind = "ok"
  BY <1>1, <1>2 DEF Observe, IsSeries, Answers
<1>4. CASE r.indicator = "latency"
  <2>1. window = LatencyWindow(r.primary.points, r.threshold)
    BY <1>3, <1>4 DEF Observe, Answers
  <2>2. SeenBy(r) \subseteq Instants /\ IsFiniteSet(SeenBy(r))
    <3>1. SeenBy(r) \subseteq Instants
      BY <1>2, <1>3, <1>4 DEF SeenBy, IsSeries, Answers
    <3> QED
      BY <3>1, SloAssumption, FS_Subset
  <2> HIDE DEF main
  <2>3. /\ ServedIn(r) \in Nat /\ ServedIn(r) > 0 /\ window.bad \in Nat
        /\ FailedIn(r) = Unit * window.bad
        /\ Total(window) = ServedIn(r)
    BY <1>1, <1>4, <2>1, <2>2, LatencyMeasures
  <2> HIDE DEF window
  <2>4. /\ r.budget = 0 => ~(window.bad > 0)
        /\ r.budget # 0 => ~(4 * window.bad * Scale >= 3 * r.budget * Total(window))
    <3>1. /\ r.budget = 0 => ~(window.bad > 0)
          /\ r.budget # 0 => ~Consumed(window, r.budget, 3)
      BY <1>1 DEF SloStatus
    <3> QED
      BY <3>1 DEF Consumed
  <2>5. r.budget \in Nat /\ Scale \in Nat
    BY BudgetsAreNumbers
  <2> QED
    BY <1>3, <2>3, <2>4, <2>5 DEF Unit
<1>5. CASE r.indicator # "latency"
  <2>1. r.rates.kind \in Answers /\ window = AvailabilityWindow(r.primary.points, r.rates.points)
    BY <1>1, <1>3, <1>5 DEF Observe, Answers
  <2>2. /\ IsFiniteSet(SeenBy(r))
        /\ \A t \in SeenBy(r) : r.rates.points[t] \in Nat /\ r.primary.points[t] \in Nat
    <3>1. /\ SeenBy(r) \subseteq Instants
          /\ \A t \in SeenBy(r) : r.rates.points[t] \in Nat /\ r.primary.points[t] \in Nat
      BY <1>2, <1>3, <1>5, <2>1 DEF SeenBy, IsSeries, Answers
    <3> QED
      BY <3>1, SloAssumption, FS_Subset
  <2> HIDE DEF main
  <2>3. /\ ServedIn(r) \in Nat /\ FailedIn(r) \in Nat /\ ServedIn(r) > 0
        /\ window.bad = FailedIn(r)
        /\ Total(window) = Unit * ServedIn(r)
    BY <1>1, <1>5, <2>1, <2>2, AvailabilityMeasures
  <2> HIDE DEF window
  <2>4. /\ r.budget = 0 => ~(window.bad > 0)
        /\ r.budget # 0 => ~(4 * window.bad * Scale >= 3 * r.budget * Total(window))
    <3>1. /\ r.budget = 0 => ~(window.bad > 0)
          /\ r.budget # 0 => ~Consumed(window, r.budget, 3)
      BY <1>1 DEF SloStatus
    <3> QED
      BY <3>1 DEF Consumed
  <2>5. r.budget \in Nat /\ Scale \in Nat
    BY BudgetsAreNumbers
  <2> QED
    BY <1>3, <2>3, <2>4, <2>5 DEF Unit
<1> QED
  BY <1>4, <1>5

\* What is stored as healthy was measured; nothing takes that back.
LEMMA HealthyStaysMeasured ==
    ASSUME SloInv, HealthyIsMeasured, [SloNext]_sloVars
    PROVE  HealthyIsMeasured'
<1> DEFINE Rests(r) == r.status = "healthy" =>
                          /\ r.primary.kind = "ok"
                          /\ ServedIn(r) > 0
                          /\ 4 * FailedIn(r) * Scale <= 3 * r.budget * ServedIn(r) * Unit
<1>1. \A r \in evaluations : Rests(r)
  BY DEF HealthyIsMeasured
<1>2. ASSUME NEW w \in SloReplicas, NEW primary \in Ratios, NEW rates \in Ratios,
             NEW long \in BurnRatios, NEW short \in BurnRatios,
             EvaluateDefinition(w, primary, rates, long, short)
      PROVE  \A r \in evaluations' : Rests(r)
  <2> DEFINE def == slo_work[w]
             far == Observe(def.indicator, def.threshold, long, rates)
             near == Observe(def.indicator, def.threshold, short, rates)
             row == [period |-> period, version |-> def.version, budget |-> def.budget,
                     span |-> def.span, primary |-> primary, rates |-> rates,
                     indicator |-> def.indicator, threshold |-> def.threshold,
                     status |-> EvaluateSlo(def.budget,
                                            Observe(def.indicator, def.threshold, primary, rates), far, near)]
  <2>1. evaluations' = evaluations \/ evaluations' = evaluations \cup {row}
    BY <1>2 DEF EvaluateDefinition, StoreEvaluation
  <2>2. def.budget \in Budgets
    BY <1>2 DEF EvaluateDefinition, SloInv, SloTypeOK, DefinitionRow
  <2>3. /\ row.primary \in Ratios /\ row.rates \in Ratios /\ row.budget \in Budgets
        /\ row.status = EvaluateSlo(row.budget,
                                    Observe(row.indicator, row.threshold, row.primary, row.rates), far, near)
    BY <2>2
  <2>4. Rests(row)
    <3> SUFFICES ASSUME row.status = "healthy"
                 PROVE  /\ row.primary.kind = "ok"
                        /\ ServedIn(row) > 0
                        /\ 4 * FailedIn(row) * Scale <= 3 * row.budget * ServedIn(row) * Unit
      OBVIOUS
    <3> HIDE DEF row, far, near
    <3> QED
      BY <2>3, HealthyRests
  <2> HIDE DEF row, Rests
  <2> QED
    BY <1>1, <2>1, <2>4
<1>3. \A r \in evaluations' : Rests(r)
  <2> HIDE DEF Rests
  <2>1. CASE UNCHANGED evaluations
    BY <1>1, <2>1
  <2> QED
    BY <1>2, <2>1 DEF SloNext, sloVars, EnsureDefinition, MinutePasses, SloLeaseExpires,
                      StartSloCycle, AbandonSloCycle
<1> QED
  BY <1>3 DEF HealthyIsMeasured

\* The invariant holds at the start.
LEMMA SloInitInv == SloInit => SloInv /\ HealthyIsMeasured
<1> SUFFICES ASSUME SloInit PROVE SloInv /\ HealthyIsMeasured
  OBVIOUS
<1>1. Measuring = {} /\ evaluations = {}
  BY DEF SloInit, Measuring
<1>2. SloTypeOK
  BY SloAssumption DEF SloInit, SloTypeOK
<1> QED
  BY <1>1, <1>2 DEF SloInv, JudgedByItsObjective, HealthyIsMeasured

\* Whoever measured, and whatever changed meanwhile: the rows of one version
\* were judged by one objective and one minute has one of them
\* (ensure_definition's version, store_evaluation's unique key), and what is
\* stored as healthy was measured, with the failing share under three quarters
\* of the budget (evaluate_slo).
THEOREM JudgementsCanBeTrusted == SloSpec => []JudgementsAreSound
<1>1. SloInv /\ HealthyIsMeasured /\ [SloNext]_sloVars => (SloInv /\ HealthyIsMeasured)'
  BY SloNextInv, HealthyStaysMeasured
<1>2. SloInv /\ HealthyIsMeasured => JudgementsAreSound
  BY DEF SloInv, JudgementsAreSound
<1> QED
  BY <1>1, <1>2, SloInitInv, PTL DEF SloSpec
=============================================================================
