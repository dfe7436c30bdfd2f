----------------------------- MODULE Deployments -----------------------------
(***************************************************************************)
(* Deployment intelligence: from the workload the agent reported to a row  *)
(* per generation in deployment_revisions, and from a finished rollout to  *)
(* a comparison of health on either side of it.                            *)
(* (deployments/ingest.py, model.py, health.py, worker.py)                 *)
(*                                                                         *)
(* One workload of a cluster. Kubernetes changes it, the agent reports     *)
(* each change, and ingest passes of several replicas read the report and  *)
(* write the revision: the lease that keeps passes apart expires, and no   *)
(* write is fenced by it, so an overtaken pass writes what it once read.   *)
(***************************************************************************)
EXTENDS Naturals, FiniteSets

CONSTANTS Ingesters,      \* replicas of the API running DeploymentIngestWorker
          WorkloadKinds,  \* of the kinds read, those the workload may be of
          REPLICAS,       \* desired replicas of the workload when not scaled to zero
          Specs,          \* what a new generation may ask for: [desired, pinned, labelled]
          MaxGeneration,  \* bound: generations of the workload
          MaxMinute,      \* bound: the clock, in units of the instance
          STALL_AFTER,    \* 15 minutes in the code
          SETTLE,         \* 2 minutes
          WINDOW,         \* 30 minutes
          CLOSED_AFTER,   \* 35 minutes
          NoTime          \* NULL

ASSUME DeploymentAssumption ==
  /\ WorkloadKinds \subseteq {"Deployment", "StatefulSet", "DaemonSet"}
  /\ Specs \subseteq [desired: {0, REPLICAS}, pinned: BOOLEAN, labelled: BOOLEAN]
  /\ REPLICAS \in Nat \ {0} /\ MaxGeneration \in Nat \ {0} /\ MaxMinute \in Nat
  /\ STALL_AFTER \in Nat /\ SETTLE \in Nat /\ WINDOW \in Nat \ {0}
  /\ CLOSED_AFTER \in Nat /\ CLOSED_AFTER >= SETTLE + WINDOW
  /\ NoTime \notin Nat

VARIABLES
  minute,       \* the clock
  report,       \* inventory_resources: the workload as the agent last reported it
  revisions,    \* deployment_revisions of this workload: generation -> row
  ingesters,    \* where each replica's pass is
  cycle,        \* the redis lease: its holder, or NoTime
  comparing,    \* compare_pending: the revisions it read and has not stored
  begun,        \* history: when each generation was specified
  finished      \* history: generations that were once rolled out

deployVars == <<minute, report, revisions, ingesters, cycle, comparing, begun, finished>>

Generations == 1..MaxGeneration
Minutes == 0..MaxMinute

\* The specification (generation, replicas, image pinned to a digest, provenance
\* labels) and the status, which lags it: until the controller has observed the
\* generation its counters are about an earlier one. The pods run the images of
\* their generations, so a generation stands for its digest. The generation and the
\* replicas asked for are always there: the specification of a DaemonSet names none,
\* and its status counts the nodes it should run on.
Workload == [kind: WorkloadKinds, generation: Generations, desired: {0, REPLICAS}, pinned: BOOLEAN,
             labelled: BOOLEAN, observed: 0..MaxGeneration, updated: 0..REPLICAS,
             ready: 0..REPLICAS, available: 0..REPLICAS, failing: BOOLEAN,
             pods: SUBSET Generations]

FirstWorkload(kind) ==
  [kind |-> kind, generation |-> 1, desired |-> IF kind = "DaemonSet" THEN 0 ELSE REPLICAS,
   pinned |-> TRUE, labelled |-> TRUE, observed |-> 0, updated |-> 0, ready |-> 0,
   available |-> 0, failing |-> FALSE, pods |-> {}]

FirstReport(kind) == [seen |-> FirstWorkload(kind), first |-> 0, at |-> 0]

RolloutStates == {"unknown", "pending", "progressing", "healthy", "degraded", "failed", "stalled"}
EvidenceStates == {"verified", "partial", "unverified", "conflict"}
Verdicts == {"improved", "stable", "regressed", "insufficient_data"}

-----------------------------------------------------------------------------
(* model.py: the two judgements                                            *)

\* Wrong variant: the counters are believed before the controller caught up.
AlwaysObserved(w) == TRUE

\* Counters describe this generation only once the controller has seen it.
generation_observed(w) == w.observed >= w.generation

\* What the observation carries of a counter. Kubernetes omits a counter that is zero,
\* and `status.get(..) or status.get(..)` reads a zero as nothing too; only the ready
\* pods of a DaemonSet are reported as zero and read by the second operand.
Counted(n) == IF n = 0 THEN NoTime ELSE n

CountedReady(w) == IF w.kind = "DaemonSet" THEN w.ready ELSE Counted(w.ready)

\* Scaled to zero on purpose, or every counter has reached the replicas asked for; an
\* availability that is not reported is not waited for.
RolledToEnd(w) ==
  \/ w.desired = 0
  \/ /\ NoTime \notin {Counted(w.updated), CountedReady(w)}
     /\ w.updated >= w.desired /\ w.ready >= w.desired
     /\ Counted(w.available) # NoTime => w.available >= w.desired

Complete(w) == ~w.failing /\ generation_observed(w) /\ RolledToEnd(w)

\* `since` is the first sight the observation carries, `now` the pass's clock.
evaluate_rollout(w, since, now) ==
  CASE w.failing                                       -> "failed"
    [] ~w.failing /\ ~generation_observed(w)           -> "pending"
    [] Complete(w)                                     -> "healthy"
    [] OTHER -> IF NoTime \in {Counted(w.updated), CountedReady(w)} THEN "unknown"
                ELSE IF now - since > STALL_AFTER THEN "stalled"
                ELSE IF w.ready > 0 /\ w.ready < w.desired THEN "degraded"
                ELSE "progressing"

\* The declared digest is the pinned reference's, the running one a pod's; a
\* missing link keeps the grade below verified, a disagreement is a conflict.
evaluate_evidence(w, running) ==
  IF w.pinned /\ running \notin {NoTime, w.generation} THEN "conflict"
  ELSE IF (w.pinned \/ running # NoTime) /\ w.labelled THEN "verified"
  ELSE IF w.pinned \/ running # NoTime \/ w.labelled THEN "partial" ELSE "unverified"

primary_digest(w, running) ==
  IF evaluate_evidence(w, running) = "conflict" THEN NoTime
  ELSE IF running # NoTime THEN running ELSE IF w.pinned THEN w.generation ELSE NoTime

-----------------------------------------------------------------------------
(* health.py: the comparison                                               *)

\* One signal, in units of which the tolerance of a fifth is exact.
direction(before, after, lower_is_better) ==
  LET rose  == after > before
      delta == IF rose THEN after - before ELSE before - after
  IN  IF delta = 0 \/ (before # 0 /\ 5 * delta < before) THEN "stable"
      ELSE IF rose = lower_is_better THEN "regressed" ELSE "improved"

\* A regression anywhere outranks improvement elsewhere; nothing measured is
\* never "stable".
decide(directions, incidents) ==
  IF directions = {} /\ ~incidents THEN "insufficient_data"
  ELSE IF incidents \/ "regressed" \in directions THEN "regressed"
  ELSE IF "improved" \in directions THEN "improved" ELSE "stable"

\* What the five curated signals may say about two windows: each is measured in
\* both or is missing.
Measurements == {direction(before, after, lower) :
                   before \in {0, 5}, after \in {0, 5, 6}, lower \in BOOLEAN}

-----------------------------------------------------------------------------
(* Kubernetes and the agent (external): each change of the workload, as it *)
(* reaches the inventory. The row follows the resource: its first sighting *)
(* is kept for the life of the workload, whatever its generation.          *)

DrakeWaits == UNCHANGED <<revisions, ingesters, cycle, comparing>>

Tick == /\ minute < MaxMinute /\ minute' = minute + 1
        /\ DrakeWaits /\ UNCHANGED <<report, begun, finished>>

Reported(w) == report' = [report EXCEPT !.seen = w, !.at = minute]

\* A new specification: the status is still the last generation's.
NewGeneration ==
  LET w == report.seen  g == w.generation + 1 IN
  /\ g \in Generations
  /\ \E spec \in Specs :
       Reported([w EXCEPT !.generation = g, !.pinned = spec.pinned, !.labelled = spec.labelled,
                          !.desired = IF w.kind = "DaemonSet" THEN @ ELSE spec.desired])
  /\ begun' = [begun EXCEPT ![g] = minute]
  /\ DrakeWaits /\ UNCHANGED <<minute, finished>>

\* The controller has seen this generation and all its replicas are updated and ready;
\* whether some, or none yet, have been ready for long enough to be available.
RolledOut(w) ==
  /\ w.observed = w.generation
  /\ \/ w.desired = 0
     \/ w.updated = w.desired /\ w.ready = w.desired /\ w.available \in {0, w.desired}

AtMost(n, most) == IF n > most THEN most ELSE n

\* The controller sees the specification and starts counting its replicas, then
\* replaces pods one by one, gives up (a Deployment says so), or loses a pod and gets
\* it back; pods that are ready become available. Nodes come and go under a
\* DaemonSet. Or the agent observes the workload as it was.
ControllerSteps ==
  LET w == report.seen  up == w.updated + 1 IN
  /\ \/ /\ w.observed < w.generation
        /\ Reported([w EXCEPT !.observed = w.generation, !.updated = 0, !.failing = FALSE,
                              !.ready = AtMost(@, w.desired), !.available = AtMost(@, w.desired)])
     \/ /\ w.observed = w.generation /\ w.updated < w.desired
        /\ Reported([w EXCEPT !.updated = up, !.ready = IF @ < up THEN up ELSE @,
                              !.pods = IF up = w.desired THEN {w.generation}
                                                         ELSE @ \cup {w.generation}])
     \/ /\ w.kind = "Deployment" /\ w.observed = w.generation /\ w.updated < w.desired
        /\ ~w.failing /\ Reported([w EXCEPT !.failing = TRUE])
     \/ /\ w.ready > 0
        /\ Reported([w EXCEPT !.ready = @ - 1, !.available = AtMost(@, w.ready - 1)])
     \/ w.ready < w.updated /\ Reported([w EXCEPT !.ready = @ + 1])
     \/ w.available < w.ready /\ Reported([w EXCEPT !.available = @ + 1])
     \/ /\ w.kind = "DaemonSet" /\ w.observed = w.generation
        /\ \E nodes \in {0, REPLICAS} \ {w.desired} :
             Reported([w EXCEPT !.desired = nodes, !.updated = 0, !.ready = 0, !.available = 0])
     \/ report.at < minute /\ Reported(w)
  /\ finished' = IF RolledOut(report'.seen) THEN finished \cup {report'.seen.generation}
                                            ELSE finished
  /\ DrakeWaits /\ UNCHANGED <<minute, begun>>

-----------------------------------------------------------------------------
(* worker.py and ingest.py                                                 *)

AtHome == [pc |-> "idle", row |-> NoTime, now |-> 0]

Outside == UNCHANGED <<report, begun, finished>>

\* SET NX EX; a replica that finds the lease taken skips its cycle.
run_ingest_cycle(i) ==
  /\ ingesters[i].pc = "idle" /\ cycle = NoTime
  /\ cycle' = i
  /\ ingesters' = [ingesters EXCEPT ![i].pc = "leased"]
  /\ Outside /\ UNCHANGED <<minute, revisions, comparing>>

\* All rows are read first; the clock of the pass is taken then.
workload_rows(i) ==
  /\ ingesters[i].pc = "leased"
  /\ ingesters' = [ingesters EXCEPT ![i] = [pc |-> "read", row |-> report, now |-> minute]]
  /\ Outside /\ UNCHANGED <<minute, revisions, cycle, comparing>>

\* Wrong variant: a pass that looks again moves the completion.
RecordedAgain(old, completed) == IF completed = NoTime THEN old ELSE completed

\* Completion is recorded once.
RecordedOnce(old, completed) == IF old = NoTime THEN completed ELSE old

previous_revision(g) ==
  LET older == {h \in DOMAIN revisions : h < g}
  IN  IF older = {} THEN 0 ELSE CHOOSE h \in older : \A k \in older : k <= h

\* Record or refresh the revision of the generation that was read. The pods are
\* read here, later than the workload, and the newest sighting of one wins.
ingest_workload(i) ==
  LET row == ingesters[i].row  w == row.seen  g == w.generation
      completed == IF Complete(w) THEN row.at ELSE NoTime
  IN
  /\ ingesters[i].pc = "read"
  /\ \E running \in (IF report.seen.pods = {} THEN {NoTime} ELSE report.seen.pods) :
       LET known == g \in DOMAIN revisions
           written ==
             [rollout |-> evaluate_rollout(w, row.first, ingesters[i].now),
              evidence |-> evaluate_evidence(w, running),
              digest |-> primary_digest(w, running),
              started |-> IF known THEN revisions[g].started ELSE row.first,
              previous |-> IF known THEN revisions[g].previous ELSE previous_revision(g),
              completed |-> IF known THEN RecordedOnce(revisions[g].completed, completed)
                            ELSE completed,
              health |-> IF known THEN revisions[g].health
                         ELSE [verdict |-> "none", at |-> NoTime]]
       IN  revisions' = [h \in DOMAIN revisions \cup {g} |->
                           IF h = g THEN written ELSE revisions[h]]
  /\ ingesters' = [ingesters EXCEPT ![i] = [AtHome EXCEPT !.pc = "done"]]
  /\ Outside /\ UNCHANGED <<minute, cycle, comparing>>

\* The pass ends, with its workload written or failed; only its own token is deleted.
EndCycle(i) ==
  /\ ingesters[i].pc \in {"read", "done"}
  /\ cycle' = IF cycle = i THEN NoTime ELSE cycle
  /\ ingesters' = [ingesters EXCEPT ![i] = AtHome]
  /\ Outside /\ UNCHANGED <<minute, revisions, comparing>>

\* The lease runs out under a slow pass, or the replica that held it has died.
LeaseRunsOut ==
  /\ cycle # NoTime /\ cycle' = NoTime
  /\ \/ UNCHANGED ingesters
     \/ ingesters' = [ingesters EXCEPT ![cycle] = AtHome]
  /\ Outside /\ UNCHANGED <<minute, revisions, comparing>>

\* The "after" window must have closed.
Comparable(row) ==
  /\ row.health.at = NoTime /\ row.completed # NoTime
  /\ row.completed + CLOSED_AFTER < minute

compare_pending ==
  /\ comparing = {}
  /\ comparing' = {g \in DOMAIN revisions : Comparable(revisions[g])}
  /\ comparing' # {}
  /\ Outside /\ UNCHANGED <<minute, revisions, ingesters, cycle>>

\* compare_health and store_comparison, or a failure that skips this revision.
CompareOne(g) ==
  /\ g \in comparing /\ comparing' = comparing \ {g}
  /\ \/ \E directions \in SUBSET Measurements, incidents \in BOOLEAN :
          revisions' = [revisions EXCEPT ![g].health =
            [verdict |-> decide(directions, incidents), at |-> minute]]
     \/ UNCHANGED revisions
  /\ Outside /\ UNCHANGED <<minute, ingesters, cycle>>

-----------------------------------------------------------------------------
\* The workload has just been created and reported.
DeployInit ==
  /\ minute = 0 /\ \E kind \in WorkloadKinds : report = FirstReport(kind)
  /\ revisions = <<>> /\ cycle = NoTime /\ comparing = {}
  /\ ingesters = [i \in Ingesters |-> AtHome]
  /\ begun = [g \in Generations |-> 0] /\ finished = {}

DeployNext ==
  \/ Tick \/ NewGeneration \/ ControllerSteps
  \/ \E i \in Ingesters :
       run_ingest_cycle(i) \/ workload_rows(i) \/ ingest_workload(i) \/ EndCycle(i)
  \/ LeaseRunsOut \/ compare_pending
  \/ \E g \in Generations : CompareOne(g)

DeploySpec == DeployInit /\ [][DeployNext]_deployVars

-----------------------------------------------------------------------------
(* Properties                                                              *)

DeployTypeOK ==
  /\ minute \in Minutes
  /\ report \in [seen: Workload, first: Minutes, at: Minutes]
  /\ DOMAIN revisions \subseteq Generations
  /\ \A g \in DOMAIN revisions :
       /\ revisions[g].rollout \in RolloutStates /\ revisions[g].evidence \in EvidenceStates
       /\ revisions[g].health.verdict \in Verdicts \cup {"none"}
       /\ revisions[g].completed \in Minutes \cup {NoTime}
  /\ cycle \in Ingesters \cup {NoTime} /\ comparing \subseteq Generations

\* A generation recorded as rolled out really was, all its replicas updated and ready,
\* and available when any was, at some moment: the counters of the generation before
\* it, which the status still shows, never complete it, however late the pass that
\* read them.
CompletedWasRolledOut == \A g \in DOMAIN revisions :
  revisions[g].completed # NoTime \/ revisions[g].rollout = "healthy" => g \in finished

\* When health was compared, the rollout was complete, and the window that begins when
\* it has settled had closed, counted from its completion and so from its start.
ComparedWhenClosed == \A g \in DOMAIN revisions :
  revisions[g].health.at # NoTime =>
    /\ revisions[g].completed # NoTime /\ revisions[g].started <= revisions[g].completed
    /\ revisions[g].completed + SETTLE + WINDOW <= revisions[g].health.at

\* What a revision claims about its rollout happened before it was claimed.
RevisionsClaimFacts == DeployTypeOK /\ CompletedWasRolledOut /\ ComparedWhenClosed

\* History stands: no pass, late or overtaken, moves a rollout's start, moves or
\* withdraws its completion, changes what it followed, or removes it.
HistoryStands ==
  [][\A g \in DOMAIN revisions :
       /\ g \in DOMAIN revisions'
       /\ revisions'[g].started = revisions[g].started
       /\ revisions'[g].previous = revisions[g].previous
       /\ revisions[g].completed # NoTime => revisions'[g].completed = revisions[g].completed
    ]_deployVars

-----------------------------------------------------------------------------
(* Stated by the documents, and not kept by the code: TLC refutes what     *)
(* follows (README, section 6).                                            *)

\* "updated, ready (and available) all reached desired": a rollout called healthy by
\* the pass that read it had all its replicas available.
HealthyIsAvailable ==
  [][\A i \in Ingesters :
       LET w == ingesters[i].row.seen IN
       ingesters[i].pc = "read" /\ ingesters'[i].pc = "done"
         /\ revisions'[w.generation].rollout = "healthy"
         => w.available >= w.desired]_deployVars

\* "How long a workload may sit mid-rollout before Drake stops calling it
\* progressing": a rollout called stalled had been under way that long.
StalledTookTime ==
  [][\A i \in Ingesters :
       LET g == ingesters[i].row.seen.generation IN
       ingesters[i].pc = "read" /\ ingesters'[i].pc = "done" /\ revisions'[g].rollout = "stalled"
         => ingesters[i].now - begun[g] > STALL_AFTER]_deployVars
=============================================================================
