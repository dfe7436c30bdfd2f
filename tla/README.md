# Verification of the Drake control plane

Drake (`apps/api`, `apps/worker`, `apps/cluster-agent`, `apps/web`) is an
observability and operations control plane: read-only agents report what runs
in Kubernetes clusters, the API turns that and external telemetry into health
verdicts, incidents and notifications, and repositories are brought in through
reviewed onboarding plans. This directory holds TLA+ modules that model its
stateful core, TLC configurations that check them on small instances, and TLAPS
proofs of the most important results for every instance. `PROJECT.json` is the
machine-readable index: components, runs, mutants, the map from definitions to
source lines, findings, hazards and theorems.

Source paths below are relative to `apps/api/src/drake_api/` or, for `*.go`,
to `apps/cluster-agent/internal/`.

## 1. Inventory

| Part | State it keeps | Operations | What is hard | What makes it correct |
|---|---|---|---|---|
| Inventory ingestion, `agents/router_ingest.py` | writer row of a cluster, snapshots with pages and staged rows, sequence and state of an agent, projection, change feed | begin, page, complete, watch events, heartbeat, reconcile demand | messages repeated, delayed or lost; a demand that commits in a second transaction; takeover by a new agent; expiry | one snapshot can be applied, fresh means newest, nothing comes back |
| Maintenance, `agents/maintenance.py` | the same tables | expire, cap, drain, prune snapshots, bound the change feed | each step is a transaction of its own beside ingestion | what is applied survives; what is kept of the feed stays true |
| Agent engine, `engine/engine.go`, `transport/transport.go` | sequence (memory and file), queue, stack of a cycle | list, post pages, watch, flush, reconcile, restart | gap between list and watch, queue overflow, retries that arrive late, a sequence file that lags | the projection was the cluster once, and becomes it |
| Certificate renewal, `engine/renewal.go`, `identity/store.go`, `agents/router_internal.py`, `agents/identity.py` | trusted key and pending slot; bundles and two pointer files | prepare, save, point, activate, promote, clear | a lost answer at every step, crashes between file operations, authentication outside the transaction | the trusted key can always still be used |
| Service health, `service_health/` | bindings with revisions, fresh and last-good verdicts in Redis | edit, resolve, read, score, cache | configuration changes while a reading is under way; signals that fail | no verdict is served for another configuration; none rests on a gap |
| Incident processor, `incidents/processor.py` | state row and transitions of a binding, incidents, timeline | process a verdict, acknowledge, assign | overlapping cycles, streaks over revisions and outages, repeated calls | an observation counts once; rows and timeline agree |
| Evaluation runner, `incidents/runner.py` | a Redis lease, cursor and batch | acquire, page, evaluate, release | a lease that expires under its holder, replicas that die | every due binding the batch reaches is evaluated |
| Notification planner, `notifications/planner.py`, `repository.py` | policies, attachments, plan rows, notifications, deliveries | edit, attach, plan | edits between an event and its planning, `now()` as the start of a transaction, two planners | not retroactive, complete |
| Webhook worker, `notifications/worker.py` | deliveries, attempts | claim, send, record, retry, suppress | a worker that dies holding deliveries, budgets, final states | one holder; attempts tell the story |
| Alert ingestion, `alerting/ingest.py` | alert rows, events, links, incidents | receive, apply | late, repeated, overlapping and malformed payloads; a second writer of incidents | the screen shows the newest fact |
| Silences, `alerting/silences.py` | requests, claims; silences at Alertmanager | request, claim, create, expire, finish | calls outside transactions, claims that lapse, lost answers | one silence per request; every request ends |
| Objectives, `alerting/slo.py`, `slo_service.py` | definitions with versions, evaluations, a lease | define, measure, judge, store | a definition changed while it is measured, series that fail or age | a judgement is of the objective it names |
| Onboarding, `onboarding/` | sessions, plans, receipts, the catalog, pull request requests | analyse, approve, apply, cancel, propose | requests that talk to GitHub between transactions, pushes, retries, workers that die, operators who bind services during a review | an import is approved, once, and settles |
| GitHub App, `github_app/` | installation, repositories, deliveries, reconciliation job, policy results | webhook, drain, sweep, reconcile, evaluate | deliveries repeated and out of order, three writers of one row, unreadable sources | ready is earned; what is done was done |
| Deployments, `deployments/` | a revision per generation, comparisons | ingest, judge, compare | passes that overlap, counters of the last generation or none | what is claimed happened; history stands |
| Protection, `protection/` | events, evidence, verdicts, incidents | ingest, snapshot, evaluate | evidence out of order or named ambiguously, two evaluations, a third writer of incidents | the order of arrival is forgotten |
| Telemetry broker, `telemetry/` | cache, budgets | query | stale answers, budgets at their limit | |
| RBAC, sessions, audit, `rbac/`, `auth/`, `audit/` | grants, idempotency keys, sessions, audit rows | command, login, revoke | a check that is stale when used | |
| Job queue, `apps/worker` | Redis queue, idempotency keys | enqueue, run, retry | a worker that dies with a job | |
| Catalog, integrations, logs and traces, web | little behaviour over time | mostly reads | | |

How the parts interact. An agent talks to the ingestion API over mutually
authenticated HTTP, one inventory request at a time, with a certificate the
renewal keeps alive. The runner of each API replica evaluates bindings: it
loads the binding, asks the telemetry broker, and hands the verdict to the
processor, which writes transitions, incidents and timeline entries in one
transaction. The planner reads timeline entries and inserts notifications and
deliveries; the worker claims deliveries and sends them. Alertmanager and
backup connectors call webhooks of their own and open incidents beside the
processor's. Deployment passes read the projected inventory. GitHub calls the
App's webhook, which queues a reconciliation job and projects repositories; an
operator onboards one of them: an analysis reads the manifest and makes a plan,
an approval is applied to the catalog, and a worker may propose the manifest as
a pull request. Apart from the agent protocol and the calls to GitHub,
Alertmanager, Prometheus and webhook receivers, the parts share PostgreSQL
tables and Redis keys and nothing else.

## 2. Modules

| Module | Models | Builds on |
|---|---|---|
| `InventoryIngest` | every transaction of ingestion and maintenance for one cluster | |
| `IngestAnyStream` | the API under an arbitrary stream of messages; its properties | `InventoryIngest` |
| `InventorySync` | cluster, agents and network composed with the API | `InventoryIngest` |
| `CertRenewal` | both sides of the renewal, disk and network | |
| `ServiceHealth` | bindings, scoring and cache of one service | |
| `IncidentLifecycle` | verdicts, processor, operators | |
| `EvaluationRunner` | lease and sweep of the replicas | |
| `NotificationPlanner` | policies under edit, and planning | |
| `WebhookDelivery` | the outbox of deliveries and its workers | |
| `AlertIngest` | Alertmanager payloads, alert rows, events and incidents | |
| `Silences` | silence requests and their worker | |
| `SloEvaluation` | windows, burn rules, definitions and evaluations | |
| `Deployments` | revisions, rollout verdicts and comparisons | |
| `Protection` | backup evidence, verdicts and incidents | |
| `OnboardingPlan` | the planner and the apply handlers | |
| `OnboardingContract` | what the onboarding API promises | |
| `OnboardingSession` | the session protocol, which implements the contract | `OnboardingContract` by INSTANCE |
| `GitOpsRequests` | pull request requests composed with the session | `OnboardingSession` |
| `GitHubApp` | webhooks, reconciliation job, repository states | |
| `PolicyRules` | the fifteen rules over what could be read | |
| `MCIngest`, `MCSync`, `MCIncidents` | instances for TLC | one module each |
| `MCLoops`, `MCOutbound`, `MCSignals`, `MCOnboarding` | several modules side by side | see below |
| `IngestProofs` | theorems about ingestion | `IngestAnyStream` |
| `SyncProofs` | theorems about the stream of messages between agents and API | `InventorySync` |
| `SyncPictureProofs` | theorems about what the projection shows of the cluster | `SyncProofs` |
| `IncidentProofs` | theorems about incidents | `IncidentLifecycle` |
| `LoopProofs` | theorems about the background loops | `EvaluationRunner`, `NotificationPlanner`, `Silences`, `CertRenewal` |
| `AlertProofs` | theorems about alerts and webhook deliveries | `AlertIngest`, `WebhookDelivery` |
| `SignalProofs` | theorems about what is concluded from signals | `Deployments`, `ServiceHealth`, `SloEvaluation`, `Protection` |
| `OnboardingProofs` | theorems about bringing a repository in | `OnboardingPlan`, `GitOpsRequests` (with `OnboardingSession`), `GitHubApp`, `PolicyRules` |

A definition named in a comment as "Wrong variant" is a plausible bug in the
definition that follows it; no specification uses it. `PROJECT.json` pairs
each with the property that must fail when it takes the definition's place.
Statements under the heading "Stated by the documents, and not kept by the
code" are refuted by TLC; section 6 says how.

**Side by side.** The last four MC modules put several independent components
into one instance. A variable `part`, chosen in the initial state and constant
afterwards, says which component the behaviour is about; the others keep their
initial state, and their variables are pinned to one initial value. The state
space is the sum of the components' spaces, never their product, and a property
of one component is true in the parts of the others because nothing happens
there. Each fairness conjunct of a component is conditional on its part. No
symmetry is used, because the named model values differ from part to part.

### InventoryIngest, IngestAnyStream
The variables are the columns: the writer row (`active_agent`,
`current_generation`, `applied_generation`, `applied_snapshot`,
`pending_snapshot`), a record per snapshot spread over functions, the two
columns of an agent, and the projection. The four ingest handlers lock the
writer row first, so each is one action; its early returns are the values of
`BeginResult`, `PageResult`, `CompleteResult`, `EventsResult`. What the code
does in another transaction is another action: `_demand_reconcile` follows a
refusal through the set `demands` and may be delayed or lost; each of the five
maintenance steps (expire, cap, drain, prune snapshots, bound the change feed)
stands alone and may run at any moment. Of the feed the model keeps the newest
change of each resource, `last_change`, and `BoundChangeEvents` may take it away;
`FeedAgrees` speaks of what is left, and `ProjectionProtected` of the moment a
change is written. A payload is a resource version, a page hash
is equality of page contents. `IngestAnyStream` lets any agent send any
message at any time, which is more than the real agent does.

### InventorySync
The cluster is a log of changes and a uid never returns after its deletion. An
agent is the stack of its sync cycle (`session`), its sequence in memory and
on disk, and one outstanding request. Requests stay in `net` for ever, so
retries and stragglers are late deliveries. Everything that goes wrong (late
delivery, lost answer, failed cycle, restart, failed write of the sequence,
expiry, lost demand) is an action that spends from `MaxFaults`. `TruePicture`
says that the projection of each kind is a state the cluster was in, and the
present one when the agent has caught up.

### CertRenewal
A renewal is a number, standing for its id, key, certificate and bundle. The
agent is a program counter over `renewOnce`, `settlePending` and
`tryActivatePending`; every file operation is a step, a crash is possible
between any two. On the server, authentication reads the trusted key in a step
before the transaction of the prepare. `LatePrepares` says whether a prepare
the agent has given up on may still be processed.

### ServiceHealth
`bound` is the binding row, `seenUid` the workload the inventory shows, `source`
the version of the datasource. An edit is a view of the row, a check of the
revision and an update; a read is a load, a cache lookup and the computation,
each a step of its own. `cache_keys` is the identity the code derives for a
cache entry; an entry remembers, as a ghost, the row and source it was computed
for. `compute_health` is the whole scoring of `engine.py` over the twelve
signals, with both policies and presets; a signal is a number, failed, not
configured or missing, and a read has the age of its newest sample and whether
the broker served any of it from its own last good answers.

### IncidentLifecycle
A worker is one evaluation slot and goes through due, reading and verdict; the
binding may change between any two. `CurrentHealth` reads or falls back to the
last-good verdict with its original `computed_at`. `ProcessEvaluation` is the
whole transaction: state row, streaks, transition, incident, timeline entry.
The scoring is here a choice among `Readings`. The ghost `counted` remembers
the verdicts that were not dropped as duplicates.

### EvaluationRunner
`AcquireLease`, `ReadPage`, `Evaluate`, `FinishCycle` are the sweep of
`run_cycle`; `ExpireLease` is the TTL, which the holder does not notice;
`AbortCycle` is an exception, a cancellation or a death.

### NotificationPlanner
An edit is two steps, `Begin` (where `now()` is taken and the row is read) and
a commit. A policy's filters are the set of event kinds it matches, a target is
the person or the webhook key. `expected` is the ghost that remembers who
matched when an event was recorded, `late` who was added by an edit that was
under way at that moment. Such an edit takes effect from its start but commits
when it may: an event can be planned while one edit has taken a target off, and
another, begun before the event, then names the target again. That is why
`PlannedIsComplete`, too, leaves the targets in `late` out; with two policies
and one moment more than run `loops` has, the statement without this exception
is false.

### WebhookDelivery
A row has a state, an attempt count, whether it is due and whether its claim is
held or expired. `flight` is what a worker holds in memory. The Redis lease of
a delivery cycle is left out, because it expires and nothing may rest on it.

### AlertIngest
Alertmanager composes payloads from the current facts and sends each once,
twice or never. `Receive` is what a transaction finds absent, `ApplyDelivery`
everything it writes: the alert row under `source_event_at`, the event under
its dedupe key, the mapping by labels over the catalog, the incident, its links
and its mitigation. The catalog and the open protection incidents change
beside it. `facts` and `overtaken` are ghosts: what applied deliveries carried,
and whose first row was inserted by somebody else in between.

### Silences
`provider` is Alertmanager: a sequence of silences, live or not. A worker
claims a batch, calls the provider outside any transaction, and `_finish`
writes unconditionally. A lost answer, a claim that lapses under a worker and
a death are mishaps, counted per request and bounded by `MaxMishaps`.

### SloEvaluation
Windows are series over `Instants`; `AvailabilityWindow` weighs the error ratio
by the request rate, `LatencyWindow` counts samples over the threshold.
Ratios are integers and quotients are compared by products. A redefinition may
change the budget, the span, the indicator and the threshold; only the first
two make a new version, as in `ensure_definition`. (The service is whatever the
series come from, and there is one burn profile.) A stored
evaluation keeps, as a ghost, the definition and the series it was made from,
so that `HealthyIsMeasured` can recompute the failing share independently.

### Deployments
Kubernetes and the agent change `report`, the row of the projected inventory,
of one workload: a Deployment, a StatefulSet or a DaemonSet. The kinds differ in
where the desired number comes from and in which counters are reported:
`Counted` and `CountedReady` are the `or` of ingest.py, which reads a zero as
nothing, except for the ready pods of a DaemonSet, so that a rollout may be
judged `unknown`; availability counts only where it is reported. A pass takes the
lease, reads the row, and writes the revision with a clock taken at the read;
the lease may run out under it. `finished` is the ghost that remembers which
generation ever had all its replicas updated and ready, and as many or none
available.

### Protection
A `story` is what the provider did, in its own order; any of its facts may be
delivered at any time, in any order, live or in a page of a snapshot, and is
refused while its parent is unknown. An event of a type that an older Drake does
not know (`NewTypes`) is refused for good: `unknown_type` records the rejection
under the event's id. A check or a copy names its artifact by a key, and the
newest artifact with that key, of any run, is taken (`artifact_id`); `went` is
the ghost that remembers to which row an event went. `StoryAssumption` says no
more of a story than that its facts are well formed: keys may be shared between
runs and between policies. An evaluation takes its moment, reads five statements
one after the other, each against what is committed by then, looks for an
incident and writes (`evaluate_policy`, `gather_evidence`, `LookForIncident`,
`sync_incident`). `place` is where a policy's incidents belong: a bound workload,
the environment without one, or nowhere, and then there is no incident. Two facts
about one thing may carry the same time; what is projected is then what one of
them says, and the model does not say which.

### OnboardingPlan
`build_plan` reconciles one manifest with the catalog and the observed
workloads, item by item; `PlanFor` adds the deployment source that discovery
saw, after the cut. `_materialise` is the sequence of apply handlers in the order
of `_ORDER`; `verify_plan_integrity` is the comparison with the approved digest,
which fails when two items had one key and only the first was stored. A row is a
function from field names to values. An applied binding resolves what is pending
in its cluster, as a completed snapshot does (`Explicable`; `resolved` is the set
of bindings that know their resource). Between the plan and its application
manifests are edited, workloads appear and vanish, dependencies are confirmed
out of band, clusters come and go, and operators create bindings
(`bind_by_hand`) and switch them off and on (`switch_binding`); the ghost
`meanwhile` holds the pairs they touched during the review.

### OnboardingSession, OnboardingContract
A request that talks to GitHub is a caller with several steps; anything may
commit between them, and a caller may be lost at any step. `imports` is the
history of committed imports, `receipts` the idempotency table. The contract
has two variables: the sessions whose approval stands, and the number of
imports of each. The refinement maps `standing` to the sessions in state
`approved` and `imported` to the number of rows of `imports`;
`ImportsFollowApproval` is the contract's specification under that mapping.

### GitOpsRequests
A request is a row per session and reviewed commit. Workers lease it, check it
again, mark it, call GitHub step by step, and write the outcome only if the row
is still theirs. The provider's state is a branch with its base, the file and
the pull request. A write may land and its answer be lost.

### GitHubApp, PolicyRules
`hub` is GitHub: the state of the installation, its members and their names.
Each of its changes sends one event. Drake's side is the delivery rows, the
installation, the repository rows, the one outstanding job with its lease,
sweepers and operators; every provider call is a step. `resolve_effective` is
the precedence of the onboarding states. There is one installation; a repository
never moves to another. `PolicyRules` fixes a repository's
settings and varies which sources could be read.

## 3. Runs

All state spaces are explored completely. A property that joins several
statements is the conjunction of named parts, its module's type invariant
among them.

| Run | Instance | Shows |
|---|---|---|
| `ingest` | 2 agents, 2 snapshots, 2 uids, sequence numbers to 4, limits 1 and 0 | the writer protocol under arbitrary messages: one candidate to apply, fresh means newest, counters agree with rows, the feed tells the truth while it is pruned, nothing revives or rewinds |
| `sync` | 1 agent, 3 uids of 2 kinds, 3 changes, 2 faults, 2 snapshots, pages and queue of 1 | the projection of a kind is a consistent cut at all times, and complete when the agent has caught up |
| `takeover` | 2 agents, 2 uids, 1 fault, 3 snapshots, no history kept | nothing lost and nothing taken back over a takeover with pruning |
| `converge` | 1 uid, 3 changes, 2 faults, 8 snapshots | the projection ends equal to the cluster |
| `incidents` | 2 overlapping slots, 4 moments, 2 revisions, 2 incidents | incidents open, recover, relapse and resolve only on observations that count; rows, transitions, incidents and timelines add up |
| `loops` | renewal: 3 renewals, 3 faults, 1 bundle kept; runner: 2 replicas, 3 bindings, a batch of 2, 1 fault; silences: 1 request, 2 workers, 2 tries, 2 mishaps; planner: 1 policy, 2 targets, 2 managers, 2 planners, 5 stamps | recoverable, forward, ends trusted; every due binding in reach of the batch is evaluated and a release frees only its own lease; one silence per mishap, every request settles; not retroactive, complete |
| `outbound` | deliveries: 2 workers, 2 deliveries, 3 attempts, 2 deaths; pull requests: 1 session, 1 worker, 2 attempts | deliveries add up, final states stay, deliveries end unless their own worker failed; every pull request request ends even if workers die at every attempt |
| `signals` | alerts: 2 fingerprints, 3 payloads; objectives: 2 replicas, 2 definitions; health: 2 measures off or lost; protection: 4 stories of 3 to 6 facts, 2 places, 2 requests; deployments: a Deployment and a DaemonSet, 2 generations, 2 passes | what is concluded from late, repeated, reordered and missing signals is true of the signals |
| `onboarding` | plans: 7 manifests, 2 workloads, 3 outside events, of operators too; session: 2 sessions, 2 callers, 2 keys, 2 commits; requests: 2 workers, 2 attempts; GitHub: 2 events, 1 fault, 2 sweepers, 1 operator; policy: about 500 settings; cache: 1 editor, 1 reader | a repository is imported on approval, once; request rows, repository states and closed jobs tell the truth; no verdict on a gap, no stale verdict in reach |

Three more runs end in a violation; see section 6.

Why the bounds are enough. `ingest` needs two snapshots for a superseded and
an applied one, two agents for a takeover, and four sequence numbers for begin,
page, complete and an event batch; a gap is any number above the next. In
`sync` three changes are an addition, a change and a deletion on either side of
a list; two uids of one kind make a mixture of two versions visible, the third
uid makes a second list and watch; page and queue sizes of one make paging and
overflow happen at once. `takeover` keeps no history, so that pruning and
retransmission meet. `converge` has more snapshots than the faults and changes
can use up, so that a cycle can always start. Three renewals are an abandoned,
a promoted and a newer one, with fewer bundles kept than the pointers and the
leftovers need. Four moments let an incident open on two and resolve on two,
with the second slot handing in late what it read before. Five stamps are a
policy created, given a target, switched off, an event, and the policy switched
on again. Three payloads are a firing, a resolution and one that overtakes;
the catalog moves the alert between being mapped and ambiguous. Two definitions
and one period let a replica store what it measured under the old one. In
`deployments` the second generation begins under the counters of the first, and
an instance with a window of one unit closes it within the clock. The runner has
one binding more than its batch, so that one is behind it until another is
switched off. The stories are a backup that is lost, a drill that is late, runs
that fail, and two runs whose artifacts have one key. The manifests of
`MCOnboarding` grow, move a data store, clash over a namespace, declare an empty
window, repeat a service and come from a partial analysis; three outside events
are enough to leave, change and restore, or to bind by hand, disable and enable. Two plans per session are an approved and a newer
one; two keys are a retry and a stranger. Two attempts let a request be retried
once and then close.

Cuts beyond the constants, each named where it is made. `DemandBound` (run
`ingest`): one refusal waits for its mark; the proofs have no such bound.
`OneProposal` (`onboarding`): one session and one caller beside the workers, of
caller and two workers two are busy, and the gate closes only where nothing is
pushed (`GateInQuiet` in `outbound` likewise). `OneRace`: of sweepers, operator
and recorded events two are under way at once, and the operator asks only while
one event has been sent. `SmallRollouts` (`signals`): two passes overlap over
a Deployment while the clock is at rest, one of them at its first generation; with
the clock running one pass follows the workload, which is then only observed.
`FewEvaluateAtOnce`: one request evaluates at a time, and two while the run and
the drill fail, in the second hour. `LatencyAtLast`: the objective becomes one of
latency once, and not back. `WithoutFeed` (`sync`, `takeover`) is a view: states
that differ in the change feed alone are one there, since no property of these
runs reads it and no action depends on it; `ingest` and the proofs have the feed. `WhereItMatters`: protection changes only
in the environment an alert names. `UnreadVaries`: what cannot be read is what
the settings vary. Symmetry is used only with safety properties, in `ingest`,
`takeover` and `incidents`. Deadlock is not checked where a bound on changes,
clock, events or renewals stops the system by itself; it is checked in the run
`orphan`, whose workers never have to stop.

Fairness, and why the code justifies it.
- `FairSync`: the agent's goroutines and the API's workers go on (weak
  fairness); nothing is assumed of faults, changes or maintenance.
- `FairRenewal`: the agent's loop goes on, and the request it is waiting for is
  handled, unless one of the bounded faults loses it.
- `RunnerFairness`: Redis expires the lease, the loops tick, so some replica
  takes a free lease, and a cycle goes on; no particular replica is promised
  anything.
- `HookFairness`: time passes, a worker goes on with what it holds because
  requests have timeouts, and a delivery that is due again and again is claimed
  (strong fairness) because a batch is ordered by `next_attempt_at`.
- `SilenceFairness`: a worker's loop never ends and a claim's 60 seconds pass;
  nothing is assumed of Alertmanager's answers.
- `GitOpsFairness`: the workers loop for ever and leases and backoffs pass;
  nothing is assumed of operators, of GitHub's answers or of how often a worker
  dies.

## 4. Proofs

Eight proof modules, each theorem for every value of the constants that
satisfies the named assumptions: no bound on processes, rows, messages or
faults comes from the runs. The assumptions say only that limits are numbers
and sentinels are no data, unless a paragraph names more. `PROJECT.json` pairs
each theorem with the run property it states: the run shows it on a small
instance, the theorem on all.

**`IngestProofs`.** `GenerationsAlwaysAgree` (with `TypeCorrect`,
`OnlyNewestCanApply`, `FreshIsNewest`, `AppliedSurvives`), `FeedIsTruthful`,
`ProjectionIsProtected`, `NothingEverComesBack`, `CountersAlwaysAgree`,
`StagingAlwaysAgrees`, from `IngestAssumption` and the types of the messages.
The feed may lose its oldest rows at any moment, so `FeedIsTruthful` is about the
newest change that is kept; that a change is written whenever a resource comes,
goes or returns is part of `ProjectionIsProtected`.
`WriterInv` joins the state properties with `GenerationBound`: without it a
begin could hand out a generation some snapshot already carries. `MessageCases`
reduces the handlers, with their early returns, to the few effects a message can
have; each effect has a lemma. `CountsInv` adds that a snapshot no longer or not
yet on record has no page and no staged row, so that a begin starts from
nothing; `StagingBound` bounds the staged rows by the sizes of the pages, whose
versions may repeat a uid. `StagingAgrees` says what the rows are: what is
staged for a snapshot is what its accepted pages carried.

**`SyncProofs`.** `PipelineIsAStream` is a refinement: every behaviour of
agents, network and API is one of the API under an arbitrary stream, so the
invariants of `IngestProofs` hold in the pipeline. It needs `BaseInv`, the shape
of messages, sessions and rows. `PrunedUidsStayUnused`: `BeginInv` says that
there is one begin per snapshot uid, that only uids some agent issued have rows,
and that the sequence number an agent has committed never falls behind a begin
of its that was accepted. The last part is what pruning cannot undo, and why a
straggling begin is rejected. `TrafficFacts` and `SequenceFacts` are what the
next module builds on: a snapshot's pages and rows were sent after its begin and
agree with one another; the file a restart reads may lag behind the number the
API has reached but is never ahead of it, and no message but a begin is ever
more than one ahead, so that a number used twice can be accepted only once.

**`SyncPictureProofs`.** `SyncTruePicture`, `NothingIsSilentlyLost` and
`ProjectionOnlyGoesForward`. A cut is one version per kind. `SessionTruth` and
`CompleteTruth`: what an agent has listed, and every snapshot whose end it has
announced, is the cluster at the versions the lists were made at. `AnchoredFacts`: from
the cut the projection shows, the event batches on their way and then the queue
of the active writer lead, without hole or overlap, to the versions it has
seen. `LiveEvents`: the events that can still be applied continue exactly that
cut, whoever sent them and however late. The first theorem says that there is a
cut, the second that it is the present one when nothing is left to send, and the
third that a step never moves it back. `SyncAssumption` asks that the kinds are
distinct (as the list in `normalize.go` is) and cover the resources, that limits
and snapshot uids are numbers, and that no request is the sign for none.

**`IncidentProofs`.** `TimelinesTellTheStory` and `IncidentsFollowTheReadings`,
the latter the action property that incidents open and resolve on two readings
in a row. `IncidentInv` adds to the types: a state row stands for the newest
entry of the ghost `counted`, and a streak it runs is of that entry's kind
(`Tallied`); a binding has at most one live incident; a timeline tells its row
(`Recorded`), and a recovery the state row counts is under way on the timeline
of the live incident (`Recovering`). The streaks link one cycle to the next: the
second reading is processed by a worker that never saw the first.

**`LoopProofs`.** `LeaseIsReleasedByItsHolder`, from the uniqueness of tokens;
`PoliciesAreNotRetroactive` and `PlannedMeansComplete`, because whoever the
policies name now was named when the event was recorded, or is late
(`MatchedInTime`), and because the version an open edit has read stands for the
whole row (`SeenIsKnown`: an edit takes a stamp, so versions grow no faster than
the clock). `OneSilencePerRequest`, where the silences themselves are not enough
to count: `Paid` adds the workers whose pass may still create one, and one more
while a worker may start a pass without a mishap. The sum is at most one more
than the mishaps.

`CertRenewal`, if prepares are processed only while the agent waits for them
(`~LatePrepares`): `AlwaysRecovers`, `AgentNotStranded`, `KeysOnlyMoveForward`;
`TypeCorrect` without it. `RenewalInv` has six parts: the types, what the agent
knows at each point of its program, what the pending slot may hold, which
activations can still take effect, which key is trusted and how the agent
reaches it, and what the files hold. The trusted key alone is not inductive: one
has to know which of the old requests can still act. Run `late_prepare` shows
that the assumption is needed.

**`AlertProofs`.** `NewestFactIsShown` and `AFactIsRecordedOnce`. The invariant
speaks about the source as well as about Drake: the facts of an alert are in
order (`SourceInv`), so that two usable facts of one moment are the same fact;
only then does the guard on `source_event_at` decide right, and only then does
the dedupe key stand for a fact. Deliveries: `DeliveriesAlwaysAddUp` and
`FinalDeliveriesStay`. Three facts make the first inductive and the second a
consequence: a worker that holds a 2xx answer got it from the receiver
(`AnswersAreReal`), a claim is held on rows in `processing` only
(`ClaimsAreProcessing`), and a row that is not there has no attempts
(`AbsentIsUntouched`).

**`SignalProofs`.** Deployments: `RevisionsAreTrue`, `DeploymentHistoryStands`;
the invariant carries what a pass has read (`Sighting`) until it writes, since
the report moves on meanwhile, and says of a report what makes a completion a
fact: counters that look complete belong to a generation that was once rolled
out to the end (`Earned`). Service health: `NoStaleVerdict`, whose
invariant says that a row of one revision is one configuration, and
`VerdictsRestOnEvidence`, which is about the scoring functions and holds for
every assignment of the twelve signals, against every threshold of both policies; `BindingAssumption` says that a row is
not the sign for a missing one. Objectives: `JudgementsCanBeTrusted`. What a
replica is measuring agrees with the definition row of the version it took; and
a window judged healthy had requests or samples, and what failed of them is at
most three quarters of the budget. The window sums over a series with an operator that takes
the instants in an order of its own; that its sums depend on nothing but the
terms, and grow with them, is proved over the subsets of `Instants`, which the
assumption makes finite, by taking a smallest one that fails. Protection:
`ArrivalOrderNeverMatters`, for all well-formed stories (section 2); `RowsTold`
says that each projected row stands for one accepted event that went to it and
that no accepted event that went to it is newer, which an event refused and told
again later must not break. To which artifact a check or a copy goes depends on
the order of arrival if two runs share the key, which the code permits; the
theorem has the condition in its conclusion (`OneArtifactPerKey`) and assumes
nothing.

**`OnboardingProofs`.** `AKeyImportsOnce` and `SessionImplementsContract`, the
refinement of `OnboardingContract`: the initial state maps to the contract's,
and each step to an approval, its end, an import of a session whose approval
stands, or a stutter. The invariant of both is `KeysAgree`, which links the
receipts with the history. `ProposalRowsAreTrue`: `GoodCalls` says that what a
worker has learnt of the branch still holds while its call is in the air, since
a branch with this base and file is never taken away; a call within its lease
has its row marked. `ReadyIsAlwaysEarned` and `DoneWorkWasDone`: three writers
(drain, sweeper, operator) each go through `resolve_effective`, so the
invariant is about rows whoever wrote them last; a job whose owner has committed
a listing is synced. `PassesStand`: each of the fifteen rules is monotone in what
could be read, and so is their worst. Plans: `ImportsBindOnce`, with operators who
create, disable and enable bindings at any moment. `PlanBase` says that bindings
are rows of declared pairs, and that a plan under review proposes a workload once
per pair (its keys are those of a digest that matches, `OneKeyEach`) and only for
a pair that had no active binding when it was planned: if it has one now, an
operator touched it, and it is in `meanwhile`. `BindingsAreFound` is about a single
step. `ImportsComeToRest` joins them with `ImportSettles` and assumes nothing of
the manifests: its conclusion is about those that fit a plan (`Fits`), which the
schema, bounding no list, does not promise; that names are unique follows for
every plan that is applied, from `verify_plan_integrity`. `ImportBase` keeps the
rows typed and says what a round leaves behind: a plan under review that is not
blocked promises a row for all the manifest declares (`Promises`); after one
import the rows exist and a plan under review is what planning now would give;
after two, planning again finds the rows as declared. A plan that is cut can
still be applied when it is not blocked, which is why the cut matters even to
manifests that fit: what the catalog has and a manifest omits is listed in the
plan too, and blocks it. The first such item lies within the cut, so that a plan
which is not blocked has none and is whole (`WholePlan`).

**Model-checked only.**
- Liveness: `Converges`, `EndsTrusted`, `EveryReachedBindingIsEvaluated`,
  `EverySilenceSettles`, `UndisturbedDeliveriesEnd`, `RequestSettles`. Fairness
  and ENABLED are beyond the prover.
- The statements of section 6 that the runs refute, and what the wrong variants
  break.

Every other property a run checks is stated by a theorem.

## 5. What is not modelled

- Row locks within a transaction. A transaction is one step; where two lock in
  different orders PostgreSQL ends one, which the model has as a failed
  request.
- The contents of resources, certificates, webhooks, queries and manifests, and
  the text of plans, incidents and drafts.
- Permissions and scopes. Enrolment tokens and revocation.
- The audit log, which is written after the commit of what it records.
- The three writers of incidents are modelled, each in its own module
  (`IncidentLifecycle`, `AlertIngest`, `Protection`), and not composed on one
  incidents table; an operator's acknowledgement is modelled with the first.
- Of the GitHub App: the drafts of `onboarding_service.py`, the repository
  scanner and the HTTP client. Of onboarding: drift and the lists, which only
  read. Of protection: the policies `connectors.py` copies from its
  configuration. Of notifications: read receipts, the scope check of a
  recipient and `mark_existing_events_planned`.
- Of bindings in `OnboardingPlan`: edits of preset and policy (`ServiceHealth`
  has them), and a binding in another cluster than its environment's:
  `create_binding` takes any active cluster its caller can see, `bind_by_hand`
  only the environment's own. One plan is under review at a time; the races of
  several sessions are `OnboardingSession`'s.
- A second GitHub installation, and repositories that move between two
  (`github_app/service.py:1739`, `:1775`, `:1810`).
- The job queue (nothing modelled goes through it), the telemetry broker (seen
  through its answers), logs and traces (read-only), RBAC and idempotency,
  sessions and login, and the web application.

## 6. Where the code and its documents disagree

Each of these is a run whose property states the quoted sentence and is
violated.

| Run | The document | The code |
|---|---|---|
| `late_prepare` | "a lost response at any step can never strand the agent" (ADR-0016:69) | a prepare processed after the agent gave it up replaces the pending slot; the lost activation of the next renewal is then refused |
| `orphan` | "the lease is what recovers a row whose worker died" (worker.py:9) | rows in `processing` are never claimed again |
| `edits` | "A stale `expected_revision` is refused with 409 rather than overwriting someone else's edit." (SERVICE_HEALTH_BINDINGS.md:105) | the revision is read without a lock and the update is by id alone |

Statements that stand in the modules and that TLC refutes when they are put
into the cfg of their module's run, with the constants named where that run's
are too small to tell:

| Statement | What the code does |
|---|---|
| `EvaluationRunner!EveryDueBindingIsEvaluated` ("Periodic, bounded evaluation of every active binding", incidents/runner.py:1) | a cycle always starts with the lowest ids and stops at the batch size (runner.py:178), so the bindings behind a full batch are never evaluated |
| `GitHubApp!PushOutdatesReviews` | `plan_for("push")` is unsupported, so `receive_webhook` returns before `_mark_plans_stale`: a push never makes a reviewed plan stale |
| `GitHubApp!OvertakenWritesNothing` | the sync transaction of a sweeper whose lease was taken over commits; only closing the job is fenced (github_app/service.py:791) |
| `GitHubApp!GateOutranks` | a transition the state machine refuses is suppressed, and the row keeps its old state beside the gate (github_app/onboarding.py:84) |
| `GitHubApp!EvidenceGoesWithAccess` | an operator's read that began before access was removed records complete evidence afterwards (github_app/service.py:1280) |
| `OnboardingSession!AppliedWasApproved` | the claim under the lock asks whether the session is approved, not for which version (onboarding/service.py:1308) |
| `OnboardingSession!TerminalSessionsStay` | the result of an analysis is written over whatever state the session has by then |
| `OnboardingPlan!EvidenceSurvives` | updating a dependency falls back to `repository_intent` when the verification is not among the fields that differ (onboarding/service.py:2420) |
| `OnboardingPlan!OneWorkloadPerService` ("Picking one would attribute another workload's health, restarts and deployments to this service", onboarding/model.py:1385) | an operator may bind a service to a second workload, before or after an import, and an import binds one that an operator bound or switched on during its review: `ON CONFLICT` sees the same workload only (onboarding/service.py:2209) |
| `OnboardingPlan!EveryItemIsApplied` ("A plan item apply silently skips is exactly what the parity invariant forbids", onboarding/model.py:1465) | a binding that was switched off is proposed again and again, and its row left as it is |
| `OnboardingPlan!PartialPlansAreBlocked` ("A plan built on a partial analysis says so, in the plan, as a blocking item", onboarding/model.py:1265), with `MaxPlanItems` 11 | the item is the last of a list that is then cut to `MAX_PLAN_ITEMS` |
| `GitOpsRequests!CancelledLeftNothing` | a request whose call timed out after its writes landed is cancelled as if it had never been sent |
| `Silences!CancelledSuppressesNothing` | a cancellation before a recorded id calls nothing, although a creation whose answer was lost is in force (alerting/silences.py:533) |
| `Deployments!HealthyIsAvailable` ("updated, ready (and available) all reached desired", DEPLOYMENT_INTELLIGENCE.md:65) | Kubernetes omits a count that is zero, so a workload none of whose replicas is available yet is not waited for (deployments/model.py:119) |
| `Deployments!StalledTookTime`, where a generation may begin while the clock runs (without `SmallRollouts`) | the age of a rollout is measured from the first sight of the workload, not of the generation (deployments/model.py:40) |
| `Protection!ProblemHasItsIncident` | the unique index on the bound workload lets one policy's incident hide another's (protection/service.py:452) |
| `Protection!EvidenceStaysWithItsStore` ("Evidence for one store never stands in for another", protection/service.py:132), with two policies whose artifacts share a key | a check or a copy is filed with the newest artifact of its key, whosever run it is of (protection/ingest.py:329) |
| `Protection!OpenSnapshotChangesNothing` | a page applies its events at once (protection/router_ingest.py) |
| `Protection!ProtectedByItsOwnArtifact` | the artifact may belong to an older run than the newest successful one |

Noticed while modelling, without a statement of their own:

- docs/runbooks/INVENTORY_RECONCILIATION.md:11 says that whatever breaks
  continuity is "answered by a fresh full snapshot". The reconcile mark may
  commit after the snapshot that healed the break (`router_ingest.py:212`); a
  watching agent does not look at the heartbeat's answer, so a new snapshot is
  made only when the cluster next changes or the watch ends. The projection is
  right meanwhile (`sync`, `converge`).
- docs/runbooks/INCIDENT_LIFECYCLE.md:41 says that last-good responses break
  the critical streak. They keep the `computed_at` of the verdict they repeat,
  so `process_evaluation` drops them as duplicates (`processor.py:192`) and the
  streak survives. `IncidentsFollowReadings` therefore speaks of the verdicts
  that count.
- runner.py:9 says "One cycle at a time, across replicas". The lease is not
  renewed, so a cycle that takes longer runs beside the next one. That is why
  `incidents` overlaps two slots, and why the leases are not relied on anywhere.
- worker.py:19 says of `suppressed` that "Drake never tried". A delivery whose
  key leaves the registry between two attempts is suppressed after it was
  tried (`worker.py:257`); `DeliveriesAddUp` states what does hold.
- A reconciliation job whose worker dies on its last attempt stays pending for
  ever, and later requests coalesce onto it. A reinstallation and a membership
  sync never restore the access state of a known repository.
- A session whose analysis was lost stays in `analyzing`; a service is created
  without its display name, so an import settles on its second round; a changed
  `service_ref` of an objective is never planned; a plan that lists a name twice
  can be approved and then never applied, because its stored items no longer
  match its digest.
- `_begin_dispatch` does not renew the lease a batch took at its claim.
- `_finish` of a silence is unconditional; `alert_instances.silenced` is never
  reset; an alert's incident is mitigated and never resolved; two deliveries
  that find an alert absent may each insert its event (`OncePerFact` leaves
  those out).
- `compare_pending` of deployments and `evaluate_all` of protection have no
  caller; a crash between `apply_event` and the evaluation loses the
  evaluation; a verdict of a silent reporter resolves an incident; an old pod's
  digest may be recorded as the verified one.
- Inventory rows are never deleted, so a binding's resolution is not cleared
  when its workload vanishes.

## 7. Plan

Next proofs: the order of refinement between `InventorySync` and the cluster
itself, with the projection as a delayed copy of it, which would join the three
theorems of `SyncPictureProofs` into one specification; and what plans that are
cut still promise.

Next modules: `RoleGrants` (the last owner under concurrent revocations,
`rbac/service.py`, whose check takes no lock), `LoginSessions` (rotation,
expiry, revocation), `QueryBroker` (budgets and the stale cache), `JobQueue`
(`apps/worker`: a job takes effect at most once, as an abstract specification),
and the composition of the three writers of incidents on one table.
