------------------------------ MODULE GitHubApp ------------------------------
(***************************************************************************)
(* The GitHub App integration: one installation, the repositories Drake    *)
(* projects under it, the signed webhooks GitHub sends about them, the     *)
(* durable reconciliation job those webhooks may queue, the sweepers that  *)
(* run it, and operators who reconcile one repository by hand.             *)
(* (github_app/service.py, lifecycle.py, onboarding.py, router_webhook.py  *)
(* and the reconcile endpoint of router.py)                                *)
(*                                                                         *)
(* GitHub is the environment: it changes, tells Drake about it in webhooks *)
(* that may be lost, late, repeated or out of order, and answers reads.    *)
(* There is one installation: a row is of a repository of this one, and    *)
(* one that Drake knows under another and that moves here is left out.     *)
(* Every database transaction of the code is one action; every provider    *)
(* call is a read of its own, so what was read may be old when it commits. *)
(***************************************************************************)
EXTENDS Naturals, FiniteSets

CONSTANTS Repos,        \* permanent repository ids
          Sweepers,     \* instances of DeliveryRecoveryWorker
          Operators,    \* users of the reconcile endpoint
          MaxEvents,    \* bound: webhooks GitHub sends
          MaxFaults,    \* bound: failures of the database or of a process
          MAX_DELIVERY_ATTEMPTS,
          Nobody        \* no lease owner, no repository

ASSUME HubAssumption ==
  /\ MaxEvents \in Nat /\ MaxFaults \in Nat
  /\ MAX_DELIVERY_ATTEMPTS \in Nat \ {0}
  /\ Nobody \notin Sweepers /\ Nobody \notin Repos

VARIABLES
  hub,           \* GitHub: [app, members, names], and reviews of a default branch
  deliveries,    \* github_webhook_deliveries: event number -> row or message
  installation,  \* github_installations.state
  rows,          \* github_repositories: known repository -> row
  job,           \* github_reconciliation_jobs: the newest row of the installation
  sweepers,      \* where each sweeper is in its run of a claimed job
  operators,     \* where each operator's reconcile request is
  reviews,       \* per repository: its plan under review, and whether it is outdated
  applied,       \* per event: how often its envelope changed the projection (history)
  faults         \* failures so far

hubVars == <<hub, deliveries, installation, rows, job, sweepers, operators,
             reviews, applied, faults>>

Events == 1..MaxEvents

(* A repository's name decides two things only: whether the catalogue has  *)
(* a security gate for it, and whether its owner is still the organisation.*)
Names == {"plain", "gated", "foreign"}

States == {"discovered", "validating", "ready", "blocked", "degraded", "disabled"}

Row == [access: {"accessible", "removed", "suspended"},
        evidence: {"never", "partial", "stale", "complete", "failed"},
        state: States, gate: BOOLEAN, error: BOOLEAN, name: Names]

security_gate_for(name) == name = "gated"

-----------------------------------------------------------------------------
(* onboarding.py: the state machine and the precedence chain               *)

Allowed ==
  [discovered |-> {"validating", "degraded", "blocked", "disabled", "discovered"},
   validating |-> {"ready", "degraded", "blocked", "disabled", "validating"},
   ready      |-> {"validating", "degraded", "blocked", "disabled", "ready"},
   degraded   |-> {"validating", "ready", "blocked", "disabled", "degraded"},
   blocked    |-> {"validating", "disabled", "blocked", "discovered"},
   disabled   |-> {"discovered", "disabled"}]

can_transition(row, target) == target \in Allowed[row.state]

\* Wrong variant: complete evidence is enough, whatever the installation's state.
resolve_by_evidence(row, app, gate) ==
  CASE gate -> "blocked"
    [] ~gate /\ row.access # "accessible" -> "disabled"
    [] OTHER -> IF row.evidence = "complete" THEN "ready" ELSE "degraded"

\* A weaker observation never overrides a stronger one.
resolve_effective(row, app, gate) ==
  LET barred == app # "active" \/ row.access # "accessible"
      gaps   == row.error \/ row.evidence \in {"failed", "partial", "stale"}
  IN  CASE gate                       -> "blocked"
        [] ~gate /\ barred            -> "disabled"
        [] ~gate /\ ~barred /\ gaps   -> "degraded"
        [] OTHER -> IF row.evidence = "complete" THEN "ready" ELSE "discovered"

\* apply_announced_state: the stored gate outranks the one the name derives.
\* A refused transition leaves the state as it was.
announced_target(row, app) == resolve_effective(row, app, row.gate)

apply_state(row, target) ==
  IF can_transition(row, target) THEN [row EXCEPT !.state = target] ELSE row

apply_announced_state(row, app) == apply_state(row, announced_target(row, app))

-----------------------------------------------------------------------------
(* service.py: what one transaction may do to a row                        *)

mark_access_removed(row, access) ==
  [row EXCEPT !.access = access, !.evidence = "never",
              !.state = IF row.gate THEN "blocked" ELSE "disabled"]

NewRow(name) ==
  [access |-> "accessible", evidence |-> "never", error |-> FALSE, name |-> name,
   gate |-> security_gate_for(name),
   state |-> IF security_gate_for(name) THEN "blocked" ELSE "discovered"]

\* A gate may be opened by an observation, never closed by one.
upsert_repository(known, r, name) ==
  IF r \in DOMAIN known
    THEN [known[r] EXCEPT !.name = name, !.gate = @ \/ security_gate_for(name)]
    ELSE NewRow(name)

\* A webhook is a notification, never evidence.
Outdate(row) == [row EXCEPT !.evidence = IF @ = "complete" THEN "stale" ELSE @]

-----------------------------------------------------------------------------
(* lifecycle.py: the decided effect of one (event, action) pair            *)

Plan(supported, app, target, outcome, reconcile) ==
  [supported |-> supported, app |-> app, target |-> target, outcome |-> outcome,
   reconcile |-> reconcile]

\* "metadata" stands for the seven repository actions that share one plan.
plan_for ==
  [installed   |-> Plan(TRUE, "active", "announced", "present", FALSE),
   suspend     |-> Plan(TRUE, "suspended", "all", "suspended", FALSE),
   unsuspend   |-> Plan(TRUE, "active", "all", "restored", TRUE),
   uninstalled |-> Plan(TRUE, "deleted", "all", "removed", FALSE),
   permissions |-> Plan(TRUE, "active", "none", "none", TRUE),
   added       |-> Plan(TRUE, "unchanged", "announced", "present", FALSE),
   removed     |-> Plan(TRUE, "unchanged", "announced", "removed", FALSE),
   deleted     |-> Plan(TRUE, "unchanged", "announced", "removed", FALSE),
   transferred |-> Plan(TRUE, "unchanged", "announced", "present", TRUE),
   metadata    |-> Plan(TRUE, "unchanged", "announced", "present", FALSE),
   push        |-> Plan(FALSE, "unchanged", "none", "none", FALSE)]

Kinds == DOMAIN plan_for

(* A delivery: what the envelope says (the names of the repositories it    *)
(* kept, and whether the list was cut to fit the byte budget), its row's   *)
(* status ("sent" is still GitHub's to deliver), the attempts spent, and   *)
(* processors whose transaction rolled back and who have not counted it.   *)
Delivery == [kind: Kinds, says: UNION {[S -> Names] : S \in SUBSET Repos}, cut: BOOLEAN,
             status: {"sent", "pending", "processed", "failed"},
             attempts: 0..(MAX_DELIVERY_ATTEMPTS + 2), rolled: 0..2]

FreshJob == [status |-> "pending", attempts |-> 0, owner |-> Nobody, live |-> FALSE,
             synced |-> FALSE]

\* Repeated requests coalesce onto the outstanding job.
queue_installation_reconciliation == IF job.status = "pending" THEN job ELSE FreshJob

-----------------------------------------------------------------------------
(* GitHub, the environment (external): each change is told in one webhook  *)

NextEvent == Cardinality(DOMAIN deliveries) + 1

Send(kind, listed) ==
  /\ NextEvent \in Events
  /\ \E kept \in SUBSET listed :
       \* only the membership events list more than one repository
       /\ kind \notin {"installed", "added", "removed"} => kept = listed
       /\ deliveries' = [e \in DOMAIN deliveries \cup {NextEvent} |->
            IF e = NextEvent
              THEN [kind |-> kind, says |-> [r \in kept |-> hub'.names[r]],
                    cut |-> kept # listed, status |-> "sent", attempts |-> 0, rolled |-> 0]
              ELSE deliveries[e]]

DrakeIdle == UNCHANGED <<installation, rows, job, sweepers, operators, applied, faults>>

HubInstalls ==
  /\ hub.app = "deleted"
  /\ \E S \in SUBSET {r \in Repos : hub.names[r] # "foreign"} :
       /\ hub' = [hub EXCEPT !.app = "active", !.members = S]
       /\ Send("installed", S)
  /\ DrakeIdle /\ UNCHANGED reviews

HubSuspends ==
  /\ \/ hub.app = "active" /\ hub' = [hub EXCEPT !.app = "suspended"] /\ Send("suspend", {})
     \/ hub.app = "suspended" /\ hub' = [hub EXCEPT !.app = "active"] /\ Send("unsuspend", {})
  /\ DrakeIdle /\ UNCHANGED reviews

HubUninstalls ==
  /\ hub.app # "deleted"
  /\ hub' = [hub EXCEPT !.app = "deleted", !.members = {}]
  /\ Send("uninstalled", {})
  /\ DrakeIdle /\ UNCHANGED reviews

HubGrants ==
  /\ hub.app = "active" /\ hub' = hub
  /\ Send("permissions", {})
  /\ DrakeIdle /\ UNCHANGED reviews

HubMembership ==
  /\ hub.app # "deleted"
  /\ \E S \in SUBSET Repos \ {{}} :
       \/ /\ \A r \in S : r \notin hub.members /\ hub.names[r] # "foreign"
          /\ hub' = [hub EXCEPT !.members = @ \cup S]
          /\ Send("added", S)
       \/ /\ S \subseteq hub.members
          /\ hub' = [hub EXCEPT !.members = @ \ S]
          /\ \/ Send("removed", S)
             \/ Cardinality(S) = 1 /\ Send("deleted", S)
  /\ DrakeIdle /\ UNCHANGED reviews

\* A rename; leaving the organisation takes the repository out of the installation.
HubRenames ==
  /\ hub.app = "active"
  /\ \E r \in hub.members, name \in Names :
       /\ name # hub.names[r]
       /\ hub' = [hub EXCEPT !.names[r] = name,
                             !.members = IF name = "foreign" THEN @ \ {r} ELSE @]
       /\ Send(IF name = "foreign" THEN "transferred" ELSE "metadata", {r})
  /\ DrakeIdle /\ UNCHANGED reviews

\* A push to the default branch: a plan reviewed against the old head is outdated.
HubPush ==
  /\ hub.app = "active" /\ hub' = hub
  /\ \E r \in hub.members :
       /\ Send("push", {r})
       /\ reviews' = [reviews EXCEPT ![r] = IF @ = "current" THEN "outdated" ELSE @]
  /\ DrakeIdle

HubNext == \/ HubInstalls \/ HubSuspends \/ HubUninstalls \/ HubGrants
           \/ HubMembership \/ HubRenames \/ HubPush

-----------------------------------------------------------------------------
(* router_webhook.py and the delivery half of service.py                   *)

\* The signed webhook arrives (in any order, or never) and its work becomes
\* durable. A repository never seen before must belong to the organisation.
\* A redelivery of a recorded event finds the row and changes nothing here.
record_delivery(e) ==
  /\ deliveries[e].status = "sent"
  /\ \A r \in DOMAIN deliveries[e].says :
       deliveries[e].says[r] = "foreign" => r \in DOMAIN rows
  /\ deliveries' = [deliveries EXCEPT ![e].status = "pending"]
  /\ UNCHANGED <<hub, installation, rows, job, sweepers, operators, reviews, applied, faults>>

\* The effect on one repository of an event about the whole installation.
AllOfInstallation(row, outcome, app) ==
  CASE outcome = "removed"   -> mark_access_removed(row, "removed")
    [] outcome = "suspended" -> mark_access_removed(row, "suspended")
    [] outcome = "restored"  ->
         apply_announced_state([row EXCEPT !.access = "accessible"], app)

\* Only a membership addition under an active installation restores access.
restore_access(kind, app) ==
  [r \in DOMAIN rows |-> IF kind = "added" /\ app = "active"
                           THEN [rows[r] EXCEPT !.access = "accessible"] ELSE rows[r]]

\* The effect on one announced repository.
Announced(d, r, app) ==
  LET known == restore_access(d.kind, app)
      row   == upsert_repository(known, r, d.says[r])
  IN  IF plan_for[d.kind].outcome = "removed" \/ d.says[r] = "foreign"
        THEN mark_access_removed(known[r], "removed")
        ELSE apply_announced_state(IF r \in DOMAIN rows THEN Outdate(row) ELSE row, app)

AppAfter(d) == IF plan_for[d.kind].app = "unchanged" THEN installation
                                                     ELSE plan_for[d.kind].app

\* A cut list must never drive a destructive membership change.
RowsAfter(d) ==
  LET plan   == plan_for[d.kind]
      about  == IF plan.target # "announced" \/ (d.cut /\ plan.outcome = "removed")
                  THEN {} ELSE DOMAIN d.says
      fresh  == {r \in about \ DOMAIN rows : plan.outcome = "present"}
  IN  [r \in DOMAIN rows \cup fresh |->
         IF plan.target = "all" THEN AllOfInstallation(rows[r], plan.outcome, AppAfter(d))
         ELSE IF r \in about THEN Announced(d, r, AppAfter(d)) ELSE rows[r]]

\* The intent to reconcile is durable with the delivery that asked for it.
JobAfter(d) ==
  IF d.cut \/ plan_for[d.kind].reconcile \/ "foreign" \in {d.says[r] : r \in DOMAIN d.says}
    THEN queue_installation_reconciliation ELSE job

\* An action without a plan changes nothing, and ends the request before this.
mark_plans_stale(d) ==
  [r \in Repos |-> IF /\ plan_for[d.kind].supported /\ d.kind = "push"
                      /\ r \in DOMAIN d.says /\ reviews[r] # "none"
                     THEN "stale" ELSE reviews[r]]

\* Wrong variant: the locked row's status is not looked at again.
UnfinishedAnyway(d) == d.status \in {"pending", "processed"}

\* Processed is a duplicate, failed is terminal; only pending work is run.
Unfinished(d) == d.status = "pending"

\* Run by the request that recorded it, by a redelivery or by the drain.
process_delivery(e) ==
  LET d == deliveries[e] IN
  /\ Unfinished(d)
  /\ IF plan_for[d.kind].supported
       THEN installation' = AppAfter(d) /\ rows' = RowsAfter(d) /\ job' = JobAfter(d)
       ELSE UNCHANGED <<installation, rows, job>>
  /\ deliveries' = [deliveries EXCEPT ![e].status = "processed", ![e].attempts = @ + 1]
  /\ reviews' = mark_plans_stale(d)
  /\ applied' = [applied EXCEPT ![e] = @ + 1]
  /\ UNCHANGED <<hub, sweepers, operators, faults>>

\* The work transaction rolls back; the attempt is counted in its own.
ProcessingFails(e) ==
  /\ Unfinished(deliveries[e]) /\ faults < MaxFaults /\ deliveries[e].rolled < 2
  /\ deliveries' = [deliveries EXCEPT ![e].rolled = @ + 1]
  /\ faults' = faults + 1
  /\ UNCHANGED <<hub, installation, rows, job, sweepers, operators, reviews, applied>>

record_failed_attempt(e) ==
  LET d == deliveries[e] IN
  /\ d.rolled > 0
  /\ deliveries' = [deliveries EXCEPT ![e] =
       IF d.status = "processed" THEN [d EXCEPT !.rolled = @ - 1]
       ELSE [d EXCEPT !.rolled = @ - 1, !.attempts = @ + 1,
                      !.status = IF d.attempts + 1 >= MAX_DELIVERY_ATTEMPTS
                                   THEN "failed" ELSE @]]
  /\ UNCHANGED <<hub, installation, rows, job, sweepers, operators, reviews, applied, faults>>

DeliveryNext ==
  \/ \E e \in DOMAIN deliveries : record_delivery(e)
  \/ \E e \in DOMAIN deliveries : process_delivery(e)
  \/ \E e \in DOMAIN deliveries : ProcessingFails(e)
  \/ \E e \in DOMAIN deliveries : record_failed_attempt(e)

-----------------------------------------------------------------------------
(* The reconciliation job and the sweepers that run it                     *)

AtRest == [pc |-> "idle", app |-> "active", seen |-> <<>>]

SweeperOnly == UNCHANGED <<hub, deliveries, operators, reviews, applied>>

\* The attempt is spent with the claim.
claim_next_job(s) ==
  /\ sweepers[s].pc = "idle"
  /\ job.status = "pending" /\ job.attempts < MAX_DELIVERY_ATTEMPTS /\ ~job.live
  /\ job' = [job EXCEPT !.owner = s, !.live = TRUE, !.attempts = @ + 1, !.synced = FALSE]
  /\ sweepers' = [sweepers EXCEPT ![s].pc = "claimed"]
  /\ SweeperOnly /\ UNCHANGED <<installation, rows, faults>>

\* A lease outlives its owner by its term; an owner's stalls past it only if
\* the heartbeat is late, which is a fault.
LeaseLapses ==
  /\ job.live /\ job' = [job EXCEPT !.live = FALSE]
  /\ IF \E s \in Sweepers : job.owner = s /\ sweepers[s].pc # "idle"
       THEN faults < MaxFaults /\ faults' = faults + 1
       ELSE UNCHANGED faults
  /\ SweeperOnly /\ UNCHANGED <<installation, rows, sweepers>>

renew_lease(s) ==
  /\ sweepers[s].pc # "idle" /\ job.owner = s /\ ~job.live
  /\ job' = [job EXCEPT !.live = TRUE]
  /\ SweeperOnly /\ UNCHANGED <<installation, rows, sweepers, faults>>

\* reconcile_installation asks about the installation, then lists its members.
ReadInstallation(s) ==
  /\ sweepers[s].pc = "claimed"
  /\ sweepers' = [sweepers EXCEPT ![s] =
       IF hub.app = "deleted" THEN [@ EXCEPT !.pc = "gone"]
                              ELSE [@ EXCEPT !.pc = "detail", !.app = hub.app]]
  /\ SweeperOnly /\ UNCHANGED <<installation, rows, job, faults>>

ReadMembers(s) ==
  /\ sweepers[s].pc = "detail" /\ hub.app # "deleted"
  /\ sweepers' = [sweepers EXCEPT ![s].pc = "listed",
                                  ![s].seen = [r \in hub.members |-> hub.names[r]]]
  /\ SweeperOnly /\ UNCHANGED <<installation, rows, job, faults>>

\* Evidence gathered about attributes that have moved describes nothing; there is none
\* for a repository that this installation had not.
settle_membership_evidence(r, name) ==
  LET row == upsert_repository(rows, r, name) IN
  [row EXCEPT !.evidence = IF r \notin DOMAIN rows \/ security_gate_for(name) THEN "never"
                           ELSE IF rows[r].name # name THEN "stale" ELSE @]

\* The transaction of reconcile_installation. It is not fenced by the lease.
SyncCommits(s) ==
  LET seen == sweepers[s].seen  app == sweepers[s].app IN
  /\ sweepers[s].pc = "listed"
  /\ installation' = app
  /\ rows' = [r \in DOMAIN rows \cup DOMAIN seen |->
       IF r \in DOMAIN seen THEN apply_announced_state(settle_membership_evidence(r, seen[r]), app)
                            ELSE mark_access_removed(rows[r], "removed")]
  /\ job' = IF job.owner = s THEN [job EXCEPT !.synced = TRUE] ELSE job
  /\ sweepers' = [sweepers EXCEPT ![s] = [AtRest EXCEPT !.pc = "committed"]]
  /\ SweeperOnly /\ UNCHANGED faults

close_uninstalled(s) ==
  /\ sweepers[s].pc = "gone"
  /\ installation' = "deleted"
  /\ rows' = [r \in DOMAIN rows |-> mark_access_removed(rows[r], "removed")]
  /\ job' = IF job.owner = s THEN [job EXCEPT !.synced = TRUE] ELSE job
  /\ sweepers' = [sweepers EXCEPT ![s] = [AtRest EXCEPT !.pc = "committed"]]
  /\ SweeperOnly /\ UNCHANGED faults

\* Only the current owner may close the job or record why it failed.
Fenced(s) == job.status = "pending" /\ job.owner = s

CloseJob(s) ==
  /\ sweepers[s].pc = "committed"
  /\ job' = IF Fenced(s) THEN [job EXCEPT !.status = "processed", !.owner = Nobody, !.live = FALSE]
                         ELSE job
  /\ sweepers' = [sweepers EXCEPT ![s] = AtRest]
  /\ SweeperOnly /\ UNCHANGED <<installation, rows, faults>>

\* A provider error, a malformed listing or a scope mismatch. The lease is
\* deliberately not released: letting it lapse spaces the retries out.
record_job_failure(s) ==
  /\ sweepers[s].pc \in {"claimed", "detail", "listed", "gone"}
  /\ job' = IF Fenced(s) /\ job.attempts >= MAX_DELIVERY_ATTEMPTS
              THEN [job EXCEPT !.status = "failed"] ELSE job
  /\ sweepers' = [sweepers EXCEPT ![s] = AtRest]
  /\ SweeperOnly /\ UNCHANGED <<installation, rows, faults>>

SweeperDies(s) ==
  /\ sweepers[s].pc # "idle" /\ faults < MaxFaults
  /\ sweepers' = [sweepers EXCEPT ![s] = AtRest]
  /\ faults' = faults + 1
  /\ SweeperOnly /\ UNCHANGED <<installation, rows, job>>

SweeperNext ==
  \/ LeaseLapses
  \/ \E s \in Sweepers :
       \/ claim_next_job(s) \/ renew_lease(s) \/ ReadInstallation(s) \/ ReadMembers(s)
       \/ SyncCommits(s) \/ close_uninstalled(s) \/ CloseJob(s)
       \/ record_job_failure(s) \/ SweeperDies(s)

-----------------------------------------------------------------------------
(* The reconcile endpoint: one repository, re-read and evaluated           *)

NoRequest == [pc |-> "idle", repo |-> Nobody, answer |-> "none"]

OperatorOnly == UNCHANGED <<hub, deliveries, installation, job, sweepers, reviews, applied, faults>>

Step(o, pc) == operators' = [operators EXCEPT ![o].pc = pc]
Done(o)     == operators' = [operators EXCEPT ![o] = NoRequest]

\* Every write of the endpoint is to the one row; a refused transition that is
\* not suppressed raises, and takes the rest of its transaction with it.
Write(o, row)   == rows' = [rows EXCEPT ![operators[o].repo] = row]
OrRaise(row, target, after) == IF can_transition(row, target) THEN after ELSE row

\* The gate is consulted before a credential is minted, from either source.
StartReconcile(o, r) ==
  /\ operators[o].pc = "idle" /\ r \in DOMAIN rows
  /\ IF security_gate_for(rows[r].name) \/ rows[r].gate
       THEN /\ rows' = IF security_gate_for(rows[r].name)
                         THEN [rows EXCEPT ![r] = apply_state(@, "blocked")] ELSE rows
            /\ UNCHANGED operators
       ELSE /\ operators' = [operators EXCEPT ![o] = [@ EXCEPT !.pc = "open", !.repo = r]]
            /\ UNCHANGED rows
  /\ OperatorOnly

mark_incomplete(o) ==
  LET row == rows[operators[o].repo] IN
  /\ operators[o].pc = "open"
  /\ Write(o, apply_announced_state([row EXCEPT !.evidence = "failed", !.error = TRUE],
                                    installation))
  /\ Step(o, "short") /\ OperatorOnly

BlockOnShortfall(o) ==
  /\ operators[o].pc = "short"
  /\ Write(o, apply_state(rows[operators[o].repo], "blocked"))
  /\ Done(o) /\ OperatorOnly

Validate(o) ==
  /\ operators[o].pc = "open"
  /\ Write(o, apply_state(rows[operators[o].repo], "validating"))
  /\ Step(o, "validating") /\ OperatorOnly

\* The provider answers about a path: the repository, whatever moved there
\* since, the repository under another owner, or not at all.
GetRepository(o) ==
  LET r == operators[o].repo
      answers == IF r \in hub.members /\ hub.app = "active" THEN {hub.names[r]}
                 ELSE {"other"} \cup (IF hub.names[r] = "foreign" THEN {"foreign"} ELSE {})
  IN  /\ operators[o].pc = "validating"
      /\ \E answer \in answers :
           operators' = [operators EXCEPT ![o].pc = "read", ![o].answer = answer]
      /\ UNCHANGED rows /\ OperatorOnly

\* The answer is checked against the identity that was meant, and the gate
\* derived again from the name the provider reports.
verify_repository_identity(o) ==
  LET row == rows[operators[o].repo]  answer == operators[o].answer IN
  /\ operators[o].pc = "read" /\ answer # "plain"
  /\ Write(o,
       CASE answer = "other" ->
              OrRaise(row, "blocked", [row EXCEPT !.evidence = "failed", !.error = TRUE,
                                                  !.state = "blocked"])
         [] answer = "foreign" ->
              [mark_access_removed(row, "removed") EXCEPT !.evidence = "stale"]
         [] answer = "gated" ->
              OrRaise(row, "blocked", [row EXCEPT !.name = "gated", !.gate = TRUE,
                                                  !.evidence = "never", !.state = "blocked"]))
  /\ Done(o) /\ OperatorOnly

\* The projection, the evaluation and the evidence, in one transaction.
ReconcileCommits(o) ==
  LET row == rows[operators[o].repo] IN
  /\ operators[o].pc = "read" /\ operators[o].answer = "plain"
  /\ \E complete \in BOOLEAN :
       Write(o, apply_announced_state(
         [row EXCEPT !.name = "plain", !.error = @ /\ ~complete,
                     !.evidence = IF complete THEN "complete" ELSE "partial"], installation))
  /\ Done(o) /\ OperatorOnly

\* GitHub is unavailable or refuses: the endpoint writes DEGRADED itself.
ReconcileErrs(o) ==
  LET row == rows[operators[o].repo] IN
  /\ operators[o].pc \in {"open", "validating"}
  /\ Write(o, OrRaise(row, "degraded", [row EXCEPT !.state = "degraded", !.error = TRUE]))
  /\ Done(o) /\ OperatorOnly

\* The process dies with the request in flight.
RequestDies(o) ==
  /\ operators[o].pc # "idle" /\ faults < MaxFaults
  /\ faults' = faults + 1 /\ Done(o)
  /\ UNCHANGED <<hub, deliveries, installation, rows, job, sweepers, reviews, applied>>

OperatorNext == \E o \in Operators :
  \/ \E r \in Repos : StartReconcile(o, r)
  \/ mark_incomplete(o) \/ BlockOnShortfall(o) \/ Validate(o) \/ GetRepository(o)
  \/ verify_repository_identity(o) \/ ReconcileCommits(o) \/ ReconcileErrs(o) \/ RequestDies(o)

-----------------------------------------------------------------------------
\* The installation is active; each repository is known and just discovered or
\* reconciled, or not known yet. Some have a plan under review.
HubInit ==
  /\ \E known \in SUBSET Repos :
       /\ hub = [app |-> "active", members |-> known, names |-> [r \in Repos |-> "plain"]]
       /\ rows \in [known -> {NewRow("plain"),
                              [NewRow("plain") EXCEPT !.evidence = "complete", !.state = "ready"]}]
       /\ reviews \in {f \in [Repos -> {"none", "current"}] :
                         \A r \in Repos \ known : f[r] = "none"}
  /\ deliveries = <<>> /\ installation = "active"
  /\ job = [FreshJob EXCEPT !.status = "processed", !.synced = TRUE]
  /\ sweepers = [s \in Sweepers |-> AtRest]
  /\ operators = [o \in Operators |-> NoRequest]
  /\ applied = [e \in Events |-> 0] /\ faults = 0

GitHubNext == HubNext \/ DeliveryNext \/ SweeperNext \/ OperatorNext

GitHubSpec == HubInit /\ [][GitHubNext]_hubVars

-----------------------------------------------------------------------------
(* Properties                                                              *)

HubTypeOK ==
  /\ hub.app \in {"active", "suspended", "deleted"} /\ hub.members \subseteq Repos
  /\ hub.names \in [Repos -> Names]
  /\ DOMAIN deliveries \subseteq Events /\ \A e \in DOMAIN deliveries : deliveries[e] \in Delivery
  /\ installation \in {"active", "suspended", "deleted"}
  /\ DOMAIN rows \subseteq Repos /\ \A r \in DOMAIN rows : rows[r] \in Row
  /\ job.status \in {"pending", "processed", "failed"} /\ job.owner \in Sweepers \cup {Nobody}
  /\ \A r \in Repos : reviews[r] \in {"none", "current", "outdated", "stale"}

\* A repository is ready only while nothing stronger stands against it: no gate,
\* an active installation, access, no error, and evidence that is complete now,
\* whatever order webhooks, a sync and an operator's read committed in.
ReadyIsEarned == \A r \in DOMAIN rows :
  rows[r].state = "ready" =>
    /\ ~rows[r].gate /\ ~rows[r].error
    /\ installation = "active" /\ rows[r].access = "accessible"
    /\ rows[r].evidence = "complete"

\* A recorded event is applied exactly once if its row says processed and never if
\* it says failed or is unfinished, although the request, redeliveries and the
\* drain may all run it and a rolled-back run counts its attempt afterwards.
HandledOnce == \A e \in DOMAIN deliveries :
  applied[e] = IF deliveries[e].status = "processed" THEN 1 ELSE 0

\* A job is closed only after a run of its current claim has committed a listing:
\* a run whose lease was taken over cannot close the job over its successor's head.
ClosedMeansSynced == job.status = "processed" => job.synced

\* Work recorded as done was done, once: events by the drain, the request and
\* redeliveries, a job by the sweeper that still holds it.
DoneMeansDone == HubTypeOK /\ HandledOnce /\ ClosedMeansSynced

-----------------------------------------------------------------------------
(* Stated by the documents, and not kept by the code: TLC refutes what     *)
(* follows (README, section 6).                                            *)

\* "A worker whose lease was taken over writes nothing."
OvertakenWritesNothing ==
  [][\A s \in Sweepers :
       sweepers[s].pc \in {"listed", "gone"} /\ sweepers'[s].pc = "committed" /\ job.owner # s
         => UNCHANGED <<installation, rows>>]_hubVars

\* The precedence chain: a gated repository is blocked (or disabled since before
\* the gate opened, or being read by a request that found no gate).
GateOutranks == \A r \in DOMAIN rows :
  rows[r].gate => rows[r].state \in {"blocked", "disabled", "validating"}

\* "While we cannot see it we hold no current evidence at all."
EvidenceGoesWithAccess == \A r \in DOMAIN rows :
  rows[r].access # "accessible" => rows[r].evidence # "complete"

\* "A default-branch push invalidates reviews of the commit it replaced": once its
\* webhook has been answered as handled, no review of the old head still stands.
PushOutdatesReviews == \A e \in DOMAIN deliveries :
  deliveries[e].kind = "push" /\ deliveries[e].status = "processed" =>
    \A r \in DOMAIN deliveries[e].says : reviews[r] # "outdated"
=============================================================================
