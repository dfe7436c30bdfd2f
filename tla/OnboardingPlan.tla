--------------------------- MODULE OnboardingPlan ---------------------------
(***************************************************************************)
(* What a reviewed import does to the catalog: the planner that reconciles *)
(* one manifest with the catalog (onboarding/model.py) and the handlers    *)
(* that apply an approved plan in one transaction (onboarding/service.py   *)
(* and catalog/service.py).  Who may approve what, and when, is the        *)
(* subject of OnboardingSession; here a plan is made, the world moves on,  *)
(* and the plan is applied.                                                *)
(*                                                                         *)
(* A row of the catalog is a function from field names to values, as the   *)
(* planner's metadata dictionaries are.  One project is onboarded, from    *)
(* one repository.                                                         *)
(***************************************************************************)
EXTENDS Integers, Sequences, FiniteSets, SequencesExt

CONSTANTS
    Documents,      \* the manifests the repository may hold, as records
    KnownProfiles,  \* metric profiles of the curated registry
    Workloads,      \* what the agent can observe running
    MaxPlanItems,   \* MAX_PLAN_ITEMS
    MaxOutside,     \* bound on changes made outside onboarding
    MaxRounds,      \* bound on consecutive imports of one manifest
    Absent          \* no row, no plan

(* The rows of the catalog that are compared with a manifest, and what the *)
(* manifest schema admits: lists of rows, by name.                         *)
Criticality == <<"low", "medium", "high", "critical">>
ProjectRows ==
    [display_name : STRING, tenant_model : STRING, criticality : Range(Criticality)]
EnvironmentRows ==
    [runtime : STRING, branch : STRING, criticality : Range(Criticality),
     cluster_ref : STRING, namespace : STRING]
ServiceRows == [display_name : STRING, component : STRING, metrics_profile : STRING]
SloRows ==
    [objective_ratio : Nat, window_seconds : Nat, service_ref : STRING, version : Nat]
ManifestDocuments ==
    [displayName : STRING, tenantModel : STRING, owners : Seq(STRING),
     environments : Seq([key : STRING, meta : EnvironmentRows]),
     services : Seq([key : STRING, selector : BOOLEAN, meta : ServiceRows]),
     dataStores : Seq([key : STRING, class : STRING, engine : STRING, scope : STRING,
                       provider : STRING]),
     slos : Seq([key : STRING, service_ref : STRING,
                 meta : [objective_ratio : Nat, window_seconds : Nat]]),
     deployed : BOOLEAN,    \* discovery saw how the project is deployed
     truncated : BOOLEAN]   \* and stopped at its budget

ASSUME PlanAssumption ==
    /\ Documents # {} /\ Documents \subseteq ManifestDocuments
    /\ MaxPlanItems \in Nat \ {0} /\ MaxOutside \in Nat /\ MaxRounds \in Nat
    /\ Absent \notin ProjectRows \cup EnvironmentRows \cup ServiceRows \cup SloRows
    /\ Absent # "ours"

VARIABLES
    catalog,    \* the tables an import reads and writes
    workloads,  \* (environment, service) -> observed workloads that match
    resolved,   \* bindings that know the resource they are about
    manifest,   \* the document at the head of the default branch
    review,     \* the plan under review, or Absent
    meanwhile,  \* pairs whose bindings an operator changed during the review
    rounds,     \* imports of this manifest since anything else changed
    outside     \* changes made outside onboarding so far

planVars ==
    <<catalog, workloads, resolved, manifest, review, meanwhile, rounds, outside>>

-----------------------------------------------------------------------------
(* The document, and the catalog.                                          *)

Keys(rows) == {rows[i].key : i \in DOMAIN rows}
EnvKeys == UNION {Keys(d.environments) : d \in Documents}
SvcKeys == UNION {Keys(d.services) : d \in Documents}
DepKeys == UNION {Keys(d.dataStores) : d \in Documents}
SloKeys == UNION {Keys(d.slos) : d \in Documents}
Pairs == EnvKeys \X SvcKeys
ClusterRefs ==
    (UNION {{d.environments[i].meta.cluster_ref : i \in DOMAIN d.environments} : d \in Documents})
      \ {""}

Verifications == <<"repository_intent", "owner_confirmed", "provider_observed">>
verification_rank(v) == CHOOSE i \in DOMAIN Verifications : Verifications[i] = v
is_above_repository_intent(v) == verification_rank(v) > 1

MUTABLE_PROJECT_FIELDS == {"display_name", "criticality"}
IMMUTABLE_PROJECT_FIELDS == {"tenant_model"}
MUTABLE_ENVIRONMENT_FIELDS == {"branch", "criticality"}
IMMUTABLE_ENVIRONMENT_FIELDS == {"runtime", "cluster_ref", "namespace"}
MUTABLE_SERVICE_FIELDS == {"display_name", "component", "metrics_profile"}
MUTABLE_DEPENDENCY_FIELDS == {"display_name", "provider", "verification", "store_scope"}
IMMUTABLE_DEPENDENCY_FIELDS == {"dependency_class", "engine"}
MUTABLE_SLO_FIELDS == {"objective_ratio", "window_seconds"}

(* The project inherits the most severe environment it declares.           *)
Severity(c) == CHOOSE i \in DOMAIN Criticality : Criticality[i] = c
_project_metadata(d) ==
    [display_name |-> d.displayName,
     tenant_model |-> d.tenantModel,
     criticality |->
        Criticality[Max({1} \cup {Severity(d.environments[i].meta.criticality) :
                                    i \in DOMAIN d.environments})]]

(* An import preserves the verification the catalog holds and never raises *)
(* it; a provider is recorded only for what Drake does not run itself.     *)
dependency_metadata(store, row) ==
    [display_name |-> store.key,
     dependency_class |-> store.class,
     engine |-> store.engine,
     store_scope |-> store.scope,
     provider |-> IF store.class # "in_cluster" THEN store.provider ELSE "",
     verification |-> IF row # Absent THEN row.verification ELSE "repository_intent"]

-----------------------------------------------------------------------------
(* The planner.  An item names a row, what to do with it, and the exact    *)
(* values to write.                                                        *)

NoPayload == << >>
Item(kind, action, key, payload) ==
    [kind |-> kind, action |-> action, key |-> key, payload |-> payload]

BLOCKING_ACTIONS == {"conflict", "unmapped", "unsupported"}
ACTIONABLE_ACTIONS == {"create", "link", "update_metadata"}

Differs(existing, proposed, fields) == {f \in fields : proposed[f] # existing[f]}
Restricted(row, fields) == [f \in fields |-> row[f]]

(* One existing row, compared rather than assumed: identity moving is a    *)
(* conflict, mutable data that differs is an update of exactly the fields  *)
(* that differ.                                                            *)
_row_item(kind, key, existing, proposed, mutable, immutable, linked) ==
    LET moved == Differs(existing, proposed, immutable)
        changed == Differs(existing, proposed, mutable)
    IN  CASE moved # {} -> Item(kind, "conflict", key, NoPayload)
          [] moved = {} /\ changed # {} ->
                Item(kind, "update_metadata", key, Restricted(proposed, changed))
          [] OTHER -> Item(kind, IF linked THEN "no_change" ELSE "link", key, NoPayload)

ProjectItem(d, c) ==
    IF c.project = Absent
    THEN Item("project", "create", "project", _project_metadata(d))
    ELSE IF c.link \in {"ours", Absent}
    THEN _row_item("project", "project", c.project, _project_metadata(d),
                   MUTABLE_PROJECT_FIELDS, IMMUTABLE_PROJECT_FIELDS, c.link = "ours")
    ELSE Item("project", "conflict", "project", NoPayload)

RepositoryItem(c) ==
    Item("repository", IF c.link = "ours" THEN "no_change" ELSE "link", "repository", NoPayload)

(* An owner comes with a new project, is already recorded, or is added.    *)
OwnerItem(o, c) ==
    Item("owner_team",
         IF c.project = Absent \/ o \in c.owners THEN "no_change" ELSE "create",
         o, NoPayload)

(* An environment, and for a Kubernetes one the cluster it needs and the   *)
(* namespace it must not share.                                            *)
EnvironmentItems(e, c) ==
    LET row == c.environments[e.key]
        occupied == \E k \in EnvKeys \ {e.key} :
                       /\ c.environments[k] # Absent
                       /\ c.environments[k].cluster_ref = e.meta.cluster_ref
                       /\ c.environments[k].namespace = e.meta.namespace
    IN  << IF row = Absent THEN Item("environment", "create", e.key, e.meta)
           ELSE _row_item("environment", e.key, row, e.meta, MUTABLE_ENVIRONMENT_FIELDS,
                          IMMUTABLE_ENVIRONMENT_FIELDS, FALSE) >>
        \o IF e.meta.runtime # "kubernetes" THEN << >>
           ELSE << Item("cluster_binding",
                        IF e.meta.cluster_ref \in c.clusters THEN "no_change" ELSE "unmapped",
                        e.key, NoPayload),
                   Item("namespace_binding", IF occupied THEN "conflict" ELSE "no_change",
                        e.key, NoPayload) >>

ServiceItems(s, c) ==
    LET row == c.services[s.key]
        profile == s.meta.metrics_profile
    IN  << IF row = Absent THEN Item("service", "create", s.key, s.meta)
           ELSE _row_item("service", s.key, row, s.meta, MUTABLE_SERVICE_FIELDS, {}, FALSE),
           Item("metric_profile",
                IF profile = "" \/ profile \in KnownProfiles THEN "no_change" ELSE "unmapped",
                s.key, NoPayload) >>

(* Evidence obtained for one provider does not travel to another: a        *)
(* provider change under a raised verification is a conflict.              *)
DependencyItem(store, c) ==
    LET row == c.dependencies[store.key]
        proposed == dependency_metadata(store, row)
    IN  CASE row = Absent -> Item("dependency", "create", store.key, proposed)
          [] row # Absent /\ row.provider # proposed.provider
                /\ is_above_repository_intent(row.verification) ->
                Item("dependency", "conflict", store.key, NoPayload)
          [] OTHER ->
                _row_item("dependency", store.key, row, proposed, MUTABLE_DEPENDENCY_FIELDS,
                          IMMUTABLE_DEPENDENCY_FIELDS, FALSE)

(* What the catalog has and the manifest does not: reported, never removed.*)
CatalogOnlyItems(d, c) ==
    SetToSeq({Item("dependency", "unmapped", k, NoPayload) :
                k \in {x \in DepKeys \ Keys(d.dataStores) : c.dependencies[x] # Absent}})
    \o SetToSeq({Item("service", "unmapped", k, NoPayload) :
                k \in {x \in SvcKeys \ Keys(d.services) : c.services[x] # Absent}})

SloItem(slo, d, c) ==
    LET row == c.slos[slo.key]
        changed == Differs(row, slo.meta, MUTABLE_SLO_FIELDS)
        action == IF slo.meta.objective_ratio = 0 \/ slo.meta.window_seconds = 0 THEN "conflict"
                  ELSE IF slo.service_ref \notin Keys(d.services) \cup {""} THEN "unmapped"
                  ELSE IF row = Absent THEN "create"
                  ELSE IF changed = {} THEN "no_change" ELSE "update_metadata"
    IN  Item("slo_profile", action, slo.key,
             IF action \in ACTIONABLE_ACTIONS THEN slo ELSE NoPayload)

(* A binding is proposed only from one observed workload, to a service     *)
(* that has no active binding.                                             *)
_binding_item(e, s, c, seen) ==
    LET bound == \E w \in Workloads : <<e.key, s.key, w>> \in c.bindings
        found == IF s.selector THEN seen[<<e.key, s.key>>] ELSE {}
        action == CASE bound \/ found = {} -> "no_change"
                    [] ~bound /\ Cardinality(found) > 1 -> "unmapped"
                    [] OTHER -> "create"
    IN  Item("workload_binding", action, e.key,
             [service |-> s.key,
              workload |-> IF action = "create" THEN CHOOSE w \in found : TRUE ELSE Absent])

BindingItems(e, d, c, seen) ==
    IF e.meta.runtime # "kubernetes" THEN << >>
    ELSE [i \in DOMAIN d.services |-> _binding_item(e, d.services[i], c, seen)]

build_plan(d, c, seen) ==
    LET each(Op(_), rows) == [i \in DOMAIN rows |-> Op(rows[i])]
        items ==
          << ProjectItem(d, c), RepositoryItem(c) >>
          \o each(LAMBDA o : OwnerItem(o, c), d.owners)
          \o FlattenSeq(each(LAMBDA e : EnvironmentItems(e, c), d.environments))
          \o FlattenSeq(each(LAMBDA s : ServiceItems(s, c), d.services))
          \o each(LAMBDA s : DependencyItem(s, c), d.dataStores)
          \o CatalogOnlyItems(d, c)
          \o each(LAMBDA s : SloItem(s, d, c), d.slos)
          \o FlattenSeq(each(LAMBDA e : BindingItems(e, d, c, seen), d.environments))
          \o IF d.truncated THEN << Item("project", "unsupported", "truncated", NoPayload) >>
             ELSE << >>
    IN  SubSeq(items, 1, IF Len(items) < MaxPlanItems THEN Len(items) ELSE MaxPlanItems)

(* How the project is deployed is reported after the plan has been cut.    *)
deployment_source_item(d) ==
    IF d.deployed THEN << Item("deployment_source", "no_change", "primary", NoPayload) >>
    ELSE << >>
PlanFor(d, c, seen) == build_plan(d, c, seen) \o deployment_source_item(d)

Items(plan, kind, action) == {i \in Range(plan) : i.kind = kind /\ i.action = action}
Blocked(plan) == \E i \in Range(plan) : i.action \in BLOCKING_ACTIONS

(* The items are stored under their keys, once each, and the approval      *)
(* covers all that were planned: two items with one key are never what     *)
(* was approved.                                                           *)
item_key(i) == <<i.kind, i.key, IF i.kind = "workload_binding" THEN i.payload.service ELSE "">>
verify_plan_integrity(plan) == IsInjective([i \in DOMAIN plan |-> item_key(plan[i])])

-----------------------------------------------------------------------------
(* The apply handlers, in the order _ORDER runs them.  Each is the whole   *)
(* effect of its items on the catalog; Refused says when one of them       *)
(* raises, which rolls everything back.                                    *)

Merge(row, payload) ==
    [f \in DOMAIN row |-> IF f \in DOMAIN payload THEN payload[f] ELSE row[f]]
Upsert(table, written) ==   \* written: the row each item writes
    [k \in DOMAIN table |->
        IF \E i \in DOMAIN written : i.key = k
        THEN written[CHOOSE i \in DOMAIN written : i.key = k] ELSE table[k]]

_apply_project(plan, d, c) ==
    LET created == Items(plan, "project", "create")
        updated == Items(plan, "project", "update_metadata")
    IN  [c EXCEPT
           !.project = IF created # {} THEN (CHOOSE i \in created : TRUE).payload
                       ELSE IF updated # {} THEN Merge(@, (CHOOSE i \in updated : TRUE).payload)
                       ELSE @,
           !.owners = @ \cup (IF created # {} THEN Range(d.owners) ELSE {})]

_apply_owner_team_create(plan, c) ==
    [c EXCEPT !.owners = @ \cup {i.key : i \in Items(plan, "owner_team", "create")}]

_apply_environments(plan, c) ==
    LET created == Upsert(c.environments,
                          [i \in Items(plan, "environment", "create") |-> i.payload])
    IN  [c EXCEPT !.environments =
            Upsert(created, [i \in Items(plan, "environment", "update_metadata") |->
                                Merge(created[i.key], i.payload)])]

(* Wrong variant: a service that already existed is not attached to the    *)
(* environments of the plan.                                               *)
BindOnlyCreated(plan, c) ==
    [c EXCEPT !.attached = @ \cup
        {<<e.key, s.key>> :
            e \in {i \in Range(plan) : i.kind = "environment" /\ i.action \in ACTIONABLE_ACTIONS},
            s \in {i \in Range(plan) : i.kind = "service" /\ i.action = "create"}}]

(* Every service the plan touches is attached to every environment the     *)
(* plan acted on.                                                          *)
_bind_to_environments(plan, c) ==
    LET touched(kind) == {i \in Range(plan) : i.kind = kind /\ i.action \in ACTIONABLE_ACTIONS}
    IN  [c EXCEPT !.attached = @ \cup
            {<<e.key, s.key>> : e \in touched("environment"), s \in touched("service")}]

(* A service is created under its key: the create handler does not pass    *)
(* the display name of the payload on.                                     *)
_apply_services(plan, c) ==
    LET named(i) == [i.payload EXCEPT !.display_name = i.key]
        created == Upsert(c.services,
                          [i \in Items(plan, "service", "create") |-> named(i)])
    IN  [c EXCEPT !.services =
            Upsert(created, [i \in Items(plan, "service", "update_metadata") |->
                                Merge(created[i.key], i.payload)])]

(* ON CONFLICT DO NOTHING: a row that exists stays as it is, disabled or   *)
(* not.                                                                    *)
Bound(i) == <<i.key, i.payload.service, i.payload.workload>>
_apply_binding_create(plan, c) ==
    [c EXCEPT !.bindings =
        @ \cup ({Bound(i) : i \in Items(plan, "workload_binding", "create")} \ c.disabled)]

(* Inventory explains the active bindings of a cluster, the one            *)
(* environment k runs in.                                                  *)
resolve_workload(b, seen) == \E s \in SvcKeys : b[3] \in seen[<<b[1], s>>]
SameCluster(c, j, k) ==
    \/ j = k
    \/ /\ c.environments[j] # Absent /\ c.environments[k] # Absent
       /\ c.environments[j].cluster_ref = c.environments[k].cluster_ref
Explicable(c, seen, k) ==
    {b \in c.bindings : SameCluster(c, b[1], k) /\ resolve_workload(b, seen)}

(* A changed objective or window is a new version.                         *)
_write_slo(plan, c) ==
    LET written == Items(plan, "slo_profile", "create")
                   \cup Items(plan, "slo_profile", "update_metadata")
        version(i) == IF c.slos[i.key] = Absent THEN 1
                      ELSE IF Differs(c.slos[i.key], i.payload.meta, MUTABLE_SLO_FIELDS) # {}
                      THEN c.slos[i.key].version + 1 ELSE c.slos[i.key].version
    IN  [c EXCEPT !.slos = Upsert(@, [i \in written |->
            [objective_ratio |-> i.payload.meta.objective_ratio,
             window_seconds |-> i.payload.meta.window_seconds,
             service_ref |-> i.payload.service_ref, version |-> version(i)]])]

(* ON CONFLICT DO NOTHING: a link that exists stays.                       *)
_apply_repository_link(plan, c) ==
    [c EXCEPT !.link = IF @ = Absent /\ Items(plan, "repository", "link") # {} THEN "ours" ELSE @]

_apply_dependency_create(plan, c) ==
    [c EXCEPT !.dependencies =
        Upsert(@, [i \in Items(plan, "dependency", "create") |-> i.payload])]

(* The update writes all four mutable columns, but the payload holds only  *)
(* the ones that differ; the others fall back to the handler's defaults.   *)
_apply_dependency_update(plan, c) ==
    LET given(i, field, default) ==
          IF field \in DOMAIN i.payload THEN i.payload[field] ELSE default
    IN  [c EXCEPT !.dependencies =
            Upsert(@, [i \in Items(plan, "dependency", "update_metadata") |->
              Merge(c.dependencies[i.key],
                    [display_name |-> given(i, "display_name", ""),
                     store_scope |-> i.payload["store_scope"],
                     provider |-> given(i, "provider", ""),
                     verification |-> given(i, "verification", "repository_intent")])])]

(* A handler raises: a row to be created exists, a cluster is gone, two    *)
(* environments would share a namespace (uq_env_cluster_namespace_active), *)
(* or a dependency update does not carry the scope it reads.               *)
Refused(plan, c) ==
    \/ Items(plan, "project", "create") # {} /\ c.project # Absent
    \/ \E i \in Items(plan, "environment", "create") :
          \/ c.environments[i.key] # Absent
          \/ i.payload.runtime = "kubernetes" /\ i.payload.cluster_ref \notin c.clusters
    \/ LET envs == _apply_environments(plan, c).environments
       IN  \E j, k \in EnvKeys :
             /\ j # k /\ envs[j] # Absent /\ envs[k] # Absent
             /\ envs[j].runtime = "kubernetes" /\ envs[k].runtime = "kubernetes"
             /\ envs[j].cluster_ref = envs[k].cluster_ref
             /\ envs[j].namespace = envs[k].namespace
    \/ \E i \in Items(plan, "service", "create") : c.services[i.key] # Absent
    \/ \E i \in Items(plan, "dependency", "create") : c.dependencies[i.key] # Absent
    \/ \E i \in Items(plan, "dependency", "update_metadata") :
          "store_scope" \notin DOMAIN i.payload
    \/ \E i \in Items(plan, "workload_binding", "create") :
          \/ <<i.key, i.payload.service>> \notin _bind_to_environments(plan, c).attached
          \/ _apply_environments(plan, c).environments[i.key].cluster_ref \notin c.clusters

_materialise(plan, d, c) ==
    LET owned == _apply_owner_team_create(plan, _apply_project(plan, d, c))
        bound == _bind_to_environments(plan,
                   _apply_services(plan, _apply_environments(plan, owned)))
        measured == _write_slo(plan, _apply_binding_create(plan, bound))
        linked == _apply_repository_link(plan, measured)
    IN  _apply_dependency_update(plan, _apply_dependency_create(plan, linked))

-----------------------------------------------------------------------------
(* The world.                                                              *)

EmptyCatalog ==
    [project |-> Absent, link |-> Absent, owners |-> {},
     environments |-> [k \in EnvKeys |-> Absent], services |-> [k \in SvcKeys |-> Absent],
     dependencies |-> [k \in DepKeys |-> Absent], slos |-> [k \in SloKeys |-> Absent],
     attached |-> {}, bindings |-> {}, disabled |-> {}, clusters |-> ClusterRefs]

PlanInit ==
    /\ catalog = EmptyCatalog
    /\ workloads = [p \in Pairs |-> {}] /\ resolved = {}
    /\ manifest \in Documents
    /\ review = Absent /\ meanwhile = {} /\ rounds = 0 /\ outside = 0

(* An analysis reads the catalog once and plans from it.                   *)
AnalyzeManifest ==
    /\ review = Absent
    /\ review' = PlanFor(manifest, catalog, workloads)
    /\ UNCHANGED <<catalog, workloads, resolved, manifest, meanwhile, rounds, outside>>

(* A plan with no blocking item is approved and applied, all or nothing.   *)
(* Each binding it creates resolves what is pending in its cluster.        *)
ApplyPlan ==
    /\ review # Absent /\ ~Blocked(review) /\ verify_plan_integrity(review)
    /\ ~Refused(review, catalog)
    /\ rounds < MaxRounds
    /\ catalog' = _materialise(review, manifest, catalog)
    /\ resolved' = resolved \cup
         UNION {Explicable(catalog', workloads, i.key) :
                  i \in Items(review, "workload_binding", "create")}
    /\ review' = Absent /\ meanwhile' = {} /\ rounds' = rounds + 1
    /\ UNCHANGED <<workloads, manifest, outside>>

(* The reviewer gives a blocked or refused plan up, or asks for a new one. *)
DropPlan ==
    /\ review # Absent
    /\ review' = Absent /\ meanwhile' = {}
    /\ UNCHANGED <<catalog, workloads, resolved, manifest, rounds, outside>>

Outside ==
    /\ outside < MaxOutside
    /\ outside' = outside + 1
    /\ rounds' = 0

(* A commit changes the manifest; a review of the old commit is stale.     *)
EditManifest(d) ==
    /\ Outside /\ d # manifest
    /\ manifest' = d /\ review' = Absent /\ meanwhile' = {}
    /\ UNCHANGED <<catalog, workloads, resolved>>

(* Somebody establishes evidence about a dependency out of band.           *)
ConfirmDependency(k, level) ==
    /\ Outside /\ catalog.dependencies[k] # Absent
    /\ verification_rank(level) > verification_rank(catalog.dependencies[k].verification)
    /\ catalog' = [catalog EXCEPT !.dependencies[k].verification = level]
    /\ UNCHANGED <<workloads, resolved, manifest, review, meanwhile>>

(* A snapshot completes: the inventory shows other workloads for a         *)
(* service, and bindings that were waiting for them are resolved.          *)
ObserveWorkloads(p, found) ==
    /\ Outside /\ workloads[p] # found
    /\ workloads' = [workloads EXCEPT ![p] = found]
    /\ resolved' = resolved \cup Explicable(catalog, workloads', p[1])
    /\ UNCHANGED <<catalog, manifest, review, meanwhile>>

(* An operator registers a cluster or takes one away.                      *)
ChangeCluster(ref) ==
    /\ Outside
    /\ catalog' = [catalog EXCEPT !.clusters = IF ref \in @ THEN @ \ {ref} ELSE @ \cup {ref}]
    /\ UNCHANGED <<workloads, resolved, manifest, review, meanwhile>>

ByHand(p) ==
    /\ Outside
    /\ meanwhile' = IF review = Absent THEN {} ELSE meanwhile \cup {p}
    /\ UNCHANGED <<workloads, manifest, review>>

(* An operator binds a service to a workload of the cluster its            *)
(* environment runs in (the code would take any cluster the operator can   *)
(* see); a pair may have several bindings, a binding only one row.         *)
bind_by_hand(p, w) ==
    /\ ByHand(p)
    /\ p \in catalog.attached
    /\ catalog.environments[p[1]].runtime = "kubernetes"
    /\ catalog.environments[p[1]].cluster_ref \in catalog.clusters
    /\ LET b == <<p[1], p[2], w>>
       IN  /\ b \notin catalog.bindings \cup catalog.disabled
           /\ catalog' = [catalog EXCEPT !.bindings = @ \cup {b}]
           /\ resolved' = resolved \cup {x \in {b} : resolve_workload(x, workloads)}

(* An operator switches a binding off or on again (set_lifecycle); on does *)
(* not resolve it.                                                         *)
switch_binding(b) ==
    /\ ByHand(<<b[1], b[2]>>)
    /\ catalog' =
         IF b \in catalog.bindings
         THEN [catalog EXCEPT !.bindings = @ \ {b}, !.disabled = @ \cup {b}]
         ELSE [catalog EXCEPT !.bindings = @ \cup {b}, !.disabled = @ \ {b}]
    /\ UNCHANGED resolved

PlanNext ==
    \/ AnalyzeManifest \/ ApplyPlan \/ DropPlan
    \/ \E d \in Documents : EditManifest(d)
    \/ \E k \in DepKeys, level \in Range(Verifications) : ConfirmDependency(k, level)
    \/ \E p \in Pairs, found \in SUBSET Workloads : ObserveWorkloads(p, found)
    \/ \E ref \in ClusterRefs : ChangeCluster(ref)
    \/ \E p \in Pairs, w \in Workloads : bind_by_hand(p, w)
    \/ \E b \in catalog.bindings \cup catalog.disabled : switch_binding(b)

PlanSpec == PlanInit /\ [][PlanNext]_planVars

-----------------------------------------------------------------------------
(* Properties.                                                             *)

(* A plan is cut to MAX_PLAN_ITEMS, wherever that falls; nothing bounds    *)
(* the lists of a manifest.                                                *)
LengthBefore(d) ==
    2 + Len(d.owners) + 3 * Len(d.environments) + 2 * Len(d.services) + Len(d.dataStores)
LengthAfter(d) == Len(d.slos) + Len(d.services) * Len(d.environments) + 1
Fits(d) == LengthBefore(d) + LengthAfter(d) <= MaxPlanItems

(* Importing is idempotent: two imports of a manifest that fits a plan,    *)
(* with nothing else happening, leave a catalog the planner has nothing to *)
(* create, change or object to in, and in which every declared service is  *)
(* attached to every declared environment.  Dependencies apart, whose      *)
(* update handler is the subject of EvidenceSurvives, and bindings an      *)
(* operator switched off, which EveryItemIsApplied is about.  One import   *)
(* is not enough: a service is created without its display name            *)
(* (service.py _apply_service_create).                                     *)
Settles(i, c) ==
    \/ i.action \in {"no_change", "link"}
    \/ i.kind = "dependency"
    \/ i.kind = "workload_binding" /\ i.action = "create" /\ Bound(i) \in c.disabled
ImportSettles ==
    (rounds >= 2 /\ Fits(manifest)) =>
      /\ \A i \in Range(PlanFor(manifest, catalog, workloads)) : Settles(i, catalog)
      /\ Keys(manifest.environments) \X Keys(manifest.services) \subseteq catalog.attached

(* A binding attributes one workload's health to a service.  An import     *)
(* gives a service at most one, and a further one only where an operator   *)
(* bound it between the review and the import, which ON CONFLICT does not  *)
(* see (_binding_item, _apply_binding_create; bindings.py create_binding). *)
BindingsOf(p, B) == {b \in B : <<b[1], b[2]>> = p}
AttributesOnce ==
    ApplyPlan =>
      \A p \in Pairs :
        LET added == BindingsOf(p, catalog'.bindings) \ catalog.bindings
        IN  /\ Cardinality(added) <= 1
            /\ added # {} => BindingsOf(p, catalog.bindings) = {} \/ p \in meanwhile
ImportsAttributeOnce == [][AttributesOnce]_planVars

(* Whichever comes first, the binding or the workload: when the other      *)
(* arrives, the binding is resolved in that very step.  A binding switched *)
(* on again waits for the next snapshot (bindings.py                       *)
(* resolve_pending_bindings: "both matter").                               *)
IsExplained(b, c, seen) == b \in c.bindings /\ resolve_workload(b, seen)
FindsTheirWorkload ==
    \A b \in catalog'.bindings \ catalog.disabled :
      IsExplained(b, catalog', workloads') /\ ~IsExplained(b, catalog, workloads)
        => b \in resolved'
BindingsFindTheirWorkload == [][FindsTheirWorkload]_planVars

(* Imports come to rest, attribute no service twice of their own accord,   *)
(* and leave no binding unresolved whose workload is there.  (Nothing is   *)
(* imported in an initial state, where ImportSettles says nothing.)        *)
ImportsSettleSafely ==
    [][AttributesOnce /\ FindsTheirWorkload /\ ImportSettles']_planVars

-----------------------------------------------------------------------------
(* Stated by the documents, and not kept by the code: TLC refutes what     *)
(* follows (README, section 6).                                            *)

(* An import states intent: it never lowers what is known of a dependency  *)
(* ("never raised by a manifest, never lowered by a re-import",            *)
(* catalog/external_runtime.py).                                           *)
EvidenceSurvives ==
    [][\A k \in DepKeys :
         catalog.dependencies[k] # Absent =>
           verification_rank(catalog'.dependencies[k].verification)
             >= verification_rank(catalog.dependencies[k].verification)]_planVars

(* "Picking one would attribute another workload's health, restarts and    *)
(* deployments to this service" (onboarding/model.py:1385): but an         *)
(* operator may bind a service again, or bind one under review.            *)
OneWorkloadPerService == \A p \in Pairs : Cardinality(BindingsOf(p, catalog.bindings)) <= 1

(* "A plan item apply silently skips is exactly what the parity invariant  *)
(* forbids" (onboarding/model.py:1465): but a binding that was switched    *)
(* off is proposed again and again, and its row left as it is.             *)
EveryItemIsApplied ==
    [][ApplyPlan => \A i \in Items(review, "workload_binding", "create") :
                      Bound(i) \in catalog'.bindings]_planVars

(* "A plan built on a partial analysis says so, in the plan, as a blocking *)
(* item" (onboarding/model.py:1265): but the item is the last of the list  *)
(* that is then cut.                                                       *)
PartialPlansAreBlocked == [][ApplyPlan => ~manifest.truncated]_planVars
=============================================================================
