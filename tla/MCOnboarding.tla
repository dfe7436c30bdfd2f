---------------------------- MODULE MCOnboarding ----------------------------
(***************************************************************************)
(* Bringing a repository in, on small instances side by side: the plan an  *)
(* import applies, the session that approves it, the pull request that     *)
(* proposes it, the GitHub App that watches the repository, the policy it  *)
(* is held to, and the health bindings of what it runs.  They share no     *)
(* state here, the session and its pull request excepted; a behaviour is   *)
(* about one of them, chosen in the initial state, and the others stand    *)
(* still.                                                                  *)
(***************************************************************************)
EXTENDS OnboardingPlan, GitOpsRequests, GitHubApp, PolicyRules, ServiceHealth

CONSTANTS s1, c1

VARIABLE part   \* what this behaviour is about

arrivalVars == <<part, planVars, onboardingVars, hubVars, policyVars, healthVars>>

(* ---- plans: manifests that grow, clash, repeat a name, are cut short *)
Env(key, runtime, branch, criticality, cluster, namespace) ==
    [key |-> key,
     meta |-> [runtime |-> runtime, branch |-> branch, criticality |-> criticality,
               cluster_ref |-> cluster, namespace |-> namespace]]
Dev(branch, criticality) == Env("dev", "kubernetes", branch, criticality, "c1", "n1")

Svc(key, name, profile) ==
    [key |-> key, selector |-> TRUE,
     meta |-> [display_name |-> name, component |-> "web", metrics_profile |-> profile]]

DataStore(scope) ==
    [key |-> "db", class |-> "managed", engine |-> "pg", scope |-> scope,
     provider |-> "aws"]

Avail(objective, window) ==
    [key |-> "avail", service_ref |-> "api",
     meta |-> [objective_ratio |-> objective, window_seconds |-> window]]

Base ==
    [displayName |-> "Shop", tenantModel |-> "none", owners |-> <<"t1:primary">>,
     environments |-> <<Dev("main", "low")>>, services |-> <<Svc("api", "API", "http")>>,
     dataStores |-> <<DataStore("project")>>, slos |-> <<Avail(2, 1)>>,
     deployed |-> TRUE, truncated |-> FALSE]

Grown ==
    [Base EXCEPT !.displayName = "Store", !.owners = @ \o <<"t2:backup">>,
       !.environments = <<Dev("next", "high"),
                          Env("ext", "external", "main", "low", "", "")>>,
       !.services = @ \o <<Svc("job", "job", "")>>, !.slos = <<Avail(1, 1)>>]

\* Two environments in one namespace; the same and a window of no length.
Clash ==
    [Base EXCEPT !.environments =
       @ \o <<Env("stg", "kubernetes", "main", "low", "c1", "n1")>>]
Broken == [Clash EXCEPT !.slos = <<Avail(2, 0)>>]

\* One service twice; and an analysis that stopped at its budget.
Twice == [Base EXCEPT !.services = <<Svc("api", "API", "http"), Svc("api", "Shop", "")>>]
Partial == [Base EXCEPT !.truncated = TRUE, !.deployed = FALSE]

Manifests ==
    {Base, Grown, Clash, Broken, Twice, Partial,
     [Base EXCEPT !.dataStores = <<DataStore("environment")>>]}

(* ---- policy: branch rules, or everything else, varied around a good one *)
Compliant ==
    [branch |-> TRUE, classic |-> TRUE, reviews |-> TRUE, force |-> "yes",
     deletion |-> "yes", checks |-> "strict", admin |-> "yes", rules |-> {},
     ruleChecks |-> "none", flows |-> {"build", "test", "security"},
     secrets |-> "yes", updates |-> "yes",
     envs |-> [e \in Environments |-> [reviewers |-> TRUE, mapped |-> TRUE]]]

\* Without a branch nothing is asked, without classic protection nothing of it.
BranchSettings ==
    LET Rules == {{}, {"pull_request"}, {"non_fast_forward", "deletion"}}
        RuleChecks == {"none", "empty", "lax", "strict"}
    IN  {[Compliant EXCEPT !.branch = FALSE]}
        \cup {[Compliant EXCEPT !.classic = FALSE, !.rules = R, !.ruleChecks = q] :
                R \in Rules, q \in RuleChecks}
        \cup {[Compliant EXCEPT !.reviews = v, !.force = f, !.checks = k, !.admin = a,
                               !.rules = R, !.ruleChecks = q] :
                v \in BOOLEAN, f \in Reported, k \in {"none", "lax", "strict"},
                a \in {"yes", "no"}, R \in Rules, q \in RuleChecks}

OtherSettings ==
    {[Compliant EXCEPT !.flows = F, !.secrets = s, !.updates = "no"] :
       F \in SUBSET {"build", "test", "security"}, s \in Reported}
    \cup {[Compliant EXCEPT !.envs = e, !.updates = "no"] : e \in EnvironmentSettings}

SomeSettings == BranchSettings \cup OtherSettings

\* What cannot be read is what the settings vary (OtherSettings: no updates).
UnreadVaries ==
    IF settings.updates = "yes"
    THEN unread.envs = {} /\ unread.sources \subseteq {"protection", "rules"} /\ ~service
    ELSE unread.sources \cap {"protection", "rules"} = {}

(* ---- health: a datasource that answers, and one that is down *)
UpOrDown ==
    {[desired_replicas |-> 2, ready_replicas |-> 2, restarts |-> 0,
      cpu_usage |-> 1, cpu_limit |-> 2, memory_usage |-> 1, memory_limit |-> 2,
      cpu_throttling |-> 0, request_rate |-> 5, error_ratio |-> 0,
      latency_p95 |-> 1, freshness |-> 1],
     [s \in SIGNAL_FIELDS |-> QUERY_FAILED]}

----------------------------------------------------------------------------
\* The pull request's worker does not look into plans: one session, asked
\* about by one caller, is enough for it, and no plan is applied.  Of the
\* caller and the two workers, two are busy at once.  The gate closes only
\* where nothing is pushed.
OneProposal ==
    /\ \A s \in Sessions \ {s1} : sessions'[s].state = "none"
    /\ \A c \in Callers \ {c1} : calls'[c] = NoCall
    /\ calls'[c1] # NoCall => calls'[c1].op # "apply"
    /\ Len(plans'[s1]) <= 1
    /\ (\A w \in Pushers : pushers'[w] # Idle) => calls'[c1] = NoCall
    /\ gated' => repo'.head = 1

\* Of the sweepers, the operator and the recorded events, two are under way
\* at once, and the operator asks only while one event has been sent.
OneRace ==
    LET busy == {s \in Sweepers : sweepers'[s] # AtRest}
        asking == {o \in Operators : operators'[o] # NoRequest}
        open == {e \in DOMAIN deliveries' : deliveries'[e].status = "pending"}
    IN  /\ Cardinality(busy) + Cardinality(asking) + Cardinality(open) <= 2
        /\ asking # {} => Cardinality(DOMAIN deliveries') <= 1

ArrivalInit ==
    /\ part \in {"plan", "session", "gitops", "github", "policy", "cache"}
    /\ PlanInit
    /\ manifest = Base
    /\ GitOpsInit
    /\ part # "session" => repo.manifests = [c \in Commits |-> "none"]
    /\ HubInit
    /\ reviews = [r \in Repos |-> "none"]
    /\ IF part = "github" THEN \A r \in DOMAIN rows : rows[r].state = "ready"
       ELSE rows = << >>
    /\ PolicyInit
    /\ IF part = "policy" THEN UnreadVaries
       ELSE settings = Compliant /\ unread = [sources |-> {}, envs |-> {}] /\ service
    /\ HealthInit
    /\ part # "cache" => seenUid = 1

ArrivalNext ==
    /\ UNCHANGED part
    /\ \/ /\ part = "plan" /\ PlanNext
          /\ UNCHANGED <<onboardingVars, hubVars, policyVars, healthVars>>
       \/ /\ part = "session" /\ SessionNext
          /\ UNCHANGED <<planVars, gitopsVars, hubVars, policyVars, healthVars>>
       \/ /\ part = "gitops" /\ GitOpsNext /\ OneProposal
          /\ UNCHANGED <<planVars, hubVars, policyVars, healthVars>>
       \/ /\ part = "github" /\ GitHubNext /\ OneRace
          /\ UNCHANGED <<planVars, onboardingVars, policyVars, healthVars>>
       \/ /\ part = "policy" /\ Reevaluate
          /\ UNCHANGED <<planVars, onboardingVars, hubVars, healthVars>>
       \/ /\ part = "cache" /\ HealthNext
          /\ UNCHANGED <<planVars, onboardingVars, hubVars, policyVars>>

ArrivalSpec == ArrivalInit /\ [][ArrivalNext]_arrivalVars
=============================================================================
