----------------------------- MODULE PolicyRules -----------------------------
(***************************************************************************)
(* The governance policy engine (github_app/policy.py) and the reads that  *)
(* feed it (gather_policy_inputs): fifteen rules over what the provider    *)
(* could be asked, each pass, warn, fail or unknown.                       *)
(*                                                                         *)
(* A repository's settings are fixed; what changes between evaluations is  *)
(* which of the sources could be read (a permission, a rate limit, a       *)
(* timeout). The engine must not call compliant what it could not see.     *)
(***************************************************************************)
EXTENDS Naturals

CONSTANTS Environments,  \* production environments a repository may define
          Repositories   \* the repositories' settings the instance goes through

VARIABLES settings,      \* the repository as it is configured on GitHub
          unread,        \* the sources the last evaluation could not read
          service        \* TRUE when the profile requires a production environment

policyVars == <<settings, unread, service>>

\* "absent": the provider's answer has no such member.
Reported == {"absent", "yes", "no"}

EnvironmentSettings ==
  UNION {[E -> [reviewers: BOOLEAN, mapped: BOOLEAN]] : E \in SUBSET Environments}

\* Classic protection (reviews, force pushes blocked, deletion blocked, required
\* checks, admins enforced), the rules in effect on the branch, the workflows
\* by the hint they match, the analysis settings, the production environments.
PolicySettings ==
  [branch: BOOLEAN, classic: BOOLEAN, reviews: BOOLEAN, force: Reported, deletion: Reported,
   checks: {"none", "lax", "strict"}, admin: Reported,
   rules: SUBSET {"pull_request", "non_fast_forward", "deletion"},
   ruleChecks: {"none", "empty", "lax", "strict"},
   flows: SUBSET {"build", "test", "security"}, secrets: Reported, updates: Reported,
   envs: EnvironmentSettings]

ASSUME PolicyAssumption == Repositories \subseteq PolicySettings

Sources == {"protection", "rules", "workflows", "environments", "analysis"}

-----------------------------------------------------------------------------
\* gather_policy_inputs: each failed read becomes an explicit gap. "No such
\* protection" is an answer; and without a default branch neither branch source
\* can be asked.
Readable(source) ==
  /\ source \notin unread.sources
  /\ source \in {"protection", "rules"} => settings.branch

\* _protection_facts: classic protection and rulesets in one view.
SawClassic == Readable("protection") /\ settings.classic
SawRules   == Readable("rules") /\ (settings.rules # {} \/ settings.ruleChecks # "none")

protection_fact(classic, rule) ==
  IF SawRules /\ rule \in settings.rules THEN "yes"
  ELSE IF SawClassic THEN classic ELSE "absent"

YesNo(b) == IF b THEN "yes" ELSE "no"

required_checks_fact ==
  IF \/ SawClassic /\ settings.checks # "none"
     \/ SawRules /\ settings.ruleChecks \in {"lax", "strict"}
    THEN "yes"
    ELSE IF SawClassic \/ (SawRules /\ settings.ruleChecks # "none") THEN "no" ELSE "absent"

strict_checks_fact ==
  IF SawRules /\ settings.ruleChecks = "strict" THEN "yes"
  ELSE IF SawClassic /\ settings.checks # "none" THEN YesNo(settings.checks = "strict")
  ELSE "absent"

boolean_rule(fact) == [yes |-> "pass", no |-> "fail", absent |-> "unknown"][fact]

\* Only "both readable, both empty" is a real failure.
rule_protection_present ==
  IF SawClassic \/ SawRules THEN "pass"
  ELSE IF Readable("protection") /\ Readable("rules") THEN "fail" ELSE "unknown"

workflow_gate(hint, otherwise) ==
  IF ~Readable("workflows") THEN "unknown"
  ELSE IF hint \in settings.flows THEN "pass" ELSE otherwise

security_analysis_rule(fact) ==
  IF Readable("analysis") THEN boolean_rule(fact) ELSE "unknown"

\* Wrong variant: an environment that could not be read does not count.
AggregateReadable(compliant) ==
  IF \E e \in DOMAIN compliant \ unread.envs : ~compliant[e] THEN "fail" ELSE "pass"

\* A pass is a statement about every production environment; a known violation
\* outranks an unknown.
Aggregate(compliant) ==
  IF \E e \in DOMAIN compliant \ unread.envs : ~compliant[e] THEN "fail"
  ELSE IF DOMAIN compliant \cap unread.envs # {} THEN "unknown" ELSE "pass"

rule_production_gates(compliant) ==
  IF ~Readable("environments") THEN "unknown"
  ELSE IF DOMAIN settings.envs = {} THEN (IF service THEN "fail" ELSE "warn")
  ELSE Aggregate(compliant)

\* evaluate: the fifteen rules of RULE_CATALOG.
results ==
  [repo_default_branch_known |-> IF settings.branch THEN "pass" ELSE "unknown",
   branch_protection_present |-> rule_protection_present,
   branch_pull_request_required |->
     boolean_rule(protection_fact(YesNo(settings.reviews), "pull_request")),
   branch_force_push_blocked |->
     boolean_rule(protection_fact(settings.force, "non_fast_forward")),
   branch_deletion_blocked |-> boolean_rule(protection_fact(settings.deletion, "deletion")),
   branch_required_checks_present |-> boolean_rule(required_checks_fact),
   branch_required_checks_strict |-> boolean_rule(strict_checks_fact),
   branch_admin_enforcement |-> boolean_rule(IF SawClassic THEN settings.admin ELSE "absent"),
   ci_build_gate |-> workflow_gate("build", "warn"),
   ci_test_gate |-> workflow_gate("test", "fail"),
   ci_security_scan_gate |-> workflow_gate("security", "fail"),
   security_secret_scanning |-> security_analysis_rule(settings.secrets),
   security_dependency_scanning |-> security_analysis_rule(settings.updates),
   deploy_production_approval_required |->
     rule_production_gates([e \in DOMAIN settings.envs |-> settings.envs[e].reviewers]),
   deploy_production_branch_mapping |->
     rule_production_gates([e \in DOMAIN settings.envs |-> settings.envs[e].mapped])]

RULE_CATALOG == DOMAIN results

overall ==
  LET found == {results[rule] : rule \in RULE_CATALOG} IN
  IF "fail" \in found THEN "fail"
  ELSE IF "unknown" \in found THEN "unknown"
  ELSE IF "warn" \in found THEN "warn" ELSE "pass"

-----------------------------------------------------------------------------
PolicyInit ==
  /\ settings \in Repositories /\ service \in BOOLEAN
  /\ unread \in [sources: SUBSET Sources, envs: SUBSET Environments]

\* The repository is evaluated again and one more source can be read.
Reevaluate ==
  /\ \/ \E source \in unread.sources : unread' = [unread EXCEPT !.sources = @ \ {source}]
     \/ \E e \in unread.envs : unread' = [unread EXCEPT !.envs = @ \ {e}]
  /\ UNCHANGED <<settings, service>>

PolicySpec == PolicyInit /\ [][Reevaluate]_policyVars

\* A pass, of a rule or of the whole evaluation, is never taken back by reading
\* what could not be read before: no verdict of compliance rested on a gap.
PassIsNeverTakenBack ==
  [][unread' # unread =>
       /\ \A rule \in RULE_CATALOG : results[rule] = "pass" => results'[rule] = "pass"
       /\ overall = "pass" => overall' = "pass"]_policyVars
=============================================================================
