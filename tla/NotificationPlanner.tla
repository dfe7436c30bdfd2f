------------------------ MODULE NotificationPlanner ------------------------
(***************************************************************************)
(* Routing incident events to targets (notifications/planner.py) under     *)
(* policies that operators change meanwhile (notifications/repository.py). *)
(*                                                                         *)
(* A target is canonical: the person or the webhook key that receives, not *)
(* the destination row.  A policy's filters (environment, service, event   *)
(* types, severities) are the set of event kinds it matches.  Timestamps   *)
(* are now(), the start of the transaction: a stamp is taken when the      *)
(* transaction begins and becomes visible when it commits.  Permissions    *)
(* and the check of a recipient's scope are not modelled.                  *)
(***************************************************************************)
EXTENDS Naturals

CONSTANTS
    RoutePolicies,  \* policy ids
    Targets,    \* people and webhook keys that exist as destinations
    Events,     \* incident event ids
    EventKinds, \* what the filters of a policy tell apart
    Managers,   \* operators editing policies
    Planners,   \* processes running the planner loop
    MaxTime,    \* bound on the stamps taken
    NoRow

ASSUME PlannerAssumption ==
    /\ MaxTime \in Nat
    /\ NoRow \notin [kinds : SUBSET EventKinds, enabled : BOOLEAN,
                     effective_from : Nat, version : Nat]
    /\ NoRow \notin {"planned", "failed"}

VARIABLES
    time,
    policy,     \* [RoutePolicies -> its row, NoRow before it is created]
    attached,   \* [RoutePolicies -> [Targets -> effective_from, NoRow: no row]]
    tx,         \* [Managers -> an open transaction: when it began and the
                \*    policy rows it read, NoRow between requests]
    event,      \* [Events -> kind and created_at, NoRow before it is recorded]
    plan,       \* [Events -> state of notification_event_plans, NoRow: no row]
    todo,       \* [Planners -> events its pass has read and not planned yet]
    routed,     \* [Events -> targets with a notification or a delivery]
    expected,   \* ghost: [Events -> targets that matched when it was recorded]
    late        \* ghost: [Events -> targets that came to match it by requests
                \*    that were under way when it was recorded]

editVars == <<policy, attached, tx, late>>
plannerVars == <<time, editVars, event, plan, todo, routed, expected>>

Stamps == 0..MaxTime
Rules == [kinds : SUBSET EventKinds, enabled : BOOLEAN, effective_from : Stamps,
          version : 1..(MaxTime + 1)]

PlannerTypeOK ==
    /\ time \in Stamps
    /\ policy \in [RoutePolicies -> Rules \cup {NoRow}]
    /\ attached \in [RoutePolicies -> [Targets -> Stamps \cup {NoRow}]]
    /\ tx \in [Managers -> {NoRow} \cup
                 [at : Stamps, seen : [RoutePolicies -> Rules \cup {NoRow}]]]
    /\ event \in [Events -> [kind : EventKinds, recorded_at : Stamps] \cup {NoRow}]
    /\ plan \in [Events -> {"planned", "failed", NoRow}]
    /\ todo \in [Planners -> SUBSET Events]
    /\ routed \in [Events -> SUBSET Targets]
    /\ expected \in [Events -> SUBSET Targets]
    /\ late \in [Events -> SUBSET Targets]

PlannerInit ==
    /\ time = 0
    /\ policy = [p \in RoutePolicies |-> NoRow]
    /\ attached = [p \in RoutePolicies |-> [t \in Targets |-> NoRow]]
    /\ tx = [m \in Managers |-> NoRow]
    /\ event = [e \in Events |-> NoRow]
    /\ plan = [e \in Events |-> NoRow]
    /\ todo = [q \in Planners |-> {}]
    /\ routed = [e \in Events |-> {}]
    /\ expected = [e \in Events |-> {}]
    /\ late = [e \in Events |-> {}]

NextStamp == time < MaxTime /\ time' = time + 1

----------------------------------------------------------------------------
\* matching_destinations: the canonical targets of the policies that match.
MatchingDestinations(e) ==
    {t \in Targets : \E p \in RoutePolicies :
        /\ policy[p] # NoRow
        /\ policy[p].enabled
        /\ event[e].kind \in policy[p].kinds
        /\ attached[p][t] # NoRow
        /\ event[e].recorded_at >= policy[p].effective_from
        /\ event[e].recorded_at >= attached[p][t]}

\* A manager's request begins its transaction and reads the policies.
Begin(m) ==
    /\ tx[m] = NoRow
    /\ NextStamp
    /\ tx' = [tx EXCEPT ![m] = [at |-> time', seen |-> policy]]
    /\ UNCHANGED <<policy, attached, event, plan, todo, routed, expected, late>>

\* The request is refused (a version conflict, a validation) or fails.
RollBack(m) ==
    /\ tx[m] # NoRow
    /\ tx' = [tx EXCEPT ![m] = NoRow]
    /\ UNCHANGED <<time, policy, attached, event, plan, todo, routed, expected,
                   late>>

\* The edit of m commits.  Ghost: an event recorded since it began may be
\* routed by it.
Commit(m) ==
    /\ tx' = [tx EXCEPT ![m] = NoRow]
    /\ UNCHANGED <<time, event, plan, todo, routed, expected>>
    /\ late' = [e \in Events |->
                  IF event[e] # NoRow /\ tx[m].at <= event[e].recorded_at
                  THEN late[e] \cup MatchingDestinations(e)'
                  ELSE late[e]]

\* create_policy: enabled, effective from now().
CreatePolicy(m, p) ==
    /\ tx[m] # NoRow
    /\ policy[p] = NoRow
    /\ \E kinds \in SUBSET EventKinds \ {{}} :
          policy' = [policy EXCEPT ![p] =
                       [kinds |-> kinds, enabled |-> TRUE,
                        effective_from |-> tx[m].at, version |-> 1]]
    /\ UNCHANGED attached
    /\ Commit(m)

\* Wrong variant: a policy that is switched on again keeps its old time.
ResetsEffectiveUnlessReenabled(old, kinds, enabled) == old.kinds # kinds

\* Which edits move the effective time: a change of the filters, and
\* re-enabling.
ResetsEffective(old, kinds, enabled) ==
    old.kinds # kinds \/ (enabled /\ ~old.enabled)

\* update_policy: decided on the row the transaction read, written only if
\* the version is still that one.
UpdatePolicy(m, p) ==
    /\ tx[m] # NoRow
    /\ tx[m].seen[p] # NoRow
    /\ policy[p].version = tx[m].seen[p].version
    /\ \E kinds \in SUBSET EventKinds \ {{}}, enabled \in BOOLEAN :
          policy' = [policy EXCEPT ![p] =
             [kinds |-> kinds, enabled |-> enabled,
              effective_from |->
                 IF ResetsEffective(tx[m].seen[p], kinds, enabled)
                 THEN tx[m].at ELSE @.effective_from,
              version |-> @.version + 1]]
    /\ UNCHANGED attached
    /\ Commit(m)

\* attach_destination: a new binding is effective from now(); one that is
\* there stays as it is (no code disables a binding).
AttachDestination(m, p, t) ==
    /\ tx[m] # NoRow
    /\ policy[p] # NoRow
    /\ attached' = [attached EXCEPT ![p][t] = IF @ = NoRow THEN tx[m].at ELSE @]
    /\ UNCHANGED policy
    /\ Commit(m)

----------------------------------------------------------------------------
\* An incident event is committed, with the moment it was recorded
\* (_add_event of the incident processor).
RecordEvent(e, kind) ==
    /\ event[e] = NoRow
    /\ NextStamp
    /\ event' = [event EXCEPT ![e] = [kind |-> kind, recorded_at |-> time']]
    /\ UNCHANGED <<editVars, plan, todo, routed>>
    /\ expected' = [expected EXCEPT ![e] = MatchingDestinations(e)']

\* unplanned_events: a pass reads the events without a plan row.  The limit
\* of a pass only cuts it short.
ReadUnplanned(q) ==
    LET unplanned == {e \in Events : event[e] # NoRow /\ plan[e] = NoRow} IN
    /\ todo[q] = {}
    /\ unplanned # {}
    /\ todo' = [todo EXCEPT ![q] = unplanned]
    /\ UNCHANGED <<time, editVars, event, plan, routed, expected>>

\* Wrong variant: the plan row says planned whatever failed.
PlanStateAlwaysPlanned(failed) == "planned"

PlanState(failed) == IF failed = {} THEN "planned" ELSE "failed"

\* plan_event and the plan row, one transaction: a row per target, but for
\* the ones that fail in their savepoint; what a concurrent pass already
\* wrote stays (the unique constraints, ON CONFLICT DO NOTHING).
PlanEvent(q, e) ==
    /\ e \in todo[q]
    /\ \E failed \in SUBSET (MatchingDestinations(e) \ routed[e]) :
          /\ routed' = [routed EXCEPT ![e] =
                          @ \cup (MatchingDestinations(e) \ failed)]
          /\ plan' = [plan EXCEPT ![e] = IF @ = NoRow THEN PlanState(failed)
                                         ELSE @]
    /\ todo' = [todo EXCEPT ![q] = @ \ {e}]
    /\ UNCHANGED <<time, editVars, event, expected>>

\* The transaction of one event fails: it stays unplanned.
PlanEventFails(q, e) ==
    /\ e \in todo[q]
    /\ todo' = [todo EXCEPT ![q] = @ \ {e}]
    /\ UNCHANGED <<time, editVars, event, plan, routed, expected>>

\* The process stops in the middle of a pass.
StopPlanner(q) ==
    /\ todo[q] # {}
    /\ todo' = [todo EXCEPT ![q] = {}]
    /\ UNCHANGED <<time, editVars, event, plan, routed, expected>>

PlannerNext ==
    \/ \E m \in Managers :
          \/ Begin(m)
          \/ RollBack(m)
          \/ \E p \in RoutePolicies :
                \/ CreatePolicy(m, p)
                \/ UpdatePolicy(m, p)
                \/ \E t \in Targets : AttachDestination(m, p, t)
    \/ \E e \in Events, kind \in EventKinds : RecordEvent(e, kind)
    \/ \E q \in Planners :
          \/ ReadUnplanned(q)
          \/ \E e \in Events : PlanEvent(q, e) \/ PlanEventFails(q, e)
          \/ StopPlanner(q)

PlannerSpec == PlannerInit /\ [][PlannerNext]_plannerVars

----------------------------------------------------------------------------
\* "A policy applies from when it was configured, not backwards"
\* (planner.py:20): whoever is notified of an event was, when the event was
\* recorded, attached to a policy that was enabled and matched it, whatever
\* was created, re-scoped, re-enabled or attached between the event and its
\* planning (or was being so just then: now() is the start of the request).
NotRetroactive == \A e \in Events : routed[e] \subseteq expected[e] \cup late[e]

\* "A backlog is still delivered" (NOTIFICATION_ROUTING.md:94): a plan row
\* "planned" leaves out nobody who was to be notified when the event was
\* recorded and whom the policies as they stand would still notify, however
\* late, and by however many planners at once, it was planned - unless it
\* takes a request that was under way at that moment to name them again.
PlannedIsComplete ==
    /\ PlannerTypeOK
    /\ \A e \in Events : plan[e] = "planned" =>
          (expected[e] \cap MatchingDestinations(e)) \ late[e] \subseteq routed[e]
====
