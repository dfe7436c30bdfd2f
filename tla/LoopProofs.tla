----------------------------- MODULE LoopProofs ----------------------------
(***************************************************************************)
(* Proofs about the loops that run beside the requests, each for any       *)
(* number of processes, rounds and faults: the lease of the evaluation     *)
(* runner, the notification planner under concurrent edits, the silence    *)
(* workers, and the agent's certificate renewal (of which everything but   *)
(* the types needs that no prepare is processed after the agent gave up on *)
(* it, ~LatePrepares).                                                     *)
(***************************************************************************)
EXTENDS EvaluationRunner, NotificationPlanner, Silences, CertRenewal, FiniteSetTheorems, TLAPS

----------------------------------------------------------------------------
(* The evaluation runner.                                                  *)

\* Every replica has a token or none; a token belongs to one cycle.
TokensAreUnique ==
    /\ DOMAIN token = Replicas
    /\ \A q, r \in Replicas : token[q] = token[r] => q = r \/ token[q] = NoToken

\* Tokens stay unique: a cycle starts with one that no cycle carries.
LEMMA TokensStayUnique ==
    TokensAreUnique /\ [RunnerNext]_runnerVars => TokensAreUnique'
<1> SUFFICES ASSUME TokensAreUnique, [RunnerNext]_runnerVars
             PROVE  TokensAreUnique'
  OBVIOUS
<1>1. ASSUME NEW r \in Replicas, AcquireLease(r)
      PROVE  TokensAreUnique'
  BY <1>1 DEF AcquireLease, TokensAreUnique
<1>2. ASSUME NEW r \in Replicas, FinishCycle(r) \/ AbortCycle(r)
      PROVE  TokensAreUnique'
  BY <1>2 DEF FinishCycle, AbortCycle, EndCycle, TokensAreUnique
<1>3. CASE UNCHANGED token
  BY <1>3 DEF TokensAreUnique
<1> QED
  BY <1>1, <1>2, <1>3
  DEF RunnerNext, Toggle, ReadPage, Evaluate, ExpireLease, runnerVars, cycleVars

\* A cycle that ends, well or not, and however long after its lease ran out,
\* frees the lease only if it is the cycle that holds it: by uniqueness of
\* the tokens no other cycle could (incidents/runner.py _RELEASE).
THEOREM LeaseIsReleasedByItsHolder == RunnerSpec => ReleasesOnlyItsOwn
<1>1. RunnerInit => TokensAreUnique
  BY DEF RunnerInit, TokensAreUnique
<1>2. TokensAreUnique /\ [RunnerNext]_runnerVars =>
        [lease # NoToken /\ lease' # lease /\ token' # token
         => \E r \in Replicas : token[r] = lease /\ token'[r] = NoToken]_runnerVars
  <2> SUFFICES ASSUME TokensAreUnique, RunnerNext,
                      lease # NoToken, lease' # lease, token' # token
               PROVE  \E r \in Replicas : token[r] = lease /\ token'[r] = NoToken
    BY DEF runnerVars
  <2>1. PICK r \in Replicas : FinishCycle(r) \/ AbortCycle(r)
    BY DEF RunnerNext, Toggle, AcquireLease, ReadPage, Evaluate, ExpireLease, cycleVars
  <2> QED
    BY <2>1 DEF FinishCycle, AbortCycle, EndCycle, Release, TokensAreUnique
<1> QED
  BY <1>1, <1>2, TokensStayUnique, PTL DEF RunnerSpec, ReleasesOnlyItsOwn

----------------------------------------------------------------------------
(* The notification planner.                                               *)

TxRow == [at : Stamps, seen : [RoutePolicies -> Rules \cup {NoRow}]]

(* What an open request has read is the policy, or an older version of it: *)
(* the version it read stands for the whole row.  Versions grow no faster  *)
(* than the clock, because an edit takes a stamp when it begins.           *)
SeenIsKnown ==
    /\ \A p \in RoutePolicies : policy[p] # NoRow => policy[p].version <= time
    /\ \A m \in Managers : tx[m] # NoRow =>
         /\ 1 <= tx[m].at /\ tx[m].at <= time
         /\ \A p \in RoutePolicies : tx[m].seen[p] # NoRow =>
              /\ policy[p] # NoRow
              /\ tx[m].seen[p].version < tx[m].at
              /\ tx[m].seen[p].version <= policy[p].version
              /\ policy[p].version = tx[m].seen[p].version => policy[p] = tx[m].seen[p]

(* Only recorded events are planned and routed.                            *)
PlansAreOfEvents ==
    /\ \A q \in Planners : \A e \in todo[q] : event[e] # NoRow
    /\ \A e \in Events : event[e] = NoRow => plan[e] = NoRow /\ routed[e] = {}

(* Whoever the policies name now was named when the event was recorded, or *)
(* came to be by a request that was under way.                             *)
MatchedInTime ==
    \A e \in Events :
       event[e] # NoRow => MatchingDestinations(e) \subseteq expected[e] \cup late[e]

\* The inductive invariant of the planner.
PlannerInv ==
    /\ PlannerTypeOK
    /\ SeenIsKnown
    /\ PlansAreOfEvents
    /\ MatchedInTime
    /\ NotRetroactive
    /\ PlannedIsComplete

\* The invariant holds initially.
LEMMA PlannerInitially == PlannerInit => PlannerInv
<1> SUFFICES ASSUME PlannerInit
             PROVE  PlannerInv
  OBVIOUS
<1>1. 0 \in Stamps
  BY PlannerAssumption DEF PlannerAssumption, Stamps
<1>2. PlannerTypeOK
  BY <1>1 DEF PlannerInit, PlannerTypeOK
<1>3. /\ SeenIsKnown /\ PlansAreOfEvents /\ MatchedInTime /\ NotRetroactive
  BY DEF PlannerInit, SeenIsKnown, PlansAreOfEvents, MatchedInTime, NotRetroactive
<1>4. PlannedIsComplete
  BY <1>2 DEF PlannerInit, PlannedIsComplete
<1> QED
  BY <1>2, <1>3, <1>4 DEF PlannerInv

\* Any edit of a manager that commits.
Edit(m) ==
    \E p \in RoutePolicies :
       CreatePolicy(m, p) \/ UpdatePolicy(m, p) \/ \E t \in Targets : AttachDestination(m, p, t)

(* A changed policy is a new version that applies from the moment its      *)
(* request began, unless the edit adds nothing to what it matches.         *)
Renewed(p, at) ==
    /\ policy'[p] \in Rules /\ policy'[p].version <= at
    /\ policy[p] # NoRow => policy[p].version < policy'[p].version
    /\ \/ policy'[p].effective_from = at
       \/ /\ policy[p] # NoRow
          /\ policy'[p].kinds = policy[p].kinds
          /\ policy'[p].effective_from = policy[p].effective_from
          /\ policy'[p].enabled => policy[p].enabled

\* What an edit does to policies and attachments.
LEMMA EditEffect ==
    ASSUME PlannerInv, NEW m \in Managers, Edit(m)
    PROVE  /\ tx[m] # NoRow /\ tx[m] \in TxRow
           /\ policy' \in [RoutePolicies -> Rules \cup {NoRow}]
           /\ attached' \in [RoutePolicies -> [Targets -> Stamps \cup {NoRow}]]
           /\ \A p \in RoutePolicies : policy'[p] = policy[p] \/ Renewed(p, tx[m].at)
           /\ \A p \in RoutePolicies, t \in Targets :
                attached'[p][t] = attached[p][t] \/ attached'[p][t] = tx[m].at
           /\ Commit(m)
<1> DEFINE at == tx[m].at
<1>1. /\ tx[m] # NoRow /\ tx[m] \in TxRow /\ at \in Stamps /\ time \in Stamps
      /\ 1 <= at /\ at <= time /\ Commit(m)
  BY DEF Edit, CreatePolicy, UpdatePolicy, AttachDestination, PlannerInv, PlannerTypeOK,
         SeenIsKnown, TxRow
<1>2. /\ policy \in [RoutePolicies -> Rules \cup {NoRow}]
      /\ attached \in [RoutePolicies -> [Targets -> Stamps \cup {NoRow}]]
  BY DEF PlannerInv, PlannerTypeOK
<1>3. MaxTime \in Nat
  BY PlannerAssumption DEF PlannerAssumption
<1>4. ASSUME NEW p \in RoutePolicies, CreatePolicy(m, p)
      PROVE  /\ policy' \in [RoutePolicies -> Rules \cup {NoRow}] /\ UNCHANGED attached
             /\ \A q \in RoutePolicies : policy'[q] = policy[q] \/ Renewed(q, at)
  <2> PICK kinds \in SUBSET EventKinds :
         policy' = [policy EXCEPT ![p] = [kinds |-> kinds, enabled |-> TRUE,
                                          effective_from |-> at, version |-> 1]]
    BY <1>4 DEF CreatePolicy
  <2> DEFINE row == [kinds |-> kinds, enabled |-> TRUE, effective_from |-> at, version |-> 1]
  <2>1. row \in Rules /\ row.version = 1 /\ row.effective_from = at
    BY <1>1, <1>3 DEF Rules, Stamps
  <2>2. policy[p] = NoRow /\ UNCHANGED attached
    BY <1>4 DEF CreatePolicy
  <2> HIDE DEF row
  <2> QED
    BY <1>1, <1>2, <2>1, <2>2 DEF Renewed, row
<1>5. ASSUME NEW p \in RoutePolicies, UpdatePolicy(m, p)
      PROVE  /\ policy' \in [RoutePolicies -> Rules \cup {NoRow}] /\ UNCHANGED attached
             /\ \A q \in RoutePolicies : policy'[q] = policy[q] \/ Renewed(q, at)
  <2>1. /\ policy[p] # NoRow /\ policy[p] = tx[m].seen[p] /\ policy[p].version < at
        /\ UNCHANGED attached
    BY <1>1, <1>5 DEF UpdatePolicy, PlannerInv, SeenIsKnown
  <2>2. policy[p] \in Rules
    BY <1>2, <2>1
  <2> PICK kinds \in SUBSET EventKinds, enabled \in BOOLEAN :
         policy' = [policy EXCEPT ![p] =
           [kinds |-> kinds, enabled |-> enabled,
            effective_from |-> IF ResetsEffective(tx[m].seen[p], kinds, enabled)
                               THEN at ELSE @.effective_from,
            version |-> @.version + 1]]
    BY <1>5 DEF UpdatePolicy
  <2> DEFINE effective == IF ResetsEffective(policy[p], kinds, enabled)
                          THEN at ELSE policy[p].effective_from
             row == [kinds |-> kinds, enabled |-> enabled, effective_from |-> effective,
                     version |-> policy[p].version + 1]
  <2>3. policy' = [policy EXCEPT ![p] = row]
    BY <2>1
  <2>4. effective \in Stamps /\ policy[p].version + 1 \in 1..(MaxTime + 1)
    BY <1>1, <1>3, <2>1, <2>2 DEF Rules, Stamps
  <2>5. \/ effective = at
        \/ /\ kinds = policy[p].kinds /\ effective = policy[p].effective_from
           /\ enabled => policy[p].enabled
    BY DEF ResetsEffective
  <2>6. policy[p].version \in Nat /\ at \in Nat
    BY <1>1, <1>3, <2>2 DEF Rules, Stamps
  <2> HIDE DEF effective
  <2>7. /\ row \in Rules /\ row.version = policy[p].version + 1
        /\ row.effective_from = effective /\ row.kinds = kinds /\ row.enabled = enabled
    BY <2>4 DEF Rules
  <2> HIDE DEF row
  <2>8. policy'[p] = row /\ \A q \in RoutePolicies \ {p} : policy'[q] = policy[q]
    BY <1>2, <2>3
  <2>9. Renewed(p, at)
    BY <2>1, <2>5, <2>6, <2>7, <2>8 DEF Renewed
  <2> QED
    BY <1>2, <2>1, <2>3, <2>7, <2>8, <2>9
<1>6. ASSUME NEW p \in RoutePolicies, NEW t \in Targets, AttachDestination(m, p, t)
      PROVE  /\ UNCHANGED policy
             /\ attached' \in [RoutePolicies -> [Targets -> Stamps \cup {NoRow}]]
             /\ \A q \in RoutePolicies, u \in Targets :
                  attached'[q][u] = attached[q][u] \/ attached'[q][u] = at
  BY <1>1, <1>2, <1>6 DEF AttachDestination
<1> QED
  BY <1>1, <1>2, <1>4, <1>5, <1>6 DEF Edit

\* A request that began after an event adds nobody to whom the event goes.
LEMMA LaterEditsAddNobody ==
    ASSUME PlannerInv, NEW m \in Managers, Edit(m), NEW e \in Events,
           event[e] # NoRow, ~(tx[m].at <= event[e].recorded_at)
    PROVE  MatchingDestinations(e)' \subseteq MatchingDestinations(e)
<1>1. /\ event' = event /\ event[e].recorded_at \in Stamps /\ tx[m].at \in Stamps
      /\ \A p \in RoutePolicies : policy'[p] = policy[p] \/ Renewed(p, tx[m].at)
      /\ \A p \in RoutePolicies, t \in Targets :
           attached'[p][t] = attached[p][t] \/ attached'[p][t] = tx[m].at
  BY EditEffect DEF Commit, PlannerInv, PlannerTypeOK, TxRow
<1>2. ~(event[e].recorded_at >= tx[m].at)
  BY <1>1, PlannerAssumption DEF Stamps, PlannerAssumption
<1>3. ASSUME NEW t \in Targets, NEW p \in RoutePolicies,
             policy'[p] # NoRow, policy'[p].enabled, event[e].kind \in policy'[p].kinds,
             attached'[p][t] # NoRow,
             event[e].recorded_at >= policy'[p].effective_from,
             event[e].recorded_at >= attached'[p][t]
      PROVE  t \in MatchingDestinations(e)
  <2>1. attached'[p][t] = attached[p][t]
    BY <1>1, <1>2, <1>3
  <2>2. policy'[p] = policy[p] \/ policy'[p].effective_from # tx[m].at
    BY <1>2, <1>3
  <2>3. /\ policy[p] # NoRow /\ policy[p].enabled /\ event[e].kind \in policy[p].kinds
        /\ event[e].recorded_at >= policy[p].effective_from
    BY <1>1, <1>3, <2>2 DEF Renewed
  <2> QED
    BY <1>3, <2>1, <2>3 DEF MatchingDestinations
<1> QED
  BY <1>1, <1>3 DEF MatchingDestinations

\* An edit keeps the invariant.
LEMMA PlannerEdit ==
    ASSUME PlannerInv, NEW m \in Managers, Edit(m)
    PROVE  PlannerInv'
<1>1. /\ tx' = [tx EXCEPT ![m] = NoRow]
      /\ UNCHANGED <<time, event, plan, todo, routed, expected>>
      /\ \A e \in Events :
           \/ late'[e] = late[e] /\ (event[e] # NoRow => ~(tx[m].at <= event[e].recorded_at))
           \/ late'[e] = late[e] \cup MatchingDestinations(e)'
      /\ DOMAIN late' = Events /\ late' = [e \in Events |-> late'[e]]
  BY EditEffect DEF Commit
<1>2. NoRow # "planned"
  BY PlannerAssumption DEF PlannerAssumption
<1>3. PlannerTypeOK'
  <2>1. \A e \in Events : late'[e] \in SUBSET Targets
    BY <1>1 DEF PlannerInv, PlannerTypeOK, MatchingDestinations
  <2>2. late' \in [Events -> SUBSET Targets]
    BY <1>1, <2>1
  <2> QED
    BY <1>1, <2>2, EditEffect DEF PlannerInv, PlannerTypeOK
<1>4. SeenIsKnown'
  <2>1. ASSUME NEW p \in RoutePolicies, policy'[p] # NoRow
        PROVE  policy'[p].version <= time
    <3>1. CASE policy'[p] = policy[p]
      BY <2>1, <3>1 DEF PlannerInv, SeenIsKnown
    <3>2. CASE Renewed(p, tx[m].at)
      BY <3>2, EditEffect, PlannerAssumption
      DEF PlannerInv, SeenIsKnown, PlannerTypeOK, Renewed, Rules, TxRow, Stamps,
          PlannerAssumption
    <3> QED
      BY <3>1, <3>2, EditEffect
  <2>2. ASSUME NEW n \in Managers, tx'[n] # NoRow
        PROVE  tx[n] # NoRow /\ tx'[n] = tx[n]
    BY <1>1, <2>2 DEF PlannerInv, PlannerTypeOK
  <2>3. ASSUME NEW n \in Managers, tx[n] # NoRow,
               NEW p \in RoutePolicies, tx[n].seen[p] # NoRow
        PROVE  /\ policy'[p] # NoRow
               /\ tx[n].seen[p].version <= policy'[p].version
               /\ policy'[p].version = tx[n].seen[p].version => policy'[p] = tx[n].seen[p]
    <3>1. /\ policy[p] # NoRow /\ policy[p] \in Rules /\ tx[n].seen[p] \in Rules
          /\ tx[n].seen[p].version <= policy[p].version
          /\ policy[p].version = tx[n].seen[p].version => policy[p] = tx[n].seen[p]
      BY <2>3 DEF PlannerInv, SeenIsKnown, PlannerTypeOK
    <3>2. CASE policy'[p] = policy[p]
      BY <3>1, <3>2
    <3>3. CASE Renewed(p, tx[m].at)
      <4>1. policy'[p] \in Rules /\ policy[p].version < policy'[p].version
        BY <3>1, <3>3 DEF Renewed
      <4>2. policy'[p] # NoRow
        BY <4>1, PlannerAssumption DEF PlannerAssumption, Rules, Stamps
      <4> QED
        BY <3>1, <4>1, <4>2, PlannerAssumption DEF Rules, PlannerAssumption
    <3> QED
      BY <3>2, <3>3, EditEffect
  <2> QED
    BY <1>1, <2>1, <2>2, <2>3 DEF PlannerInv, SeenIsKnown
<1>5. PlansAreOfEvents'
  BY <1>1 DEF PlannerInv, PlansAreOfEvents
<1>6. \A e \in Events : late[e] \subseteq late'[e]
  BY <1>1
<1>7. MatchedInTime'
  BY <1>1, <1>6, LaterEditsAddNobody DEF PlannerInv, MatchedInTime
<1>8. NotRetroactive'
  BY <1>1, <1>6 DEF PlannerInv, NotRetroactive
<1>9. PlannedIsComplete'
  <2>1. ASSUME NEW e \in Events, plan[e] = "planned"
        PROVE  (expected[e] \cap MatchingDestinations(e)') \ late'[e] \subseteq routed[e]
    <3>1. CASE event[e] # NoRow
      BY <1>1, <1>6, <2>1, <3>1, LaterEditsAddNobody DEF PlannerInv, PlannedIsComplete
    <3>2. CASE event[e] = NoRow
      BY <1>1, <1>2, <2>1, <3>2 DEF PlannerInv, PlansAreOfEvents
    <3> QED
      BY <3>1, <3>2
  <2> QED
    BY <1>1, <1>3, <2>1 DEF PlannedIsComplete
<1> QED
  BY <1>3, <1>4, <1>5, <1>7, <1>8, <1>9 DEF PlannerInv

\* A request begins, or is rolled back.
LEMMA PlannerRequest ==
    ASSUME PlannerInv, NEW m \in Managers, Begin(m) \/ RollBack(m)
    PROVE  PlannerInv'
<1> USE PlannerAssumption DEF PlannerAssumption
<1>1. UNCHANGED <<policy, attached, event, plan, todo, routed, expected, late>>
  BY DEF Begin, RollBack
<1>2. MatchedInTime' /\ NotRetroactive' /\ PlansAreOfEvents'
  BY <1>1 DEF PlannerInv, MatchedInTime, NotRetroactive, PlansAreOfEvents, MatchingDestinations
<1>3. CASE Begin(m)
  <2>1. /\ tx[m] = NoRow /\ time' = time + 1 /\ time' \in Stamps /\ time \in Nat
        /\ tx' = [tx EXCEPT ![m] = [at |-> time', seen |-> policy]]
    BY <1>3 DEF Begin, NextStamp, PlannerInv, PlannerTypeOK, Stamps
  <2> DEFINE row == [at |-> time', seen |-> policy]
  <2>2. row \in TxRow /\ row.at = time' /\ row.seen = policy
    BY <2>1 DEF TxRow, PlannerInv, PlannerTypeOK
  <2> HIDE DEF row
  <2>3. tx' = [tx EXCEPT ![m] = row]
    BY <2>1 DEF row
  <2>4. tx' \in [Managers -> {NoRow} \cup TxRow]
    BY <2>2, <2>3 DEF PlannerInv, PlannerTypeOK, TxRow
  <2>5. PlannerTypeOK'
    BY <1>1, <2>1, <2>4 DEF PlannerInv, PlannerTypeOK, TxRow
  <2>6. \A p \in RoutePolicies : policy[p] # NoRow =>
           policy[p].version \in Nat /\ policy[p].version <= time
    BY DEF PlannerInv, PlannerTypeOK, SeenIsKnown, Rules
  <2>7. \A n \in Managers \ {m} : tx'[n] = tx[n]
    BY <2>3 DEF PlannerInv, PlannerTypeOK
  <2>8. tx'[m] = row
    BY <2>3 DEF PlannerInv, PlannerTypeOK
  <2>9. ASSUME NEW p \in RoutePolicies, policy'[p] # NoRow
        PROVE  policy'[p].version <= time'
    BY <1>1, <2>1, <2>6, <2>9
  <2>10. ASSUME NEW n \in Managers, tx'[n] # NoRow
         PROVE  /\ 1 <= tx'[n].at /\ tx'[n].at <= time'
                /\ \A p \in RoutePolicies : tx'[n].seen[p] # NoRow =>
                      /\ policy'[p] # NoRow
                      /\ tx'[n].seen[p].version < tx'[n].at
                      /\ tx'[n].seen[p].version <= policy'[p].version
                      /\ policy'[p].version = tx'[n].seen[p].version =>
                            policy'[p] = tx'[n].seen[p]
    <3>1. CASE n = m
      BY <1>1, <2>1, <2>2, <2>6, <2>8, <3>1
    <3>2. CASE n # m
      <4>1. tx'[n] = tx[n] /\ tx[n].at \in Nat
        BY <2>7, <2>10, <3>2 DEF PlannerInv, PlannerTypeOK, Stamps
      <4> QED
        BY <1>1, <2>1, <2>10, <4>1 DEF PlannerInv, SeenIsKnown
    <3> QED
      BY <3>1, <3>2
  <2>11. SeenIsKnown'
    BY <2>9, <2>10 DEF SeenIsKnown
  <2>12. PlannedIsComplete'
    BY <1>1, <2>5 DEF PlannerInv, PlannedIsComplete, MatchingDestinations
  <2> QED
    BY <1>2, <2>5, <2>11, <2>12 DEF PlannerInv
<1>4. CASE RollBack(m)
  <2>1. /\ time' = time /\ tx' \in [Managers -> {NoRow} \cup TxRow]
        /\ \A n \in Managers : tx'[n] # NoRow => tx'[n] = tx[n]
    BY <1>4 DEF RollBack, PlannerInv, PlannerTypeOK, TxRow
  <2>2. PlannerTypeOK'
    BY <1>1, <2>1 DEF PlannerInv, PlannerTypeOK, TxRow
  <2>3. SeenIsKnown'
    BY <1>1, <2>1 DEF PlannerInv, SeenIsKnown
  <2>4. PlannedIsComplete'
    BY <1>1, <2>2 DEF PlannerInv, PlannedIsComplete, MatchingDestinations
  <2> QED
    BY <1>2, <2>2, <2>3, <2>4 DEF PlannerInv
<1> QED
  BY <1>3, <1>4

\* An event is recorded with everybody the policies name at that moment.
LEMMA PlannerRecord ==
    ASSUME PlannerInv, NEW e \in Events, NEW kind \in EventKinds, RecordEvent(e, kind)
    PROVE  PlannerInv'
<1> USE PlannerAssumption DEF PlannerAssumption
<1>1. /\ event[e] = NoRow /\ time' = time + 1 /\ time' \in Stamps /\ time \in Nat
      /\ event' = [event EXCEPT ![e] = [kind |-> kind, recorded_at |-> time']]
      /\ expected' = [expected EXCEPT ![e] = MatchingDestinations(e)']
      /\ UNCHANGED <<policy, attached, tx, late, plan, todo, routed>>
  BY DEF RecordEvent, NextStamp, editVars, PlannerInv, PlannerTypeOK, Stamps
<1>2. MatchingDestinations(e)' \in SUBSET Targets
  BY DEF MatchingDestinations
<1>3. [kind |-> kind, recorded_at |-> time'] \in [kind : EventKinds, recorded_at : Stamps]
  BY <1>1
<1>4. /\ \A d \in Events \ {e} : event'[d] = event[d] /\ expected'[d] = expected[d]
      /\ expected'[e] = MatchingDestinations(e)'
      /\ expected' \in [Events -> SUBSET Targets]
      /\ event' \in [Events -> [kind : EventKinds, recorded_at : Stamps] \cup {NoRow}]
  BY <1>1, <1>2, <1>3 DEF PlannerInv, PlannerTypeOK
<1>5. PlannerTypeOK'
  BY <1>1, <1>4 DEF PlannerInv, PlannerTypeOK
<1>6. SeenIsKnown'
  <2>1. \A p \in RoutePolicies : policy[p] # NoRow => policy[p].version \in Nat
    BY DEF PlannerInv, PlannerTypeOK, Rules
  <2>2. \A m \in Managers : tx[m] # NoRow => tx[m].at \in Nat
    BY DEF PlannerInv, PlannerTypeOK, Stamps
  <2> QED
    BY <1>1, <2>1, <2>2 DEF PlannerInv, SeenIsKnown
<1>7. \A d \in Events \ {e} : MatchingDestinations(d)' = MatchingDestinations(d)
  BY <1>1, <1>4 DEF MatchingDestinations
<1>8. PlansAreOfEvents'
  BY <1>1, <1>4 DEF PlannerInv, PlansAreOfEvents
<1>9. MatchedInTime'
  BY <1>1, <1>4, <1>7 DEF PlannerInv, MatchedInTime
<1>10. plan[e] # "planned" /\ routed[e] = {}
  BY <1>1 DEF PlannerInv, PlansAreOfEvents
<1>11. NotRetroactive'
  BY <1>1, <1>4, <1>10 DEF PlannerInv, NotRetroactive
<1>12. PlannedIsComplete'
  BY <1>1, <1>4, <1>5, <1>7, <1>10 DEF PlannerInv, PlannedIsComplete
<1> QED
  BY <1>5, <1>6, <1>8, <1>9, <1>11, <1>12 DEF PlannerInv

\* A pass that reads, gives up an event, or stops.
LEMMA PlannerPass ==
    ASSUME PlannerInv, NEW q \in Planners,
           ReadUnplanned(q) \/ StopPlanner(q) \/ \E e \in Events : PlanEventFails(q, e)
    PROVE  PlannerInv'
<1> DEFINE left == todo'[q]
<1>1. UNCHANGED <<time, policy, attached, tx, late, event, plan, routed, expected>>
  BY DEF ReadUnplanned, StopPlanner, PlanEventFails, editVars
<1>2. /\ left \subseteq Events /\ todo' = [todo EXCEPT ![q] = left]
      /\ \A e \in left : event[e] # NoRow
  <2>1. /\ todo \in [Planners -> SUBSET Events]
        /\ \A e \in todo[q] : event[e] # NoRow
    BY DEF PlannerInv, PlannerTypeOK, PlansAreOfEvents
  <2>2. CASE ReadUnplanned(q)
    BY <2>1, <2>2 DEF ReadUnplanned
  <2>3. CASE StopPlanner(q)
    BY <2>1, <2>3 DEF StopPlanner
  <2>4. CASE \E e \in Events : PlanEventFails(q, e)
    BY <2>1, <2>4 DEF PlanEventFails
  <2> QED
    BY <2>2, <2>3, <2>4
<1> HIDE DEF left
<1>3. PlannerTypeOK'
  BY <1>1, <1>2 DEF PlannerInv, PlannerTypeOK
<1>4. SeenIsKnown'
  BY <1>1 DEF PlannerInv, SeenIsKnown
<1>5. PlansAreOfEvents'
  BY <1>1, <1>2 DEF PlannerInv, PlannerTypeOK, PlansAreOfEvents
<1>6. MatchedInTime' /\ NotRetroactive'
  BY <1>1 DEF PlannerInv, MatchedInTime, NotRetroactive, MatchingDestinations
<1>7. PlannedIsComplete'
  BY <1>1, <1>3 DEF PlannerInv, PlannedIsComplete, MatchingDestinations
<1> QED
  BY <1>3, <1>4, <1>5, <1>6, <1>7 DEF PlannerInv

\* The plan of an event routes it to those the policies name now.
LEMMA PlannerPlans ==
    ASSUME PlannerInv, NEW q \in Planners, NEW e \in Events, PlanEvent(q, e)
    PROVE  PlannerInv'
<1> USE PlannerAssumption DEF PlannerAssumption
<1>1. PICK failed \in SUBSET (MatchingDestinations(e) \ routed[e]) :
         /\ routed' = [routed EXCEPT ![e] = @ \cup (MatchingDestinations(e) \ failed)]
         /\ plan' = [plan EXCEPT ![e] = IF @ = NoRow THEN PlanState(failed) ELSE @]
  BY DEF PlanEvent
<1>2. /\ e \in todo[q] /\ event[e] # NoRow
      /\ todo' = [todo EXCEPT ![q] = @ \ {e}]
      /\ UNCHANGED <<time, policy, attached, tx, late, event, expected>>
  BY DEF PlanEvent, editVars, PlannerInv, PlansAreOfEvents
<1>3. MatchingDestinations(e) \subseteq Targets
  BY DEF MatchingDestinations
<1>4. /\ \A d \in Events \ {e} : routed'[d] = routed[d] /\ plan'[d] = plan[d]
      /\ routed'[e] = routed[e] \cup (MatchingDestinations(e) \ failed)
      /\ plan'[e] = IF plan[e] = NoRow THEN PlanState(failed) ELSE plan[e]
  BY <1>1 DEF PlannerInv, PlannerTypeOK
<1>5. PlannerTypeOK'
  <2>1. plan' \in [Events -> {"planned", "failed", NoRow}]
    BY <1>1 DEF PlannerInv, PlannerTypeOK, PlanState
  <2>2. routed' \in [Events -> SUBSET Targets]
    BY <1>1, <1>3 DEF PlannerInv, PlannerTypeOK
  <2>3. todo' \in [Planners -> SUBSET Events]
    BY <1>2 DEF PlannerInv, PlannerTypeOK
  <2> QED
    BY <1>2, <2>1, <2>2, <2>3 DEF PlannerInv, PlannerTypeOK
<1>6. SeenIsKnown'
  BY <1>2 DEF PlannerInv, SeenIsKnown
<1>7. PlansAreOfEvents'
  BY <1>2, <1>4 DEF PlannerInv, PlannerTypeOK, PlansAreOfEvents
<1>8. \A d \in Events : MatchingDestinations(d)' = MatchingDestinations(d)
  BY <1>2 DEF MatchingDestinations
<1>9. MatchedInTime'
  BY <1>2, <1>8 DEF PlannerInv, MatchedInTime
<1>10. NotRetroactive'
  BY <1>2, <1>4 DEF PlannerInv, NotRetroactive, MatchedInTime
<1>11. PlannedIsComplete'
  <2>1. ASSUME NEW d \in Events, plan'[d] = "planned"
        PROVE  (expected[d] \cap MatchingDestinations(d)) \ late[d] \subseteq routed'[d]
    <3>1. CASE plan[d] = "planned"
      BY <1>4, <3>1 DEF PlannerInv, PlannedIsComplete
    <3>2. CASE plan[d] # "planned"
      BY <1>4, <2>1, <3>2 DEF PlanState
    <3> QED
      BY <3>1, <3>2
  <2> QED
    BY <1>2, <1>5, <1>8, <2>1 DEF PlannedIsComplete
<1> QED
  BY <1>5, <1>6, <1>7, <1>9, <1>10, <1>11 DEF PlannerInv

\* Every step keeps the invariant.
LEMMA PlannerStep ==
    PlannerInv /\ [PlannerNext]_plannerVars => PlannerInv'
<1> SUFFICES ASSUME PlannerInv, [PlannerNext]_plannerVars
             PROVE  PlannerInv'
  OBVIOUS
<1>1. CASE UNCHANGED plannerVars
  BY <1>1 DEF plannerVars, editVars, PlannerInv, PlannerTypeOK, SeenIsKnown,
     PlansAreOfEvents, MatchedInTime, NotRetroactive, PlannedIsComplete, MatchingDestinations
<1>2. CASE PlannerNext
  BY <1>2, PlannerEdit, PlannerRequest, PlannerRecord, PlannerPass, PlannerPlans
  DEF PlannerNext, Edit
<1> QED
  BY <1>1, <1>2

\* For any number of policies, people, events, operators and planners:
\* nobody is notified of an event who was not to be notified of it when it
\* was recorded, but for requests that were under way (planner.py:20).
THEOREM PoliciesAreNotRetroactive == PlannerSpec => []NotRetroactive
<1>1. PlannerInv => NotRetroactive
  BY DEF PlannerInv
<1> QED
  BY <1>1, PlannerInitially, PlannerStep, PTL DEF PlannerSpec

\* And an event whose plan row says planned has reached everybody who was to
\* be notified of it and still would be (planner.py, plan_event).
THEOREM PlannedMeansComplete == PlannerSpec => []PlannedIsComplete
<1>1. PlannerInv => PlannedIsComplete
  BY DEF PlannerInv
<1> QED
  BY <1>1, PlannerInitially, PlannerStep, PTL DEF PlannerSpec

----------------------------------------------------------------------------
(* Silences.                                                               *)

ProviderRow == [request : Requests, live : BOOLEAN]

\* The silences of request r at the provider.
SilencesOf(r) == {n \in DOMAIN provider : provider[n].request = r}

\* The workers whose pass may still create one, now or by trying again.
Pursuing(r) ==
    {w \in Workers : \E i \in held[w] :
        i.request = r /\ i.op = "pending" /\ i.outcome \in {"none", "retryable"}}

Holding(r) == \E w \in Workers : \E i \in held[w] : i.request = r

\* A worker may come to pursue r without a mishap.
MayStart(r) ==
    \/ silence[r].state = "none"
    \/ silence[r].state = "pending" /\ (silence[r].due \/ ~Holding(r))

(* Every silence there is and every silence there may be without a further *)
(* mishap: all but one are paid for.                                       *)
Paid(r) ==
    /\ IsFiniteSet(SilencesOf(r)) /\ IsFiniteSet(Pursuing(r))
    /\ Cardinality(SilencesOf(r)) + Cardinality(Pursuing(r))
         + (IF MayStart(r) THEN 1 ELSE 0) <= 1 + mishaps[r]

(* A pass holds a request once, and to create only what was not cancelled. *)
PassesAreOrderly ==
    \A w \in Workers : \A i \in held[w] :
       /\ \A j \in held[w] : i.request = j.request => i = j
       /\ silence[i.request].state \in {"none", "pending"} => i.op = "pending"

\* The provider numbers its silences.
ProviderCounts == \E k \in Nat : provider \in [1..k -> ProviderRow]

\* The inductive invariant of the silences.
SilenceInv ==
    /\ SilenceTypeOK
    /\ PassesAreOrderly
    /\ ProviderCounts
    /\ \A r \in Requests : Paid(r)

\* The invariant holds initially.
LEMMA SilencesInitially == SilenceInit => SilenceInv
<1> SUFFICES ASSUME SilenceInit
             PROVE  SilenceInv
  OBVIOUS
<1> USE SilenceAssumption DEF SilenceAssumption
<1>1. provider \in [1..0 -> ProviderRow] /\ DOMAIN provider = {}
  BY DEF SilenceInit
<1>2. SilenceTypeOK
  BY <1>1 DEF SilenceInit, SilenceTypeOK, SilenceStates
<1>3. PassesAreOrderly
  BY DEF SilenceInit, PassesAreOrderly
<1>4. ASSUME NEW r \in Requests
      PROVE  Paid(r)
  <2>1. SilencesOf(r) = {} /\ Pursuing(r) = {} /\ mishaps[r] = 0
    BY <1>1 DEF SilenceInit, SilencesOf, Pursuing
  <2> QED
    BY <2>1, FS_EmptySet DEF Paid
<1> QED
  BY <1>1, <1>2, <1>3, <1>4 DEF SilenceInv, ProviderCounts

\* A row of silence_requests, and what the two endpoints leave of it.
SilenceRow == [state : SilenceStates, attempts : Nat, due : BOOLEAN,
               provider : ProviderIds \cup {NoId}]

LEMMA EndpointTypes ==
    ASSUME SilenceTypeOK, NEW r \in Requests, RequestSilence(r) \/ ExpireSilence(r) \/ ClaimLapses(r)
    PROVE  SilenceTypeOK'
<1>1. silence \in [Requests -> SilenceRow]
  BY DEF SilenceTypeOK, SilenceRow
<1>2. "pending" \in SilenceStates /\ "cancel_pending" \in SilenceStates
  BY DEF SilenceStates
<1>3. silence' \in [Requests -> SilenceRow]
  <2>1. CASE RequestSilence(r)
    BY <1>1, <1>2, <2>1 DEF RequestSilence, SilenceRow
  <2>2. CASE ExpireSilence(r)
    BY <1>1, <1>2, <2>2 DEF ExpireSilence, SilenceRow
  <2>3. CASE ClaimLapses(r)
    BY <1>1, <2>3 DEF ClaimLapses, SilenceRow
  <2> QED
    BY <2>1, <2>2, <2>3
<1>4. mishaps' \in [Requests -> 0..MaxMishaps]
  BY SilenceAssumption DEF SilenceAssumption, SilenceTypeOK, RequestSilence, ExpireSilence,
     ClaimLapses, MayMiss, SpentMishaps
<1>5. UNCHANGED <<silenced, held, provider>>
  BY DEF RequestSilence, ExpireSilence, ClaimLapses
<1> QED
  BY <1>3, <1>4, <1>5 DEF SilenceTypeOK, SilenceRow

\* Calls at the provider: of items that a pass holds.
Calls(w, i) == CreateSilence(w, i) \/ ExpireAtProvider(w, i)

\* The ends of an item.
Ends(w, i) == StillRetrying(w, i) \/ Finish(w, i) \/ FinishUnknown(w, i)

LEMMA CallTypes ==
    ASSUME SilenceTypeOK, ProviderCounts, NEW w \in Workers, NEW i \in held[w], Calls(w, i)
    PROVE  SilenceTypeOK' /\ ProviderCounts'
<1> USE SilenceAssumption DEF SilenceAssumption
<1>1. i \in Item /\ held \in [Workers -> SUBSET Item]
  BY DEF SilenceTypeOK
<1>2. PICK k \in Nat : provider \in [1..k -> ProviderRow]
  BY DEF ProviderCounts
<1>3. NewId = k + 1 /\ NewId \in ProviderIds
  <2>1. DOMAIN provider = 1..k
    BY <1>2
  <2>2. Cardinality(1..k) = k
    BY <1>2, FS_Interval
  <2> QED
    BY <1>2, <2>1, <2>2 DEF NewId, ProviderIds
<1>4. PICK outcome, id :
        /\ Answered(w, i, outcome, id)
        /\ outcome \in {"active", "retryable", "terminal", "refused"}
        /\ id \in ProviderIds \cup {NoId}
  <2>1. CASE CreateSilence(w, i)
    BY <1>3, <2>1 DEF CreateSilence
  <2>2. CASE ExpireAtProvider(w, i)
    BY <1>1, <2>2 DEF ExpireAtProvider, Item
  <2> QED
    BY <2>1, <2>2 DEF Calls
<1>5. held' \in [Workers -> SUBSET Item]
  <2>1. [i EXCEPT !.outcome = outcome, !.id = id] \in Item
    BY <1>1, <1>4 DEF Item
  <2> QED
    BY <1>1, <1>4, <2>1 DEF Answered
<1>6. mishaps' \in [Requests -> 0..MaxMishaps]
  <2>1. UNCHANGED mishaps \/ (MayMiss(i.request) /\ SpentMishaps(i.request))
    BY DEF Calls, CreateSilence, ExpireAtProvider
  <2>2. i.request \in Requests /\ mishaps \in [Requests -> 0..MaxMishaps]
    BY <1>1 DEF Item, SilenceTypeOK
  <2> QED
    BY <2>1, <2>2 DEF MayMiss, SpentMishaps
<1>7. \E l \in Nat : provider' \in [1..l -> ProviderRow]
  <2>1. CASE UNCHANGED provider
    BY <1>2, <2>1
  <2>2. CASE Created(i)
    <3>1. [request |-> i.request, live |-> TRUE] \in ProviderRow
      BY <1>1 DEF Item, ProviderRow
    <3>2. provider' \in [1..(k + 1) -> ProviderRow]
      BY <1>2, <1>3, <2>2, <3>1 DEF Created
    <3> QED
      BY <1>2, <3>2
  <2>3. CASE provider' = [provider EXCEPT ![i.provider].live = FALSE]
    <3>1. provider' \in [1..k -> ProviderRow]
      BY <1>2, <2>3 DEF ProviderRow
    <3> QED
      BY <3>1
  <2> QED
    BY <2>1, <2>2, <2>3 DEF Calls, CreateSilence, ExpireAtProvider
<1>8. UNCHANGED <<silence, silenced>>
  BY DEF Calls, CreateSilence, ExpireAtProvider
<1>9. DOMAIN provider' \subseteq ProviderIds
  BY <1>7 DEF ProviderIds
<1> QED
  BY <1>5, <1>6, <1>7, <1>8, <1>9 DEF SilenceTypeOK, ProviderCounts

LEMMA EndTypes ==
    ASSUME SilenceTypeOK, NEW w \in Workers, NEW i \in held[w], Ends(w, i)
    PROVE  SilenceTypeOK'
<1>1. i \in Item /\ held \in [Workers -> SUBSET Item] /\ silence \in [Requests -> SilenceRow]
  BY DEF SilenceTypeOK, SilenceRow
<1>2. i.request \in Requests /\ i.op \in Claimable /\ i.id \in ProviderIds \cup {NoId}
  BY <1>1 DEF Item
<1>3. held' = [held EXCEPT ![w] = @ \ {i}] /\ UNCHANGED <<provider, mishaps>>
  BY DEF Ends, StillRetrying, Finish, FinishUnknown
<1>4. held' \in [Workers -> SUBSET Item]
  BY <1>1, <1>3
<1>5. silence' \in [Requests -> SilenceRow] /\ silenced' \subseteq Requests
  <2>1. CASE StillRetrying(w, i)
    BY <1>1, <2>1 DEF StillRetrying, SilenceTypeOK
  <2>2. CASE Finish(w, i)
    <3>1. Decided(i) \in SilenceStates
      BY <1>2 DEF Decided, RetryState, SilenceStates, Claimable
    <3>2. silence' \in [Requests -> SilenceRow]
      BY <1>1, <1>2, <2>2, <3>1 DEF Finish, SilenceRow
    <3> QED
      BY <1>2, <2>2, <3>2 DEF Finish, SilenceTypeOK
  <2>3. CASE FinishUnknown(w, i)
    <3>1. "failed" \in SilenceStates
      BY DEF SilenceStates
    <3>2. silence' \in [Requests -> SilenceRow]
      BY <1>1, <1>2, <2>3, <3>1 DEF FinishUnknown, SilenceRow
    <3> QED
      BY <2>3, <3>2 DEF FinishUnknown, SilenceTypeOK
  <2> QED
    BY <2>1, <2>2, <2>3 DEF Ends
<1> QED
  BY <1>3, <1>4, <1>5 DEF SilenceTypeOK, SilenceRow

LEMMA ClaimTypes ==
    ASSUME SilenceTypeOK, NEW w \in Workers, NEW batch \in SUBSET Requests, Claim(w, batch)
    PROVE  SilenceTypeOK'
<1> USE SilenceAssumption DEF SilenceAssumption
<1>1. held \in [Workers -> SUBSET Item] /\ silence \in [Requests -> SilenceRow]
  BY DEF SilenceTypeOK, SilenceRow
<1>2. ASSUME NEW n \in Nat
      PROVE  Counted(n) \in Nat
  BY DEF Counted
<1>3. ASSUME NEW r \in batch
      PROVE  ItemOf(r) \in Item
  <2>1. /\ r \in Requests /\ silence[r] \in SilenceRow /\ silence[r].state \in Claimable
    BY <1>1, <1>3 DEF Claim, Due
  <2>2. Counted(silence[r].attempts) \in Nat
    BY <1>2, <2>1 DEF SilenceRow
  <2> QED
    BY <2>1, <2>2 DEF ItemOf, Item, SilenceRow
<1>4. held' \in [Workers -> SUBSET Item]
  BY <1>1, <1>3 DEF Claim
<1>5. ASSUME NEW r \in Requests
      PROVE  [silence[r] EXCEPT !.attempts = Counted(@), !.due = FALSE] \in SilenceRow
  <2>1. silence[r] \in SilenceRow /\ Counted(silence[r].attempts) \in Nat
    BY <1>1, <1>2 DEF SilenceRow
  <2> QED
    BY <2>1 DEF SilenceRow
<1>6. silence' \in [Requests -> SilenceRow]
  BY <1>1, <1>5 DEF Claim
<1>7. UNCHANGED <<silenced, provider, mishaps>>
  BY DEF Claim
<1> QED
  BY <1>4, <1>6, <1>7 DEF SilenceTypeOK, SilenceRow

\* The remaining two: a pass that dies, a silence that runs out.
LEMMA LossTypes ==
    ASSUME SilenceTypeOK, ProviderCounts,
           \/ \E w \in Workers : WorkerDies(w)
           \/ \E n \in DOMAIN provider : ProviderExpires(n)
    PROVE  SilenceTypeOK' /\ ProviderCounts'
<1>1. CASE \E w \in Workers : WorkerDies(w)
  <2> PICK w \in Workers : WorkerDies(w)
    BY <1>1
  <2>1. \A r \in Requests : mishaps[r] \in 0..MaxMishaps
    BY DEF SilenceTypeOK
  <2>2. \A r \in Requests : mishaps'[r] \in 0..MaxMishaps
    BY <2>1, SilenceAssumption DEF SilenceAssumption, WorkerDies, MayMiss
  <2>3. mishaps' \in [Requests -> 0..MaxMishaps]
    BY <2>2 DEF WorkerDies
  <2> QED
    BY <2>3 DEF WorkerDies, SilenceTypeOK, ProviderCounts
<1>2. CASE \E n \in DOMAIN provider : ProviderExpires(n)
  <2>1. PICK n \in DOMAIN provider : ProviderExpires(n)
    BY <1>2
  <2>2. PICK k \in Nat : provider \in [1..k -> ProviderRow]
    BY DEF ProviderCounts
  <2>3. provider' \in [1..k -> ProviderRow] /\ DOMAIN provider' = DOMAIN provider
    BY <2>1, <2>2 DEF ProviderExpires, ProviderRow
  <2>4. UNCHANGED <<silence, silenced, held, mishaps>>
    BY <2>1 DEF ProviderExpires
  <2> QED
    BY <2>2, <2>3, <2>4 DEF SilenceTypeOK, ProviderCounts
<1> QED
  BY <1>1, <1>2

\* Passes stay orderly: once a request is no longer to be created nothing
\* makes it so again, whatever the passes still hold of it.
LEMMA PassesStayOrderly ==
    ASSUME SilenceInv, SilenceNext
    PROVE  PassesAreOrderly'
<1>1. /\ silence \in [Requests -> SilenceRow] /\ held \in [Workers -> SUBSET Item]
      /\ \A w \in Workers : \A i \in held[w] : i.request \in Requests /\ i.op \in Claimable
  BY DEF SilenceInv, SilenceTypeOK, SilenceRow, Item
<1>2. ASSUME NEW r \in Requests, RequestSilence(r) \/ ExpireSilence(r) \/ ClaimLapses(r)
      PROVE  PassesAreOrderly'
  <2>1. /\ held' = held
        /\ \A q \in Requests : silence'[q].state \in {"none", "pending"}
                                 => silence[q].state \in {"none", "pending"}
    <3>1. CASE RequestSilence(r)
      BY <1>1, <3>1 DEF RequestSilence, SilenceRow
    <3>2. CASE ExpireSilence(r)
      BY <1>1, <3>2 DEF ExpireSilence, SilenceRow
    <3>3. CASE ClaimLapses(r)
      BY <1>1, <3>3 DEF ClaimLapses, SilenceRow
    <3> QED
      BY <1>2, <3>1, <3>2, <3>3
  <2> QED
    BY <1>1, <2>1 DEF SilenceInv, PassesAreOrderly
<1>3. ASSUME NEW w \in Workers, NEW i \in held[w], Calls(w, i)
      PROVE  PassesAreOrderly'
  <2>1. PICK outcome, id : Answered(w, i, outcome, id)
    BY <1>3 DEF Calls, CreateSilence, ExpireAtProvider
  <2> DEFINE j == [i EXCEPT !.outcome = outcome, !.id = id]
  <2>2. j.request = i.request /\ j.op = i.op
    BY <1>1 DEF Item
  <2> HIDE DEF j
  <2>3. held' = [held EXCEPT ![w] = (held[w] \ {i}) \cup {j}] /\ silence' = silence
    BY <1>1, <1>3, <2>1 DEF Answered, Calls, CreateSilence, ExpireAtProvider, j
  <2>4. held'[w] = (held[w] \ {i}) \cup {j} /\ \A v \in Workers \ {w} : held'[v] = held[v]
    BY <1>1, <2>3
  <2> QED
    BY <2>2, <2>3, <2>4 DEF SilenceInv, PassesAreOrderly
<1>4. ASSUME NEW w \in Workers, NEW i \in held[w], Ends(w, i)
      PROVE  PassesAreOrderly'
  <2>1. \A v \in Workers : held'[v] \subseteq held[v]
    BY <1>1, <1>4 DEF Ends, StillRetrying, Finish, FinishUnknown
  <2>2. \A q \in Requests : silence'[q].state \in {"none", "pending"}
                              => silence[q].state = silence'[q].state
    <3>1. CASE StillRetrying(w, i)
      BY <3>1 DEF StillRetrying
    <3>2. CASE Finish(w, i)
      <4>1. Decided(i) \notin {"none", "pending"}
        BY <1>1, <3>2 DEF Finish, Claimable, Decided, RetryState
      <4> QED
        BY <1>1, <3>2, <4>1 DEF Finish, SilenceRow
    <3>3. CASE FinishUnknown(w, i)
      BY <1>1, <3>3 DEF FinishUnknown, SilenceRow
    <3> QED
      BY <1>4, <3>1, <3>2, <3>3 DEF Ends
  <2> QED
    BY <1>1, <2>1, <2>2 DEF SilenceInv, PassesAreOrderly
<1>5. ASSUME NEW w \in Workers, NEW batch \in SUBSET Requests, Claim(w, batch)
      PROVE  PassesAreOrderly'
  <2>1. /\ held'[w] = {ItemOf(r) : r \in batch} /\ \A v \in Workers \ {w} : held'[v] = held[v]
    BY <1>1, <1>5 DEF Claim
  <2>2. \A r \in Requests : silence'[r].state = silence[r].state
    BY <1>1, <1>5 DEF Claim, SilenceRow
  <2>3. \A r \in Requests : ItemOf(r).request = r /\ ItemOf(r).op = silence[r].state
    BY DEF ItemOf
  <2>4. ASSUME NEW i \in held'[w]
        PROVE  /\ i.request \in Requests /\ i = ItemOf(i.request)
               /\ i.op = silence[i.request].state /\ i.op \in Claimable
    <3>1. PICK r \in batch : i = ItemOf(r)
      BY <2>1, <2>4
    <3>2. r \in Requests /\ silence[r].state \in Claimable
      BY <1>5, <3>1 DEF Claim, Due
    <3> QED
      BY <2>3, <3>1, <3>2
  <2>5. ASSUME NEW i \in held'[w]
        PROVE  /\ \A j \in held'[w] : i.request = j.request => i = j
               /\ silence'[i.request].state \in {"none", "pending"} => i.op = "pending"
    <3>1. i.op \in {"none", "pending"} => i.op = "pending"
      BY <2>4 DEF Claimable
    <3> QED
      BY <2>2, <2>4, <3>1
  <2>6. ASSUME NEW v \in Workers \ {w}, NEW i \in held'[v]
        PROVE  /\ \A j \in held'[v] : i.request = j.request => i = j
               /\ silence'[i.request].state \in {"none", "pending"} => i.op = "pending"
    BY <1>1, <2>1, <2>2 DEF SilenceInv, PassesAreOrderly
  <2> QED
    BY <2>5, <2>6 DEF PassesAreOrderly
<1>6. ASSUME NEW w \in Workers, WorkerDies(w)
      PROVE  PassesAreOrderly'
  BY <1>1, <1>6 DEF WorkerDies, SilenceInv, PassesAreOrderly
<1>7. ASSUME NEW n \in DOMAIN provider, ProviderExpires(n)
      PROVE  PassesAreOrderly'
  BY <1>7 DEF ProviderExpires, SilenceInv, PassesAreOrderly
<1> QED
  BY <1>2, <1>3, <1>4, <1>5, <1>6, <1>7 DEF SilenceNext, WorkerStep, Calls, Ends

\* What may be created of r without a mishap does not grow, or a mishap
\* paid for it.
LEMMA StaysPaid ==
    ASSUME SilenceTypeOK, SilenceTypeOK', NEW r \in Requests, Paid(r),
           SilencesOf(r)' = SilencesOf(r), Pursuing(r)' \subseteq Pursuing(r),
           \/ mishaps'[r] = mishaps[r] /\ (MayStart(r)' => MayStart(r))
           \/ mishaps'[r] = mishaps[r] + 1
    PROVE  Paid(r)'
<1>1. /\ IsFiniteSet(Pursuing(r)) /\ IsFiniteSet(Pursuing(r)') /\ IsFiniteSet(SilencesOf(r))
      /\ Cardinality(Pursuing(r)') <= Cardinality(Pursuing(r))
      /\ Cardinality(Pursuing(r)') \in Nat /\ Cardinality(Pursuing(r)) \in Nat
      /\ Cardinality(SilencesOf(r)) \in Nat
  BY FS_Subset, FS_CardinalityType DEF Paid
<1>2. mishaps[r] \in Nat
  BY SilenceAssumption DEF SilenceAssumption, SilenceTypeOK
<1>3. Cardinality(SilencesOf(r)) + Cardinality(Pursuing(r))
        + (IF MayStart(r) THEN 1 ELSE 0) <= 1 + mishaps[r]
  BY DEF Paid
<1>4. Cardinality(SilencesOf(r)') + Cardinality(Pursuing(r)')
        + (IF MayStart(r)' THEN 1 ELSE 0) <= 1 + mishaps'[r]
  <2>1. Cardinality(SilencesOf(r)') = Cardinality(SilencesOf(r))
    OBVIOUS
  <2> QED
    BY <1>1, <1>2, <1>3, <2>1
<1>5. IsFiniteSet(SilencesOf(r)')
  BY <1>1
<1> QED
  BY <1>1, <1>4, <1>5 DEF Paid

\* A worker that gives up leaves its right to somebody else.
LEMMA GivesUp ==
    ASSUME NEW r \in Requests, Paid(r), NEW w \in Pursuing(r),
           Pursuing(r)' \subseteq Pursuing(r) \ {w}
    PROVE  /\ IsFiniteSet(Pursuing(r)')
           /\ Cardinality(Pursuing(r)') \in Nat /\ Cardinality(Pursuing(r)) \in Nat
           /\ Cardinality(Pursuing(r)') + 1 <= Cardinality(Pursuing(r))
<1>1. IsFiniteSet(Pursuing(r)) /\ IsFiniteSet(Pursuing(r) \ {w})
  BY FS_RemoveElement DEF Paid
<1>2. Cardinality(Pursuing(r) \ {w}) = Cardinality(Pursuing(r)) - 1
  BY <1>1, FS_RemoveElement
<1>3. IsFiniteSet(Pursuing(r)') /\ Cardinality(Pursuing(r)') <= Cardinality(Pursuing(r) \ {w})
  BY <1>1, FS_Subset
<1> QED
  BY <1>1, <1>2, <1>3, FS_CardinalityType

\* The endpoints and the lapse of a claim.
LEMMA EndpointsPaid ==
    ASSUME SilenceInv, SilenceTypeOK', NEW r \in Requests, NEW q \in Requests,
           RequestSilence(q) \/ ExpireSilence(q) \/ ClaimLapses(q)
    PROVE  Paid(r)'
<1>1. /\ silence \in [Requests -> SilenceRow] /\ mishaps \in [Requests -> 0..MaxMishaps]
      /\ SilenceTypeOK /\ Paid(r)
  BY DEF SilenceInv, SilenceTypeOK, SilenceRow
<1>2. UNCHANGED <<held, provider>>
  BY DEF RequestSilence, ExpireSilence, ClaimLapses
<1>3. /\ SilencesOf(r)' = SilencesOf(r) /\ Pursuing(r)' = Pursuing(r)
      /\ Holding(r)' = Holding(r)
  BY <1>2 DEF SilencesOf, Pursuing, Holding
<1>4. CASE RequestSilence(q)
  <2>1. mishaps' = mishaps /\ silence' = [silence EXCEPT ![q].state = "pending", ![q].due = TRUE]
    BY <1>4 DEF RequestSilence
  <2>2. q = r => MayStart(r)
    BY <1>4 DEF RequestSilence, MayStart
  <2>3. q # r => silence'[r] = silence[r]
    BY <1>1, <2>1
  <2>4. MayStart(r)' => MayStart(r)
    BY <1>3, <2>2, <2>3 DEF MayStart
  <2> QED
    BY <1>1, <1>3, <2>1, <2>4, StaysPaid
<1>5. CASE ExpireSilence(q)
  <2>1. /\ mishaps' = mishaps
        /\ silence' = [silence EXCEPT ![q].state = "cancel_pending", ![q].due = TRUE]
    BY <1>5 DEF ExpireSilence
  <2>2. q = r => silence'[r].state = "cancel_pending"
    BY <1>1, <2>1 DEF SilenceRow
  <2>3. q # r => silence'[r] = silence[r]
    BY <1>1, <2>1
  <2>4. MayStart(r)' => MayStart(r)
    BY <1>3, <2>2, <2>3 DEF MayStart
  <2> QED
    BY <1>1, <1>3, <2>1, <2>4, StaysPaid
<1>6. CASE ClaimLapses(q)
  <2>1. /\ silence' = [silence EXCEPT ![q].due = TRUE]
        /\ IF Holding(q) THEN mishaps' = [mishaps EXCEPT ![q] = @ + 1] ELSE mishaps' = mishaps
    BY <1>6 DEF ClaimLapses, Holding, SpentMishaps
  <2>2. q = r => silence'[r].state = silence[r].state
    BY <1>1, <2>1 DEF SilenceRow
  <2>3. q # r => silence'[r] = silence[r]
    BY <1>1, <2>1
  <2>4. CASE q = r /\ Holding(q)
    BY <1>1, <1>3, <2>1, <2>4, StaysPaid
  <2>5. CASE ~(q = r /\ Holding(q))
    <3>1. mishaps'[r] = mishaps[r]
      BY <1>1, <2>1, <2>5
    <3>2. MayStart(r)' => MayStart(r)
      BY <1>3, <2>2, <2>3, <2>5 DEF MayStart
    <3> QED
      BY <1>1, <1>3, <3>1, <3>2, StaysPaid
  <2> QED
    BY <2>4, <2>5
<1> QED
  BY <1>4, <1>5, <1>6

\* A claim takes the right to start, and the row is no longer due.
LEMMA ClaimPaid ==
    ASSUME SilenceInv, SilenceTypeOK', NEW r \in Requests, NEW w \in Workers,
           NEW batch \in SUBSET Requests, Claim(w, batch)
    PROVE  Paid(r)'
<1>1. /\ silence \in [Requests -> SilenceRow] /\ held \in [Workers -> SUBSET Item]
      /\ mishaps \in [Requests -> 0..MaxMishaps] /\ SilenceTypeOK /\ Paid(r)
  BY DEF SilenceInv, SilenceTypeOK, SilenceRow
<1>2. /\ held[w] = {} /\ held'[w] = {ItemOf(q) : q \in batch}
      /\ \A v \in Workers \ {w} : held'[v] = held[v]
      /\ UNCHANGED <<provider, mishaps>>
      /\ \A q \in batch : silence[q].state \in Claimable /\ silence[q].due
  BY <1>1 DEF Claim, Due
<1>3. \A q \in Requests :
        ItemOf(q).request = q /\ ItemOf(q).op = silence[q].state /\ ItemOf(q).outcome = "none"
  BY DEF ItemOf
<1>4. SilencesOf(r)' = SilencesOf(r)
  BY <1>2 DEF SilencesOf
<1>5. CASE r \in batch /\ silence[r].state = "pending"
  <2>1. ItemOf(r) \in held'[w]
    BY <1>2, <1>5
  <2>2. silence'[r].state = "pending" /\ silence'[r].due = FALSE
    BY <1>1, <1>5 DEF Claim, SilenceRow
  <2>3. Holding(r)'
    BY <1>3, <2>1 DEF Holding
  <2>4. ~MayStart(r)'
    BY <2>2, <2>3 DEF MayStart
  <2>5. MayStart(r)
    BY <1>2, <1>5 DEF MayStart
  <2>6. Pursuing(r)' \subseteq Pursuing(r) \cup {w} /\ w \notin Pursuing(r)
    BY <1>2 DEF Pursuing
  <2>7. IsFiniteSet(Pursuing(r)) /\ IsFiniteSet(Pursuing(r) \cup {w})
    BY <1>1, FS_AddElement DEF Paid
  <2>8. Cardinality(Pursuing(r) \cup {w}) = Cardinality(Pursuing(r)) + 1
    BY <2>6, <2>7, FS_AddElement
  <2>9. /\ IsFiniteSet(Pursuing(r)')
        /\ Cardinality(Pursuing(r)') <= Cardinality(Pursuing(r)) + 1
        /\ Cardinality(Pursuing(r)') \in Nat /\ Cardinality(Pursuing(r)) \in Nat
    BY <2>6, <2>7, <2>8, FS_Subset, FS_CardinalityType
  <2>10. IsFiniteSet(SilencesOf(r)) /\ Cardinality(SilencesOf(r)) \in Nat /\ mishaps[r] \in Nat
    BY <1>1, FS_CardinalityType, SilenceAssumption DEF Paid, SilenceAssumption
  <2>11. Cardinality(SilencesOf(r)) + Cardinality(Pursuing(r)) + 1 <= 1 + mishaps[r]
    BY <1>1, <2>5 DEF Paid
  <2>12. Cardinality(SilencesOf(r)') + Cardinality(Pursuing(r)') + 0 <= 1 + mishaps'[r]
    <3>1. Cardinality(SilencesOf(r)') = Cardinality(SilencesOf(r)) /\ mishaps'[r] = mishaps[r]
      BY <1>2, <1>4
    <3> QED
      BY <2>9, <2>10, <2>11, <3>1
  <2> QED
    BY <1>4, <2>4, <2>9, <2>10, <2>12 DEF Paid
<1>6. CASE r \in batch /\ silence[r].state # "pending"
  <2>1. silence[r].state = "cancel_pending" /\ silence'[r].state = "cancel_pending"
    BY <1>1, <1>2, <1>6 DEF Claim, SilenceRow, Claimable
  <2>2. ~MayStart(r)'
    BY <2>1 DEF MayStart
  <2>3. \A i \in held'[w] : i.request = r => i.op # "pending"
    BY <1>2, <1>3, <2>1
  <2>4. Pursuing(r)' \subseteq Pursuing(r)
    BY <1>2, <2>3 DEF Pursuing
  <2> QED
    BY <1>1, <1>2, <1>4, <2>2, <2>4, StaysPaid
<1>7. CASE r \notin batch
  <2>1. \A i \in held'[w] : i.request # r
    BY <1>2, <1>3, <1>7
  <2>2. Pursuing(r)' \subseteq Pursuing(r)
    BY <1>2, <2>1 DEF Pursuing
  <2>3. Holding(r) => Holding(r)'
    BY <1>2 DEF Holding
  <2>4. silence'[r] = silence[r]
    BY <1>7 DEF Claim
  <2>5. MayStart(r)' => MayStart(r)
    BY <2>3, <2>4 DEF MayStart
  <2> QED
    BY <1>1, <1>2, <1>4, <2>2, <2>5, StaysPaid
<1> QED
  BY <1>5, <1>6, <1>7

\* A call at the provider spends the right it was claimed with - or a
\* mishap, when the answer is lost.
LEMMA CallPaid ==
    ASSUME SilenceInv, SilenceTypeOK', NEW r \in Requests, NEW w \in Workers,
           NEW i \in held[w], Calls(w, i)
    PROVE  Paid(r)'
<1>1. /\ held \in [Workers -> SUBSET Item] /\ mishaps \in [Requests -> 0..MaxMishaps]
      /\ SilenceTypeOK /\ Paid(r) /\ i \in Item /\ i.request \in Requests
      /\ silence' = silence
  BY DEF SilenceInv, SilenceTypeOK, Item, Calls, CreateSilence, ExpireAtProvider
<1>2. PICK k \in Nat : provider \in [1..k -> ProviderRow]
  BY DEF SilenceInv, ProviderCounts
<1>3. PICK outcome, id :
        /\ Answered(w, i, outcome, id)
        /\ \/ /\ Created(i) /\ i.op = "pending"
              /\ \/ outcome \in {"active", "terminal"} /\ UNCHANGED mishaps
                 \/ SpentMishaps(i.request)
           \/ /\ UNCHANGED mishaps
              /\ UNCHANGED provider \/ provider' = [provider EXCEPT ![i.provider].live = FALSE]
  <2>1. CASE CreateSilence(w, i)
    BY <2>1 DEF CreateSilence
  <2>2. CASE ExpireAtProvider(w, i)
    BY <2>2 DEF ExpireAtProvider
  <2> QED
    BY <2>1, <2>2 DEF Calls
<1> DEFINE j == [i EXCEPT !.outcome = outcome, !.id = id]
<1>4. j.request = i.request /\ j.op = i.op /\ j.outcome = outcome
  BY <1>1 DEF Item
<1>5. held'[w] = (held[w] \ {i}) \cup {j} /\ \A v \in Workers \ {w} : held'[v] = held[v]
  BY <1>1, <1>3 DEF Answered
<1> HIDE DEF j
<1>6. Holding(r) => Holding(r)'
  BY <1>4, <1>5 DEF Holding
<1>7. MayStart(r)' => MayStart(r)
  BY <1>1, <1>6 DEF MayStart
<1>8. i.outcome = "none" /\ \A q \in held[w] : q.request = i.request => q = i
  BY DEF Calls, CreateSilence, ExpireAtProvider, SilenceInv, PassesAreOrderly
<1>9. Pursuing(r)' \subseteq Pursuing(r)
  BY <1>4, <1>5, <1>8 DEF Pursuing
<1>10. CASE SilencesOf(r)' = SilencesOf(r)
  <2>1. mishaps'[r] = mishaps[r] \/ mishaps'[r] = mishaps[r] + 1
    BY <1>1, <1>3 DEF SpentMishaps
  <2> QED
    BY <1>1, <1>7, <1>9, <1>10, <2>1, StaysPaid
<1>11. CASE ~Created(i)
  <2>1. \A n \in DOMAIN provider : provider'[n].request = provider[n].request
    BY <1>2, <1>3, <1>11 DEF ProviderRow
  <2>2. DOMAIN provider' = DOMAIN provider
    BY <1>2, <1>3, <1>11
  <2>3. SilencesOf(r)' = SilencesOf(r)
    BY <2>1, <2>2 DEF SilencesOf
  <2> QED
    BY <1>10, <2>3
<1>12. CASE Created(i)
  <2>1. NewId \notin DOMAIN provider /\ DOMAIN provider' = DOMAIN provider \cup {NewId}
    <3>1. DOMAIN provider = 1..k
      BY <1>2
    <3>2. Cardinality(1..k) = k
      <4>1. 1 \in Int /\ k \in Int
        OBVIOUS
      <4>2. Cardinality(1..k) = IF 1 > k THEN 0 ELSE (k - 1) + 1
        BY <4>1, FS_Interval, Zenon
      <4> QED
        BY <4>1, <4>2
    <3> QED
      BY <1>12, <3>1, <3>2 DEF NewId, Created
  <2>2. /\ provider'[NewId] = [request |-> i.request, live |-> TRUE]
        /\ \A n \in DOMAIN provider : provider'[n] = provider[n]
    BY <1>12, <2>1 DEF Created
  <2>3. CASE i.request # r \/ i.op # "pending"
    <3>1. SilencesOf(r)' = SilencesOf(r)
      BY <1>3, <2>1, <2>2, <2>3 DEF SilencesOf
    <3> QED
      BY <1>10, <3>1
  <2>4. CASE i.request = r /\ i.op = "pending"
    <3>1. SilencesOf(r)' = SilencesOf(r) \cup {NewId} /\ NewId \notin SilencesOf(r)
      BY <2>1, <2>2, <2>4 DEF SilencesOf
    <3>2. IsFiniteSet(SilencesOf(r)) /\ IsFiniteSet(SilencesOf(r)')
      BY <1>1, <3>1, FS_AddElement DEF Paid
    <3>3. /\ Cardinality(SilencesOf(r)') = Cardinality(SilencesOf(r)) + 1
          /\ Cardinality(SilencesOf(r)) \in Nat
      BY <3>1, <3>2, FS_AddElement, FS_CardinalityType
    <3>4. w \in Pursuing(r)
      BY <1>8, <2>4 DEF Pursuing
    <3>5. mishaps[r] \in Nat
      BY <1>1, SilenceAssumption DEF SilenceAssumption
    <3>6. Cardinality(SilencesOf(r)) + Cardinality(Pursuing(r))
            + (IF MayStart(r) THEN 1 ELSE 0) <= 1 + mishaps[r]
      BY <1>1 DEF Paid
    <3>7. CASE outcome \in {"active", "terminal"} /\ UNCHANGED mishaps
      <4>1. w \notin Pursuing(r)'
        BY <1>4, <1>5, <1>8, <2>4, <3>7 DEF Pursuing
      <4>2. Pursuing(r)' \subseteq Pursuing(r) \ {w}
        BY <1>9, <4>1
      <4>3. /\ IsFiniteSet(Pursuing(r)')
            /\ Cardinality(Pursuing(r)') \in Nat /\ Cardinality(Pursuing(r)) \in Nat
            /\ Cardinality(Pursuing(r)') + 1 <= Cardinality(Pursuing(r))
        BY <1>1, <3>4, <4>2, GivesUp
      <4>4. Cardinality(SilencesOf(r)') + Cardinality(Pursuing(r)')
              + (IF MayStart(r)' THEN 1 ELSE 0) <= 1 + mishaps'[r]
        BY <1>7, <3>3, <3>5, <3>6, <3>7, <4>3
      <4> QED
        BY <3>2, <4>3, <4>4 DEF Paid
    <3>8. CASE SpentMishaps(i.request)
      <4>1. /\ IsFiniteSet(Pursuing(r)) /\ IsFiniteSet(Pursuing(r)')
            /\ Cardinality(Pursuing(r)') \in Nat /\ Cardinality(Pursuing(r)) \in Nat
            /\ Cardinality(Pursuing(r)') <= Cardinality(Pursuing(r))
        BY <1>1, <1>9, FS_Subset, FS_CardinalityType DEF Paid
      <4>2. mishaps'[r] = mishaps[r] + 1
        BY <1>1, <2>4, <3>8 DEF SpentMishaps
      <4>3. Cardinality(SilencesOf(r)') + Cardinality(Pursuing(r)')
              + (IF MayStart(r)' THEN 1 ELSE 0) <= 1 + mishaps'[r]
        BY <1>7, <3>3, <3>5, <3>6, <4>1, <4>2
      <4> QED
        BY <3>2, <4>1, <4>3 DEF Paid
    <3>9. CASE UNCHANGED <<provider>> \/ provider' = [provider EXCEPT ![i.provider].live = FALSE]
      BY <1>2, <2>1, <3>9
    <3> QED
      BY <1>3, <3>7, <3>8, <3>9
  <2> QED
    BY <2>3, <2>4
<1> QED
  BY <1>11, <1>12

\* An item comes to its end: tried again later it leaves its right behind.
LEMMA EndPaid ==
    ASSUME SilenceInv, SilenceTypeOK', NEW r \in Requests, NEW w \in Workers,
           NEW i \in held[w], Ends(w, i)
    PROVE  Paid(r)'
<1>1. /\ held \in [Workers -> SUBSET Item] /\ mishaps \in [Requests -> 0..MaxMishaps]
      /\ SilenceTypeOK /\ Paid(r) /\ i.request \in Requests /\ i.op \in Claimable
      /\ silence \in [Requests -> SilenceRow]
  BY DEF SilenceInv, SilenceTypeOK, SilenceRow, Item
<1>2. held'[w] = held[w] \ {i} /\ \A v \in Workers \ {w} : held'[v] = held[v]
  BY <1>1 DEF Ends, StillRetrying, Finish, FinishUnknown
<1>3. UNCHANGED <<provider, mishaps>>
  BY DEF Ends, StillRetrying, Finish, FinishUnknown
<1>4. SilencesOf(r)' = SilencesOf(r) /\ Pursuing(r)' \subseteq Pursuing(r)
  BY <1>2, <1>3 DEF SilencesOf, Pursuing
<1>5. CASE r # i.request
  <2>1. silence'[r] = silence[r]
    BY <1>1, <1>5 DEF Ends, StillRetrying, Finish, FinishUnknown
  <2>2. Holding(r) => Holding(r)'
    BY <1>2, <1>5 DEF Holding
  <2> QED
    BY <1>1, <1>3, <1>4, <2>1, <2>2, StaysPaid DEF MayStart
<1>6. CASE r = i.request /\ StillRetrying(w, i)
  <2>1. silence' = silence
    BY <1>6 DEF StillRetrying
  <2>2. CASE silence[r].state \in {"none", "pending"}
    <3>1. i.op = "pending" /\ \A q \in held[w] : q.request = r => q = i
      BY <1>6, <2>2 DEF SilenceInv, PassesAreOrderly
    <3>2. i.outcome = "retryable"
      BY <1>6, <3>1 DEF StillRetrying, Decided, RetryState, Claimable
    <3>3. w \in Pursuing(r)
      BY <1>6, <3>1, <3>2 DEF Pursuing
    <3>4. w \notin Pursuing(r)'
      BY <1>2, <3>1 DEF Pursuing
    <3>5. Pursuing(r)' \subseteq Pursuing(r) \ {w}
      BY <1>4, <3>4
    <3>6. /\ IsFiniteSet(Pursuing(r)')
          /\ Cardinality(Pursuing(r)') \in Nat /\ Cardinality(Pursuing(r)) \in Nat
          /\ Cardinality(Pursuing(r)') + 1 <= Cardinality(Pursuing(r))
      BY <1>1, <3>3, <3>5, GivesUp
    <3>7. /\ IsFiniteSet(SilencesOf(r)) /\ Cardinality(SilencesOf(r)) \in Nat
          /\ mishaps[r] \in Nat
          /\ Cardinality(SilencesOf(r)) + Cardinality(Pursuing(r))
               + (IF MayStart(r) THEN 1 ELSE 0) <= 1 + mishaps[r]
      BY <1>1, FS_CardinalityType, SilenceAssumption DEF Paid, SilenceAssumption
    <3>8. Cardinality(SilencesOf(r)') = Cardinality(SilencesOf(r)) /\ mishaps'[r] = mishaps[r]
      BY <1>3, <1>4
    <3>9. Cardinality(SilencesOf(r)') + Cardinality(Pursuing(r)')
            + (IF MayStart(r)' THEN 1 ELSE 0) <= 1 + mishaps'[r]
      BY <3>6, <3>7, <3>8
    <3> QED
      BY <1>4, <3>6, <3>7, <3>9 DEF Paid
  <2>3. CASE silence[r].state \notin {"none", "pending"}
    BY <1>1, <1>3, <1>4, <2>1, <2>3, StaysPaid DEF MayStart
  <2> QED
    BY <2>2, <2>3
<1>7. CASE r = i.request /\ (Finish(w, i) \/ FinishUnknown(w, i))
  <2>1. silence'[r].state \notin {"none", "pending"}
    <3>1. CASE Finish(w, i)
      <4>1. Decided(i) \notin {"none", "pending"}
        BY <1>1, <3>1 DEF Finish, Claimable, Decided, RetryState
      <4> QED
        BY <1>1, <1>7, <3>1, <4>1 DEF Finish, SilenceRow
    <3>2. CASE FinishUnknown(w, i)
      BY <1>1, <1>7, <3>2 DEF FinishUnknown, SilenceRow
    <3> QED
      BY <1>7, <3>1, <3>2
  <2> QED
    BY <1>1, <1>3, <1>4, <2>1, StaysPaid DEF MayStart
<1> QED
  BY <1>5, <1>6, <1>7 DEF Ends

\* A pass that dies costs each of its requests a mishap; a silence that runs
\* out was still created.
LEMMA LossPaid ==
    ASSUME SilenceInv, SilenceTypeOK', NEW r \in Requests,
           \/ \E w \in Workers : WorkerDies(w)
           \/ \E n \in DOMAIN provider : ProviderExpires(n)
    PROVE  Paid(r)'
<1>1. /\ held \in [Workers -> SUBSET Item] /\ mishaps \in [Requests -> 0..MaxMishaps]
      /\ SilenceTypeOK /\ Paid(r) /\ silence' = silence
  BY DEF SilenceInv, SilenceTypeOK, WorkerDies, ProviderExpires
<1>2. CASE \E w \in Workers : WorkerDies(w)
  <2>1. PICK w \in Workers : WorkerDies(w)
    BY <1>2
  <2>2. /\ held'[w] = {} /\ \A v \in Workers \ {w} : held'[v] = held[v]
        /\ provider' = provider
        /\ mishaps'[r] = IF \E i \in held[w] : i.request = r THEN mishaps[r] + 1
                         ELSE mishaps[r]
    BY <1>1, <2>1 DEF WorkerDies
  <2>3. SilencesOf(r)' = SilencesOf(r) /\ Pursuing(r)' \subseteq Pursuing(r)
    BY <2>2 DEF SilencesOf, Pursuing
  <2>4. CASE \E i \in held[w] : i.request = r
    BY <1>1, <2>2, <2>3, <2>4, StaysPaid
  <2>5. CASE ~ \E i \in held[w] : i.request = r
    <3>1. Holding(r) => Holding(r)'
      BY <2>2, <2>5 DEF Holding
    <3> QED
      BY <1>1, <2>2, <2>3, <2>5, <3>1, StaysPaid DEF MayStart
  <2> QED
    BY <2>4, <2>5
<1>3. CASE \E n \in DOMAIN provider : ProviderExpires(n)
  <2>1. PICK n \in DOMAIN provider : ProviderExpires(n)
    BY <1>3
  <2>2. PICK k \in Nat : provider \in [1..k -> ProviderRow]
    BY DEF SilenceInv, ProviderCounts
  <2>3. \A q \in DOMAIN provider : provider'[q].request = provider[q].request
    BY <2>1, <2>2 DEF ProviderExpires, ProviderRow
  <2>4. SilencesOf(r)' = SilencesOf(r)
    BY <2>1, <2>3 DEF SilencesOf, ProviderExpires
  <2>5. UNCHANGED <<held, mishaps>>
    BY <2>1 DEF ProviderExpires
  <2>6. Pursuing(r)' = Pursuing(r) /\ Holding(r)' = Holding(r)
    BY <2>5 DEF Pursuing, Holding
  <2> QED
    BY <1>1, <2>4, <2>5, <2>6, StaysPaid DEF MayStart
<1> QED
  BY <1>2, <1>3

\* Every step keeps the invariant.
LEMMA SilenceStep ==
    SilenceInv /\ [SilenceNext]_silenceVars => SilenceInv'
<1> SUFFICES ASSUME SilenceInv, [SilenceNext]_silenceVars
             PROVE  SilenceInv'
  OBVIOUS
<1>1. CASE UNCHANGED silenceVars
  <2>1. SilenceTypeOK' /\ PassesAreOrderly' /\ ProviderCounts'
    BY <1>1 DEF silenceVars, SilenceInv, SilenceTypeOK, PassesAreOrderly, ProviderCounts
  <2>2. ASSUME NEW r \in Requests
        PROVE  Paid(r)'
    BY <1>1, <2>1, StaysPaid
    DEF silenceVars, SilenceInv, SilencesOf, Pursuing, MayStart, Holding
  <2> QED
    BY <2>1, <2>2 DEF SilenceInv
<1>2. CASE SilenceNext
  <2>1. SilenceTypeOK /\ ProviderCounts
    BY DEF SilenceInv
  <2>2. PassesAreOrderly'
    BY <1>2, PassesStayOrderly
  <2>3. ASSUME NEW q \in Requests, RequestSilence(q) \/ ExpireSilence(q) \/ ClaimLapses(q)
        PROVE  SilenceInv'
    <3>1. ProviderCounts'
      BY <2>1, <2>3 DEF ProviderCounts, RequestSilence, ExpireSilence, ClaimLapses
    <3>2. SilenceTypeOK'
      BY <2>1, <2>3, EndpointTypes
    <3> QED
      BY <2>2, <2>3, <3>1, <3>2, EndpointsPaid DEF SilenceInv
  <2>4. ASSUME NEW w \in Workers, NEW batch \in SUBSET Requests, Claim(w, batch)
        PROVE  SilenceInv'
    <3>1. ProviderCounts'
      BY <2>1, <2>4 DEF ProviderCounts, Claim
    <3>2. SilenceTypeOK'
      BY <2>1, <2>4, ClaimTypes
    <3> QED
      BY <2>2, <2>4, <3>1, <3>2, ClaimPaid DEF SilenceInv
  <2>5. ASSUME NEW w \in Workers, NEW i \in held[w], Calls(w, i)
        PROVE  SilenceInv'
    <3>1. SilenceTypeOK' /\ ProviderCounts'
      BY <2>1, <2>5, CallTypes
    <3> QED
      BY <2>2, <2>5, <3>1, CallPaid DEF SilenceInv
  <2>6. ASSUME NEW w \in Workers, NEW i \in held[w], Ends(w, i)
        PROVE  SilenceInv'
    <3>1. ProviderCounts'
      BY <2>1, <2>6 DEF ProviderCounts, Ends, StillRetrying, Finish, FinishUnknown
    <3>2. SilenceTypeOK'
      BY <2>1, <2>6, EndTypes
    <3> QED
      BY <2>2, <2>6, <3>1, <3>2, EndPaid DEF SilenceInv
  <2>7. CASE (\E w \in Workers : WorkerDies(w)) \/ \E n \in DOMAIN provider : ProviderExpires(n)
    <3>1. SilenceTypeOK' /\ ProviderCounts'
      BY <2>1, <2>7, LossTypes
    <3> QED
      BY <2>2, <2>7, <3>1, LossPaid DEF SilenceInv
  <2> QED
    BY <1>2, <2>3, <2>4, <2>5, <2>6, <2>7 DEF SilenceNext, WorkerStep, Calls, Ends
<1> QED
  BY <1>1, <1>2

\* For any number of requests and workers: one request is one silence at
\* Alertmanager, and every further one was paid for by a lost answer, an
\* overrun claim or a worker that died (silences.py _claim, _finish).
THEOREM OneSilencePerRequest == SilenceSpec => []OneSilencePerMishap
<1>1. SilenceInv => OneSilencePerMishap
  <2> SUFFICES ASSUME SilenceInv, NEW r \in Requests
               PROVE  Cardinality(SilencesOf(r)) <= 1 + mishaps[r]
    BY DEF SilenceInv, OneSilencePerMishap, SilencesOf
  <2>1. Cardinality(SilencesOf(r)) \in Nat /\ Cardinality(Pursuing(r)) \in Nat
    BY FS_CardinalityType DEF SilenceInv, Paid
  <2>2. mishaps[r] \in Nat
    BY SilenceAssumption DEF SilenceAssumption, SilenceInv, SilenceTypeOK
  <2> QED
    BY <2>1, <2>2 DEF SilenceInv, Paid
<1> QED
  BY <1>1, SilencesInitially, SilenceStep, PTL DEF SilenceSpec

----------------------------------------------------------------------------
(* Certificate renewal: types.                                             *)

\* The initial state is well typed.
LEMMA TypeInit == RenewalInit => RenewalTypeOK
  <1> SUFFICES ASSUME RenewalInit PROVE RenewalTypeOK
      OBVIOUS
  <1>1. 0 \in Renewals /\ 0 \in 0..MaxFaults
        BY RenewalAssumption DEF RenewalAssumption, Renewals
  <1> QED BY <1>1 DEF RenewalInit, RenewalTypeOK

\* No step of the agent breaks a type.
LEMMA TypeAgent == RenewalTypeOK /\ AgentStep => RenewalTypeOK'
  <1> SUFFICES ASSUME RenewalTypeOK, AgentStep PROVE RenewalTypeOK'
      OBVIOUS
  <1> USE RenewalAssumption DEF RenewalAssumption, RenewalTypeOK, Renewals, Goto
  <1>1. CASE Start BY <1>1 DEF Start, serverVars, diskVars, netVars
  <1>2. CASE SettlePending
        BY <1>2 DEF SettlePending, PostActivate, serverVars, diskVars
  <1>3. CASE Renew BY <1>3 DEF Renew, serverVars, diskVars
  <1>4. CASE Prepared BY <1>4 DEF Prepared, serverVars, diskVars, netVars
  <1>5. CASE SaveBundle BY <1>5 DEF SaveBundle, serverVars, netVars
  <1>6. CASE SetPending BY <1>6 DEF SetPending, PostActivate, serverVars
  <1>7. CASE Activated BY <1>7 DEF Activated, serverVars, diskVars, netVars
  <1>8. CASE Promote BY <1>8 DEF Promote, serverVars, netVars
  <1>9. CASE FinishRenewal BY <1>9 DEF FinishRenewal, serverVars, netVars
  <1>10. CASE Discard BY <1>10 DEF Discard, serverVars, netVars
  <1> QED BY <1>1, <1>2, <1>3, <1>4, <1>5, <1>6, <1>7, <1>8, <1>9, <1>10
          DEF AgentStep

\* No transaction of the server breaks a type.
LEMMA TypeServer == RenewalTypeOK /\ ServerStep => RenewalTypeOK'
  <1> SUFFICES ASSUME RenewalTypeOK, ServerStep PROVE RenewalTypeOK'
      OBVIOUS
  <1> USE RenewalAssumption DEF RenewalAssumption, RenewalTypeOK, Renewals
  <1>1. CASE \E m \in prepares : Authenticate(m)
        BY <1>1 DEF Authenticate, serverVars, diskVars
  <1>2. CASE \E n \in authenticated : PrepareTxn(n)
        BY <1>2 DEF PrepareTxn, diskVars
  <1>3. CASE \E n \in activations : ActivateTxn(n)
        BY <1>3 DEF ActivateTxn, serverVars, diskVars, netVars
  <1> QED BY <1>1, <1>2, <1>3 DEF ServerStep

\* Neither does time or a fault.
LEMMA TypeFault ==
    RenewalTypeOK /\ (\/ ExpirePending \/ LoseAnswer \/ GiveUp \/ DiskError
               \/ ExpireCertificate \/ Crash) => RenewalTypeOK'
  <1>1. RenewalTypeOK /\ Fault => faults' \in 0..MaxFaults
        BY RenewalAssumption DEF RenewalAssumption, RenewalTypeOK, Fault
  <1> QED BY <1>1
          DEF RenewalTypeOK, Goto, ExpirePending, LoseAnswer, GiveUp, DiskError,
              ExpireCertificate, Crash, serverVars, diskVars, netVars

\* Every step keeps the types.
LEMMA TypeNext == RenewalTypeOK /\ [RenewalNext]_renewalVars => RenewalTypeOK'
  <1> SUFFICES ASSUME RenewalTypeOK, [RenewalNext]_renewalVars PROVE RenewalTypeOK'
      OBVIOUS
  <1>1. CASE UNCHANGED renewalVars
        BY <1>1 DEF RenewalTypeOK, renewalVars, serverVars, diskVars, netVars
  <1> QED BY <1>1, TypeAgent, TypeServer, TypeFault DEF RenewalNext

\* The database columns, the state directory and the process variables of a
\* renewal keep their types, however it is interrupted.
THEOREM TypeCorrect == RenewalSpec => []RenewalTypeOK
  BY TypeInit, TypeNext, PTL DEF RenewalSpec

----------------------------------------------------------------------------
(* Certificate renewal: the inductive invariant.                           *)

\* What the agent knows at each point of its program.
Program ==
    /\ pending # None => pending = attempt
    /\ pc \in {"preparing", "save", "point"} =>
          /\ pending = None
          /\ attempt \notin activations
          /\ public_key < attempt
    /\ pc \in {"activating", "promote", "clear", "discard"} => pending = attempt
    /\ \A n \in activations : n <= attempt
    /\ public_key <= attempt

\* The slot holds one renewal, newer than the trusted key.
Slot ==
    pending_public_key # None =>
        /\ pending_public_key = pending_renewal_id
        /\ pending_public_key > public_key

\* A key that may still be promoted is on the agent's disk.
Promotable ==
    \A n \in activations : PendingLive /\ pending_renewal_id = n => pending = n

\* Where the trusted key is, and when the agent may act on it.
Trusted ==
    /\ \/ public_key = current
       \/ /\ public_key = pending
          /\ pending_renewal_id = pending
          /\ pending_public_key = None
    /\ pc = "promote" \/ pc = "clear" \/ (pc = "activating" /\ answer = "ok") =>
          public_key = attempt
    /\ pc = "clear" => current = attempt
    /\ pc = "discard" \/ (pc = "activating" /\ answer = "refused") =>
          /\ public_key = current
          /\ ~(PendingLive /\ pending_renewal_id = attempt)

\* The files the agent points at, or is about to point at, are complete.
Files ==
    /\ PointersLoad
    /\ pc \in {"point", "activating", "promote", "clear", "discard"} =>
          attempt \in bundles

RenewalInv == RenewalTypeOK /\ Program /\ Slot /\ Promotable /\ Trusted /\ Files

\* The enrolled agent starts within the invariant.
LEMMA InvInit == RenewalInit => RenewalInv
  BY TypeInit, RenewalAssumption
  DEF RenewalAssumption, RenewalInit, RenewalInv, Program, Slot, Promotable,
      Trusted, Files,
      PointersLoad, PendingLive, Renewals

\* Every step of the agent keeps the invariant.
LEMMA InvAgent == RenewalInv /\ AgentStep => RenewalInv'
  <1> SUFFICES ASSUME RenewalInv, AgentStep PROVE RenewalInv'
      OBVIOUS
  <1>0. RenewalTypeOK' BY TypeAgent DEF RenewalInv
  <1> USE <1>0, RenewalAssumption
      DEF RenewalAssumption, RenewalInv, RenewalTypeOK, Renewals, Program, Slot,
          Promotable, Trusted,
          Files, PointersLoad, PendingLive, Goto
  <1>1. CASE Start BY <1>1 DEF Start, serverVars, diskVars, netVars
  <1>2. CASE SettlePending
        BY <1>2 DEF SettlePending, PostActivate, serverVars, diskVars
  <1>3. CASE Renew BY <1>3 DEF Renew, serverVars, diskVars
  <1>4. CASE Prepared BY <1>4 DEF Prepared, serverVars, diskVars, netVars
  <1>5. CASE SaveBundle BY <1>5 DEF SaveBundle, serverVars, netVars
  <1>6. CASE SetPending BY <1>6 DEF SetPending, PostActivate, serverVars
  <1>7. CASE Activated BY <1>7 DEF Activated, serverVars, diskVars, netVars
  <1>8. CASE Promote
    <2>1. attempt \in bundles' /\ pending \in bundles'
          BY <1>8 DEF Promote, Pruned
    <2> QED BY <1>8, <2>1 DEF Promote, serverVars, netVars
  <1>9. CASE FinishRenewal BY <1>9 DEF FinishRenewal, serverVars, netVars
  <1>10. CASE Discard BY <1>10 DEF Discard, serverVars, netVars
  <1> QED BY <1>1, <1>2, <1>3, <1>4, <1>5, <1>6, <1>7, <1>8, <1>9, <1>10
          DEF AgentStep

\* Every transaction of the server keeps it, if no prepare comes late.
LEMMA InvServer ==
    ASSUME ~LatePrepares
    PROVE  RenewalInv /\ ServerStep => RenewalInv'
  <1> SUFFICES ASSUME RenewalInv, ServerStep PROVE RenewalInv'
      OBVIOUS
  <1>0. RenewalTypeOK' BY TypeServer DEF RenewalInv
  <1> USE <1>0, RenewalAssumption
      DEF RenewalAssumption, RenewalInv, RenewalTypeOK, Renewals, Program, Slot,
          Promotable, Trusted,
          Files, PointersLoad, PendingLive
  <1>1. CASE \E m \in prepares : Authenticate(m)
        BY <1>1 DEF Authenticate, serverVars, diskVars
  <1>2. CASE \E n \in authenticated : PrepareTxn(n)
    <2> PICK n \in authenticated : PrepareTxn(n)
        BY <1>2
    <2>1. n = attempt /\ pc = "preparing" /\ pending = None
          BY DEF PrepareTxn
    <2>2. Program' /\ Trusted' /\ Files'
          BY <2>1 DEF PrepareTxn, diskVars
    <2>3. Slot'
          BY <2>1 DEF PrepareTxn, diskVars
    <2>4. Promotable'
          BY <2>1 DEF PrepareTxn, diskVars
    <2> QED BY <2>2, <2>3, <2>4
  <1>3. ASSUME NEW n \in activations, ActivateTxn(n) PROVE RenewalInv'
    <2>1. CASE ActivateResult(n) = "promoted"
      <3>1. /\ n = pending /\ n = attempt
            /\ n = pending_public_key /\ n = pending_renewal_id
            /\ PendingLive
            BY <2>1 DEF ActivateResult
      <3>2. /\ public_key' = n
            /\ pending_public_key' = None
            /\ pending_renewal_id' = n
            /\ UNCHANGED <<diskVars, pc, attempt, activations>>
            /\ answer' \in {answer, "ok"}
            BY <1>3, <2>1, <3>1 DEF ActivateTxn, netVars
      <3>3. pc \notin {"preparing", "save", "point", "discard"}
            BY <3>1
      <3>4. ~(pc = "activating" /\ answer' = "refused")
            BY <3>1, <3>2
      <3>5. Program' /\ Slot' /\ Promotable'
            BY <3>1, <3>2, <3>3 DEF diskVars
      <3>6. Trusted' /\ Files'
            BY <3>1, <3>2, <3>3, <3>4 DEF diskVars
      <3> QED BY <3>5, <3>6
    <2>2. CASE ActivateResult(n) # "promoted"
      <3>1. ActivateResult(n) = "acknowledged" => public_key = n
            BY DEF ActivateResult
      <3>2. ActivateResult(n) \in {"promoted", "acknowledged", "refused"}
            BY DEF ActivateResult
      <3>3. ActivateResult(n) = "refused" /\ n = attempt /\ pending = attempt =>
               /\ public_key = current
               /\ ~(PendingLive /\ pending_renewal_id = n)
            BY DEF ActivateResult
      <3> QED BY <1>3, <2>2, <3>1, <3>2, <3>3
              DEF ActivateTxn, serverVars, diskVars, netVars
    <2> QED BY <2>1, <2>2
  <1> QED BY <1>1, <1>2, <1>3 DEF ServerStep

\* Expiry, lost answers, disk errors and crashes keep it.
LEMMA InvFault ==
    RenewalInv /\ (\/ ExpirePending \/ LoseAnswer \/ GiveUp \/ DiskError
                   \/ ExpireCertificate \/ Crash) => RenewalInv'
  <1> SUFFICES ASSUME RenewalInv, \/ ExpirePending \/ LoseAnswer \/ GiveUp
                                  \/ DiskError \/ ExpireCertificate \/ Crash
               PROVE  RenewalInv'
      OBVIOUS
  <1>0. RenewalTypeOK' BY TypeFault DEF RenewalInv
  <1> USE <1>0, RenewalAssumption
      DEF RenewalAssumption, RenewalInv, RenewalTypeOK, Renewals, Program, Slot,
          Promotable, Trusted,
          Files, PointersLoad, PendingLive, Goto
  <1>1. CASE ExpirePending BY <1>1 DEF ExpirePending, diskVars
  <1>2. CASE LoseAnswer BY <1>2 DEF LoseAnswer, serverVars, diskVars, netVars
  <1>3. CASE GiveUp BY <1>3 DEF GiveUp, serverVars, diskVars, netVars
  <1>4. CASE DiskError BY <1>4 DEF DiskError, serverVars, diskVars, netVars
  <1>5. CASE ExpireCertificate
        BY <1>5 DEF ExpireCertificate, diskVars, netVars
  <1>6. CASE Crash BY <1>6 DEF Crash, serverVars, diskVars, netVars
  <1> QED BY <1>1, <1>2, <1>3, <1>4, <1>5, <1>6

\* The invariant is inductive.
LEMMA InvNext ==
    ASSUME ~LatePrepares
    PROVE  RenewalInv /\ [RenewalNext]_renewalVars => RenewalInv'
  <1> SUFFICES ASSUME RenewalInv, [RenewalNext]_renewalVars PROVE RenewalInv'
      OBVIOUS
  <1>1. CASE UNCHANGED renewalVars
        BY <1>1
        DEF RenewalInv, RenewalTypeOK, Program, Slot, Promotable, Trusted, Files,
            PointersLoad, PendingLive, renewalVars, serverVars, diskVars, netVars
  <1> QED BY <1>1, InvAgent, InvServer, InvFault DEF RenewalNext

\* It holds throughout.
LEMMA InvAlways ==
    ASSUME ~LatePrepares
    PROVE  RenewalSpec => []RenewalInv
  BY InvInit, InvNext, PTL DEF RenewalSpec

----------------------------------------------------------------------------
(* Certificate renewal: the theorems.                                      *)

\* A lost answer, a crash or an expiry at any step of a renewal leaves the
\* agent with the trusted key on its disk, as its identity or as a pending
\* one the server still acknowledges (activate_certificate's second branch).
THEOREM LostAnswersRecover ==
    ASSUME ~LatePrepares
    PROVE  RenewalSpec => []LostAnswerRecoverable
  <1>1. RenewalInv => LostAnswerRecoverable
        BY RenewalAssumption
        DEF RenewalAssumption, RenewalInv, RenewalTypeOK, Renewals, Trusted,
            LostAnswerRecoverable,
            ActivateResult, PendingLive
  <1> QED BY <1>1, InvAlways, PTL

\* The guarantee of ADR-0016 holds as long as no prepare comes late.
THEOREM AgentNotStranded ==
    ASSUME ~LatePrepares
    PROVE  RenewalSpec => []NeverStranded
  <1>1. RenewalInv => NeverStranded
        BY DEF RenewalInv, Trusted, NeverStranded
  <1> QED BY <1>1, InvAlways, PTL

\* The pointer files name complete bundles after every step, every crash and
\* every pruning (store.go).
THEOREM PointersAlwaysLoad ==
    ASSUME ~LatePrepares
    PROVE  RenewalSpec => []PointersLoad
  <1>1. RenewalInv => PointersLoad
        BY DEF RenewalInv, Files
  <1> QED BY <1>1, InvAlways, PTL

\* Whatever step it is interrupted at, the agent restarts with an identity it
\* can load and can reach the trusted key from.
THEOREM AlwaysRecovers ==
    ASSUME ~LatePrepares
    PROVE  RenewalSpec => []AlwaysRecoverable
  BY LostAnswersRecover, PointersAlwaysLoad, PTL DEF AlwaysRecoverable

\* A late activation of an abandoned renewal never brings an older key back.
THEOREM KeysOnlyMoveForward ==
    ASSUME ~LatePrepares
    PROVE  RenewalSpec => KeysMoveForward
  <1>1. RenewalInv /\ [RenewalNext]_renewalVars => [ForwardStep]_renewalVars
    <2> SUFFICES ASSUME RenewalInv, RenewalNext PROVE ForwardStep
        BY DEF ForwardStep
    <2> USE RenewalAssumption
        DEF RenewalAssumption, RenewalInv, RenewalTypeOK, Renewals, ForwardStep
    <2>1. CASE AgentStep
          BY <2>1
          DEF AgentStep, Start, SettlePending, Renew, Prepared, SaveBundle,
              SetPending, Activated, Promote, FinishRenewal, Discard, serverVars
    <2>2. CASE ServerStep
      <3>1. ASSUME NEW n \in activations, ActivateTxn(n) PROVE ForwardStep
            BY <3>1 DEF ActivateTxn, ActivateResult, Slot, serverVars,
                        PendingLive
      <3> QED BY <2>2, <3>1 DEF ServerStep, Authenticate, PrepareTxn,
                                serverVars
    <2> QED BY <2>1, <2>2
            DEF RenewalNext, ExpirePending, LoseAnswer, GiveUp, DiskError,
                ExpireCertificate, Crash, serverVars
  <1> QED BY <1>1, InvAlways, PTL DEF RenewalSpec, KeysMoveForward
=============================================================================
