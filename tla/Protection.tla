----------------------------- MODULE Protection ------------------------------
(***************************************************************************)
(* The Protection Center: a connector reports what its backup provider     *)
(* did, Drake projects it, judges each policy on two axes and keeps an     *)
(* incident for the ones in trouble.                                       *)
(* (protection/ingest.py, model.py, service.py, router_ingest.py)          *)
(*                                                                         *)
(* The provider's facts are a story fixed at the start; each may be        *)
(* delivered late, twice, out of order or never, live or in a page of a    *)
(* reconciliation snapshot. An event is applied in one transaction, one    *)
(* action here; an evaluation reads its evidence statement by statement,   *)
(* looks for an open incident and then writes, and nothing holds what it   *)
(* read in place.                                                          *)
(***************************************************************************)
EXTENDS Naturals, FiniteSets, Sequences

CONSTANTS Policies,      \* enabled backup policies of the connector
          PolicyPlaces,    \* where policies may be: functions to the workload binding their
                         \* incidents carry, Unbound, or Nowhere
          Promises,      \* policy -> [rpo, ttl, offsite, integrity]
          Stories,       \* what a provider may report: functions from event ids to facts
          NewTypes,      \* of those ids, the ones of a type that an older Drake does not know
          Handlers,      \* requests served at the same time
          STALE_AFTER,   \* how long a silent reporter is trusted
          MaxHour,       \* bound: the clock
          MaxIncidents,  \* bound: incidents ever opened
          Unbound,       \* no binding, no artifact, no policy
          Nowhere        \* the policy names no environment

ASSUME ProtectionAssumption ==
  /\ STALE_AFTER \in Nat /\ MaxHour \in Nat \ {0} /\ MaxIncidents \in Nat
  /\ Promises \in [Policies -> [rpo: Nat, ttl: Nat, offsite: BOOLEAN, integrity: BOOLEAN]]
  /\ Unbound \notin Policies
  /\ \A place \in PolicyPlaces : DOMAIN place = Policies

VARIABLES
  hour,         \* the clock
  story,        \* the provider's facts: event id -> fact
  place,        \* backup_policies: where each policy's incidents belong
  events,       \* protection_ingest_events: event id -> outcome
  heardAt,      \* when the last applied event was received, 0 when none was
  evidence,     \* the projections: identity -> row
  went,         \* history: accepted event id -> identity of the row it was about
  snapshot,     \* the reconciliation: none, open, completed
  handlers,     \* where each request is
  judged,       \* protection_evaluations: policy -> its newest row
  incidents     \* incidents of source protection, in the order they opened

protectionVars == <<hour, story, place, events, heardAt, evidence, went, snapshot, handlers,
                    judged, incidents>>

(* A fact: what it is about, what it says, when the provider says it       *)
(* happened, and for a run when that run started. The run of a check or a  *)
(* copy is the provider's knowledge: its event names the artifact's key    *)
(* only. A drill is of no run; it may name the key of what it restored.    *)
Kinds == {"run", "artifact", "integrity", "copy", "drill"}

IsFact(fact) ==
  /\ fact.kind \in Kinds /\ fact.policy \in Policies /\ fact.at \in Nat
  /\ fact.value \in CASE fact.kind = "run" -> {"started", "succeeded", "failed"}
                      [] fact.kind = "artifact" -> {"present", "missing", "expired"}
                      [] fact.kind = "integrity" -> {"passed", "failed", "skipped"}
                      [] fact.kind = "copy" -> {"present", "pending", "missing", "failed"}
                      [] fact.kind = "drill" -> {"passed", "slow", "failed", "partial"}
  /\ fact.kind = "drill" => fact.run = Unbound

ASSUME StoryAssumption == \A told \in Stories : \A e \in DOMAIN told : IsFact(told[e])

\* The key by which the event names an artifact.
Names(fact) == IF fact.kind = "drill" THEN fact.restored ELSE fact.key

-----------------------------------------------------------------------------
(* ingest.py: applying one event                                           *)

Rows(kind) == {id \in DOMAIN evidence : id.kind = kind}

Newest(ids) == CHOOSE id \in ids : \A other \in ids : evidence[other].at <= evidence[id].at

Id(kind, run, key) == [kind |-> kind, run |-> run, key |-> key]

\* Evidence about an artifact names only its key, which is unique within a run: the
\* newest artifact with it, of any run of the connector, is taken.
artifact_id(key) == Newest({id \in Rows("artifact") : id.key = key})

Identity(fact) ==
  CASE fact.kind \in {"run", "artifact"} -> Id(fact.kind, fact.run, fact.key)
    [] fact.kind = "drill" -> Id("drill", Unbound, fact.key)
    [] OTHER -> Id(fact.kind, artifact_id(fact.key).run, fact.key)

\* A run must be known before its artifact, and an artifact before its checks, its
\* copies and the drills that name it.
ParentKnown(fact) ==
  CASE fact.kind = "run" -> TRUE
    [] fact.kind = "artifact" -> \E id \in Rows("run") : id.run = fact.run
    [] fact.kind = "drill" /\ Names(fact) = Unbound -> TRUE
    [] OTHER -> \E id \in Rows("artifact") : id.key = Names(fact)

\* Wrong variant: what arrives last is current.
NotOlderAlways(fact) == TRUE

\* A replayed older event never drags the projection backwards.
NotOlder(fact) ==
  Identity(fact) \in DOMAIN evidence => evidence[Identity(fact)].at <= fact.at

RowOf(fact) ==
  [policy |-> fact.policy, value |-> fact.value, at |-> fact.at, start |-> fact.start]

\* The start of a run is the one its first event told.
Merged(fact) ==
  IF Identity(fact) \in DOMAIN evidence
    THEN [RowOf(fact) EXCEPT !.start = evidence[Identity(fact)].start] ELSE RowOf(fact)

\* The event id is the idempotency key. A rejection rolls its claim back, so the
\* same event may succeed once its parent has arrived.
apply_event(e) ==
  LET fact == story[e]  outcome == IF NotOlder(fact) THEN "applied" ELSE "ignored_stale" IN
  /\ fact.at <= hour
  /\ e \notin DOMAIN events /\ ParentKnown(fact)
  /\ events' = [id \in DOMAIN events \cup {e} |-> IF id = e THEN outcome ELSE events[id]]
  /\ heardAt' = IF outcome = "applied" THEN hour ELSE heardAt
  /\ went' = [id \in DOMAIN went \cup {e} |-> IF id = e THEN Identity(fact) ELSE went[id]]
  /\ evidence' = IF outcome = "applied"
                   THEN [id \in DOMAIN evidence \cup {Identity(fact)} |->
                           IF id = Identity(fact) THEN Merged(fact) ELSE evidence[id]]
                   ELSE evidence

\* An event of a type this Drake does not know is refused for good: the rejection is
\* recorded under the event's id, and a redelivery, also after an upgrade, is a duplicate.
unknown_type(e) ==
  /\ e \in NewTypes /\ e \in DOMAIN story \ DOMAIN events /\ story[e].at <= hour
  /\ events' = [id \in DOMAIN events \cup {e} |-> IF id = e THEN "rejected" ELSE events[id]]
  /\ UNCHANGED <<hour, story, place, heardAt, evidence, went, snapshot, handlers, judged,
                 incidents>>

-----------------------------------------------------------------------------
(* model.py and gather_evidence: the verdict                               *)

Of(kind, p) == {id \in Rows(kind) : evidence[id].policy = p}

Succeeded(p) == {id \in Of("run", p) : evidence[id].value = "succeeded"}

LatestAttempt(p) ==
  CHOOSE id \in Of("run", p) :
    \A other \in Of("run", p) : evidence[other].start <= evidence[id].start

AttemptFailed(p) == Of("run", p) # {} /\ evidence[LatestAttempt(p)].value = "failed"

\* The newest artifact any successful run of the policy left.
Artifacts(p) == {id \in Of("artifact", p) : \E run \in Succeeded(p) : run.run = id.run}

Says(kind, artifact) ==
  LET id == Id(kind, artifact.run, artifact.key)
  IN  IF id \in DOMAIN evidence THEN evidence[id].value ELSE "none"

OF_ARTIFACT == {"artifact_missing", "integrity_missing", "integrity_failed", "offsite_missing"}

\* What the newest artifact is short of: the first that applies.
artifact_reason(p) ==
  IF Artifacts(p) = {} \/ evidence[Newest(Artifacts(p))].value = "missing"
    THEN "artifact_missing"
  ELSE LET check == Says("integrity", Newest(Artifacts(p))) IN
       IF Promises[p].integrity /\ check = "none" THEN "integrity_missing"
       ELSE IF check = "failed" \/ (Promises[p].integrity /\ check # "passed")
         THEN "integrity_failed"
       ELSE IF Promises[p].offsite /\ Says("copy", Newest(Artifacts(p))) # "present"
         THEN "offsite_missing"
       ELSE "none"

\* The recoverability axis, from the newest drill.
drill_reason(p, now) ==
  IF Of("drill", p) = {} THEN "restore_never_verified"
  ELSE LET drill == evidence[Newest(Of("drill", p))] IN
       CASE drill.value = "failed" -> "restore_failed"
         [] drill.value = "partial" -> "restore_never_verified"
         [] drill.value \in {"passed", "slow"} ->
              IF drill.at + Promises[p].ttl < now THEN "restore_verification_expired"
              ELSE IF drill.value = "slow" THEN "rto_exceeded" ELSE "none"

\* The statements of one evaluation and what each, read alone, speaks for.
Statements == <<"reporter", "attempt", "success", "artifact", "drill">>

Found(statement, p, now) ==
  CASE statement = "reporter" ->
         {r \in {"reporter_stale"} : heardAt = 0 \/ heardAt + STALE_AFTER < now}
    [] statement = "attempt"  -> {r \in {"latest_run_failed"} : AttemptFailed(p)}
    [] statement = "success"  ->
         {r \in {"backup_overdue"} :
            Succeeded(p) = {} \/ evidence[Newest(Succeeded(p))].at + Promises[p].rpo < now}
    [] statement = "artifact" -> {artifact_reason(p)} \ {"none"}
    [] statement = "drill"    -> {drill_reason(p, now)} \ {"none"}

\* Without a live reporter every other signal is a memory; of the backup axis the first
\* reason counts: a failed run, then an old one, then its artifact.
evaluate_protection(found) ==
  IF "reporter_stale" \in found THEN {"reporter_stale"}
  ELSE IF "latest_run_failed" \in found THEN found \ ({"backup_overdue"} \cup OF_ARTIFACT)
  ELSE IF "backup_overdue" \in found THEN found \ OF_ARTIFACT ELSE found

INCIDENT_REASONS == {"backup_overdue", "latest_run_failed", "integrity_failed", "offsite_missing",
                     "restore_failed", "restore_verification_expired"}

overall_state(why) ==
  CASE "reporter_stale" \in why -> "unknown"
    [] "reporter_stale" \notin why /\ why \cap {"latest_run_failed", "restore_failed"} # {} ->
         "failed"
    [] OTHER ->
         IF "backup_overdue" \in why THEN "overdue"
         ELSE IF why \cap OF_ARTIFACT # {} THEN "at_risk"
         ELSE IF why = {} THEN "recoverable_verified" ELSE "protected_unverified"

-----------------------------------------------------------------------------
(* router_ingest.py: the requests                                          *)

AtEase == [pc |-> "idle", left |-> {}, read |-> 0, why |-> {}, at |-> 0, seen |-> FALSE,
           policy |-> Unbound]

\* Only an applied event is followed by an evaluation of the connector's policies;
\* a duplicate, like a rejection, changes nothing and ends the request.
ingest_event(h, e) ==
  /\ handlers[h].pc = "idle" /\ apply_event(e)
  /\ handlers' = IF events'[e] = "applied"
                   THEN [handlers EXCEPT ![h] = [AtEase EXCEPT !.pc = "due", !.left = Policies]]
                   ELSE handlers
  /\ UNCHANGED <<hour, story, place, snapshot, judged, incidents>>

begin_snapshot ==
  /\ snapshot = "none" /\ snapshot' = "open"
  /\ UNCHANGED <<hour, story, place, events, heardAt, evidence, went, handlers, judged, incidents>>

\* A page applies its events as the live stream would, each in its own
\* transaction, whether or not the snapshot is still open.
snapshot_page(e) ==
  /\ snapshot # "none" /\ apply_event(e)
  /\ UNCHANGED <<hour, story, place, snapshot, handlers, judged, incidents>>

complete_snapshot(h) ==
  /\ handlers[h].pc = "idle" /\ snapshot = "open" /\ snapshot' = "completed"
  /\ handlers' = [handlers EXCEPT ![h] = [AtEase EXCEPT !.pc = "due", !.left = Policies]]
  /\ UNCHANGED <<hour, story, place, events, heardAt, evidence, went, judged, incidents>>

-----------------------------------------------------------------------------
(* service.py: evaluate_policy, statement by statement                     *)

Evaluating == UNCHANGED <<hour, story, place, events, heardAt, evidence, went, snapshot>>

\* The moment is taken before anything is read.
evaluate_policy(h, p) ==
  /\ handlers[h].pc = "due" /\ p \in handlers[h].left
  /\ handlers' = [handlers EXCEPT ![h] =
       [AtEase EXCEPT !.pc = "reading", !.left = handlers[h].left \ {p}, !.at = hour, !.policy = p]]
  /\ Evaluating /\ UNCHANGED <<judged, incidents>>

\* Each statement sees what is committed by then; the last is followed by the verdict.
gather_evidence(h) ==
  LET me    == handlers[h]
      found == me.why \cup Found(Statements[me.read + 1], me.policy, me.at)
      last  == me.read + 1 = Len(Statements)
  IN
  /\ me.pc = "reading"
  /\ handlers' = [handlers EXCEPT ![h] =
       IF last THEN [me EXCEPT !.pc = "judging", !.read = 0, !.why = evaluate_protection(found)]
               ELSE [me EXCEPT !.read = me.read + 1, !.why = found]]
  /\ Evaluating /\ UNCHANGED <<judged, incidents>>

Active(p) == {n \in DOMAIN incidents : incidents[n].policy = p /\ incidents[n].open}

\* The look for an active incident locks the row it finds, if it finds one. There is
\* no look for a policy that is nowhere.
LookForIncident(h) ==
  LET p == handlers[h].policy IN
  /\ handlers[h].pc = "judging"
  /\ \A other \in Handlers : ~(handlers[other].seen /\ handlers[other].policy = p)
  /\ handlers' = [handlers EXCEPT ![h].pc = "looked",
                                  ![h].seen = place[p] # Nowhere /\ Active(p) # {}]
  /\ Evaluating /\ UNCHANGED <<judged, incidents>>

\* The unique indexes: one active incident per policy, and one per bound workload.
IndexAllows(p) ==
  \A n \in DOMAIN incidents : incidents[n].open =>
    /\ incidents[n].policy # p
    /\ place[p] # Unbound => place[incidents[n].policy] # place[p]

\* The verdict and the incident, committed together. The newest row by the
\* moment it was evaluated for is the one shown. There is nothing to file an incident
\* against for a policy that is nowhere.
sync_incident(h) ==
  LET me == handlers[h]  p == me.policy  problem == me.why \cap INCIDENT_REASONS # {} IN
  /\ me.pc = "looked"
  /\ judged' = IF me.at >= judged[p].at
                 THEN [judged EXCEPT ![p] = [overall |-> overall_state(me.why), at |-> me.at]]
                 ELSE judged
  /\ \/ /\ problem /\ ~me.seen /\ place[p] # Nowhere /\ IndexAllows(p)
        /\ Len(incidents) < MaxIncidents
        /\ incidents' = Append(incidents, [policy |-> p, open |-> TRUE])
     \/ /\ problem /\ (me.seen \/ place[p] = Nowhere \/ ~IndexAllows(p)) /\ UNCHANGED incidents
     \/ /\ ~problem
        /\ incidents' = [n \in DOMAIN incidents |->
             IF me.seen /\ n \in Active(p) THEN [incidents[n] EXCEPT !.open = FALSE]
                                           ELSE incidents[n]]
  /\ handlers' = [handlers EXCEPT ![h] =
       [AtEase EXCEPT !.pc = IF me.left = {} THEN "idle" ELSE "due", !.left = me.left]]
  /\ Evaluating

\* An evaluation raises, which is only logged, or its process dies with it.
EvaluationFails(h) ==
  /\ handlers[h].pc # "idle"
  /\ \E left \in {{}, handlers[h].left} :
       handlers' = [handlers EXCEPT ![h] =
         IF left = {} THEN AtEase ELSE [AtEase EXCEPT !.pc = "due", !.left = left]]
  /\ Evaluating /\ UNCHANGED <<judged, incidents>>

HourPasses ==
  /\ hour < MaxHour /\ hour' = hour + 1
  /\ UNCHANGED <<story, place, events, heardAt, evidence, went, snapshot, handlers, judged,
                 incidents>>

-----------------------------------------------------------------------------
ProtectionInit ==
  /\ hour = 1 /\ story \in Stories /\ place \in PolicyPlaces /\ events = <<>> /\ heardAt = 0
  /\ evidence = <<>> /\ went = <<>> /\ snapshot = "none" /\ incidents = <<>>
  /\ handlers = [h \in Handlers |-> AtEase]
  /\ judged = [p \in Policies |-> [overall |-> "none", at |-> 0]]

ProtectionNext ==
  \/ HourPasses \/ begin_snapshot
  \/ \E e \in DOMAIN story : snapshot_page(e) \/ unknown_type(e)
  \/ \E h \in Handlers :
       \/ \E e \in DOMAIN story : ingest_event(h, e)
       \/ complete_snapshot(h) \/ (\E p \in Policies : evaluate_policy(h, p))
       \/ gather_evidence(h) \/ LookForIncident(h) \/ sync_incident(h) \/ EvaluationFails(h)

ProtectionSpec == ProtectionInit /\ [][ProtectionNext]_protectionVars

-----------------------------------------------------------------------------
(* Properties                                                              *)

ProtectionTypeOK ==
  /\ hour \in 1..MaxHour /\ \A e \in DOMAIN story : IsFact(story[e])
  /\ \A e \in DOMAIN events : events[e] \in {"applied", "ignored_stale", "rejected"}
  /\ \A id \in DOMAIN evidence : id.kind \in Kinds /\ evidence[id].policy \in Policies
  /\ \A n \in DOMAIN incidents : incidents[n].policy \in Policies

Accepted == {e \in DOMAIN events : events[e] # "rejected"}

\* The identity of what the provider means.
Entity(e) == Id(story[e].kind, story[e].run, story[e].key)

\* The provider gives a key to one artifact, of one run.
OneArtifactPerKey == \A e, o \in DOMAIN story :
  /\ {story[e].kind, story[o].kind} \subseteq {"artifact", "integrity", "copy"}
  /\ story[e].key = story[o].key
  => story[e].run = story[o].run

\* Every row says what the provider said last of all that went to it.
NewestWordStands == \A e \in Accepted :
  LET same == {o \in Accepted : went[o] = went[e]}
  IN  \E last \in same : /\ \A o \in same : story[o].at <= story[last].at
                         /\ evidence[went[e]].value = story[last].value

\* The order of arrival is forgotten: what is projected about a run, an artifact or a
\* drill is what the provider said last about it, of all that was accepted, whatever
\* was late, repeated, or first refused for want of a parent. A check or a copy names
\* its artifact by key alone: it goes to the right one whatever the order when no other
\* run has an artifact of that key, and otherwise where the order of arrival sends it.
ArrivalOrderIsForgotten ==
  /\ ProtectionTypeOK /\ NewestWordStands
  /\ \A e \in Accepted :
       story[e].kind \in {"run", "artifact", "drill"} \/ OneArtifactPerKey => went[e] = Entity(e)

-----------------------------------------------------------------------------
(* Stated by the documents, and not kept by the code: TLC refutes what     *)
(* follows (README, section 6).                                            *)

\* "A green job with no artifact is not protected": a policy judged protected has
\* the artifact of its newest successful run.
ProtectedByItsOwnArtifact == [][\A h \in Handlers, p \in Policies :
  handlers[h].pc = "reading" /\ handlers'[h].pc = "judging" /\ handlers[h].policy = p
    /\ overall_state(handlers'[h].why) \in {"recoverable_verified", "protected_unverified"}
    => \E id \in Of("artifact", p) : id.run = Newest(Succeeded(p)).run]_protectionVars

\* "Evidence for one store never stands in for another": what is told of the artifact
\* of one policy is recorded with an artifact of that policy.
EvidenceStaysWithItsStore == \A e \in Accepted :
  story[e].kind \in {"integrity", "copy"} =>
    evidence[Id("artifact", went[e].run, went[e].key)].policy = story[e].policy

\* "One incident per policy per active problem": the evaluation that finds a problem
\* leaves an active incident for its policy.
ProblemHasItsIncident == [][\A h \in Handlers, p \in Policies :
  handlers[h].pc = "looked" /\ handlers[h].policy = p /\ judged' # judged
    /\ handlers'[h].pc # "looked" /\ handlers[h].why \cap INCIDENT_REASONS # {}
    => \E n \in DOMAIN incidents' : incidents'[n] = [policy |-> p, open |-> TRUE]]_protectionVars

\* "An open snapshot changes nothing. Only `complete` makes its contents the
\* current picture."
OpenSnapshotChangesNothing ==
  [][snapshot = "open" /\ UNCHANGED handlers => UNCHANGED evidence]_protectionVars
=============================================================================
