----------------------------- MODULE AlertIngest -----------------------------
(***************************************************************************)
(* An Alertmanager notification becoming alert rows, alert events and      *)
(* incidents (alerting/ingest.py apply_delivery, alerting/model.py, the    *)
(* webhook of alerting/router_webhook.py and the tables of migration       *)
(* 0017).                                                                  *)
(*                                                                         *)
(* Alertmanager is external: it knows the current fact of each alert,      *)
(* groups facts into payloads as it likes, and a payload it composed may   *)
(* arrive late, twice, after a newer one, or never.                        *)
(*                                                                         *)
(* apply_delivery is one transaction.  A row it finds is locked from the   *)
(* read to the commit, so reading it at the commit is the same.  A row it  *)
(* does not find is not locked: another delivery may insert it before this *)
(* one writes.  So a delivery takes two steps: in the first it finds some  *)
(* of its alerts absent, in the second it does everything else.            *)
(***************************************************************************)
EXTENDS Naturals, FiniteSets, FiniteSetsExt

CONSTANTS
    Fingerprints,   \* alert identities of one integration
    LabelsOf,       \* [Fingerprints -> the labels the identity stands for]
    Catalogs,       \* the catalog states an import may produce
    OwnProject,     \* the project the integration is registered against
    MaxMoment,      \* bound on the moments alerts start and end at
    MaxSent,        \* bound on the payloads Alertmanager composes
    NoValue         \* an absent label, an absent row, SQL NULL

Moments == 1..MaxMoment

SEVERITY_PRIORITY ==
    [critical |-> "P1", high |-> "P2", medium |-> "P3", info |-> "P4"]
UNKNOWN_SEVERITY_PRIORITY == "P3"
INCIDENT_PRIORITIES == {"P1", "P2"}

\* The labels that decide anything; safe_labels drops or keeps the others
\* and a value that looks like a link is no value.
LabelNames == {"project", "environment", "service", "cluster", "severity",
               "signal"}
IsLabels(l) == DOMAIN l = LabelNames

PriorityOf(f) ==
    IF LabelsOf[f].severity \in DOMAIN SEVERITY_PRIORITY
    THEN SEVERITY_PRIORITY[LabelsOf[f].severity]
    ELSE UNKNOWN_SEVERITY_PRIORITY

\* One alert of a payload, as Alertmanager wrote it: a resolved one without
\* an end time is possible and is refused.
Entry == [fingerprint : Fingerprints, status : {"firing", "resolved"},
          starts : Moments, ends : Moments \cup {NoValue}]

Usable(e) == e.status = "resolved" => e.ends # NoValue

SourceEventAt(e) ==
    IF e.status = "resolved" /\ e.ends # NoValue THEN e.ends ELSE e.starts

\* normalize_delivery: the entries that are usable; a payload without one
\* is refused as a whole.
NormalizeDelivery(payload) == {e \in payload : Usable(e)}

AlertRow ==
    [status : {"firing", "resolved"}, source_event_at : Moments,
     occurrence : Nat \ {0}, mapping_state : {"mapped", "unmapped", "ambiguous"},
     incident : {NoValue, "own"} \cup (UNION {c.environments : c \in Catalogs})]

AlertIncident == [mitigated : BOOLEAN, reopened : Nat]

ASSUME AlertAssumption ==
    /\ \A f \in Fingerprints : IsLabels(LabelsOf[f])
    /\ MaxMoment \in Nat
    /\ MaxSent \in Nat
    /\ NoValue \notin AlertRow \cup AlertIncident \cup Moments \cup Entry \cup {"own"}
    /\ {NoValue, "own"} \cap (UNION {c.environments : c \in Catalogs}) = {}

VARIABLES
    truth,        \* external: [Fingerprints -> the current fact, or NoValue]
    sent,         \* external: the payloads composed so far
    catalog,      \* environments, services, placements and clusters known
    protection,   \* the environments with an open protection incident
    inflight,     \* [payloads being applied -> the alerts found absent]
    deliveries,   \* alertmanager_deliveries: the payloads applied
    alerts,       \* alert_instances rows
    alert_events, \* alert_events: [Fingerprints -> set of dedupe keys]
    alert_incidents,  \* the active incident of an alert's correlation key
    links,        \* alert_incident_links
    facts,        \* ghost: the usable facts the applied deliveries carried
    recorded,     \* ghost: mapping state when the newest event was recorded
    overtaken     \* ghost: alerts a delivery found absent and another wrote

alertVars == <<truth, sent, catalog, protection, inflight, deliveries, alerts,
               alert_events, alert_incidents, links, facts, recorded, overtaken>>

AlertTypeOK ==
    /\ truth \in [Fingerprints -> Entry \cup {NoValue}]
    /\ sent \subseteq SUBSET Entry
    /\ catalog \in Catalogs
    /\ DOMAIN inflight \subseteq sent
    /\ \A p \in DOMAIN inflight : inflight[p] \subseteq Fingerprints
    /\ deliveries \subseteq sent
    /\ alerts \in [Fingerprints -> AlertRow \cup {NoValue}]
    /\ alert_incidents \in [Fingerprints -> AlertIncident \cup {NoValue}]
    /\ facts \subseteq Entry

AlertInit ==
    /\ truth = [f \in Fingerprints |-> NoValue]
    /\ sent = {}
    /\ catalog \in Catalogs
    /\ protection = {}
    /\ inflight = [p \in {} |-> {}]
    /\ deliveries = {}
    /\ alerts = [f \in Fingerprints |-> NoValue]
    /\ alert_events = [f \in Fingerprints |-> {}]
    /\ alert_incidents = [f \in Fingerprints |-> NoValue]
    /\ links = {}
    /\ facts = {}
    /\ recorded = [f \in Fingerprints |-> NoValue]
    /\ overtaken = {}
-----------------------------------------------------------------------------
(* The world around: Alertmanager, catalog imports, protection incidents.  *)

Now == Max({0} \cup {truth[f].starts : f \in {g \in Fingerprints : truth[g] # NoValue}}
               \cup {truth[f].ends : f \in {g \in Fingerprints :
                        truth[g] # NoValue /\ truth[g].ends # NoValue}})

Fires(f) ==
    /\ Now < MaxMoment
    /\ truth[f] # NoValue => truth[f].status = "resolved"
    /\ truth' = [truth EXCEPT ![f] =
         [fingerprint |-> f, status |-> "firing", starts |-> Now + 1,
          ends |-> NoValue]]
    /\ UNCHANGED <<sent, catalog, protection, inflight, deliveries, alerts,
                   alert_events, alert_incidents, links, facts, recorded,
                   overtaken>>

Clears(f) ==
    /\ Now < MaxMoment
    /\ truth[f] # NoValue /\ truth[f].status = "firing"
    /\ truth' = [truth EXCEPT ![f].status = "resolved", ![f].ends = Now + 1]
    /\ UNCHANGED <<sent, catalog, protection, inflight, deliveries, alerts,
                   alert_events, alert_incidents, links, facts, recorded,
                   overtaken>>

\* A group is any set of alerts, and one of them may lack its end time.
Compose(group) ==
    /\ Cardinality(sent) < MaxSent
    /\ group # {}
    /\ \A f \in group : truth[f] # NoValue
    /\ sent' = sent \cup {{truth[f] : f \in group}}
    /\ UNCHANGED <<truth, catalog, protection, inflight, deliveries, alerts,
                   alert_events, alert_incidents, links, facts, recorded,
                   overtaken>>

ComposeMalformed(group, bad) ==
    /\ Cardinality(sent) < MaxSent
    /\ bad \in group
    /\ \A f \in group : truth[f] # NoValue
    /\ truth[bad].status = "resolved"
    /\ sent' = sent \cup
         {{IF f = bad THEN [truth[f] EXCEPT !.ends = NoValue] ELSE truth[f]
             : f \in group}}
    /\ UNCHANGED <<truth, catalog, protection, inflight, deliveries, alerts,
                   alert_events, alert_incidents, links, facts, recorded,
                   overtaken>>

ImportCatalog(c) ==
    /\ catalog' = c
    /\ UNCHANGED <<truth, sent, protection, inflight, deliveries, alerts,
                   alert_events, alert_incidents, links, facts, recorded,
                   overtaken>>

ProtectionChanges(environment) ==
    /\ environment \in catalog.environments
    /\ protection' = IF environment \in protection
                     THEN protection \ {environment}
                     ELSE protection \cup {environment}
    /\ UNCHANGED <<truth, sent, catalog, inflight, deliveries, alerts,
                   alert_events, alert_incidents, links, facts, recorded,
                   overtaken>>
-----------------------------------------------------------------------------
(* resolve_catalog: labels to catalog identifiers, fail-closed.            *)

Placements(l) ==
    {pl \in catalog.placements :
        /\ pl.service = l.service
        /\ l.environment \in {NoValue, pl.environment}}

MappingState(l) ==
    IF \/ l.project \notin {NoValue, OwnProject}
       \/ l.environment \notin catalog.environments \cup {NoValue}
       \/ l.service \notin catalog.services \cup {NoValue}
    THEN "unmapped"
    ELSE IF l.service # NoValue /\ Cardinality(Placements(l)) > 1
    THEN "ambiguous"
    ELSE IF l.cluster \notin catalog.clusters \cup {NoValue}
    THEN "unmapped" ELSE "mapped"

\* The environment of the binding: the label's, else that of the placement.
EnvironmentOf(l) ==
    IF l.environment # NoValue \/ l.service = NoValue \/ Placements(l) = {}
    THEN l.environment
    ELSE (CHOOSE pl \in Placements(l) : TRUE).environment

\* The protection incidents an alert may be about the same problem as.
ProtectionIncidents(l) ==
    {environment \in protection : EnvironmentOf(l) \in {NoValue, environment}}

OpensIncident(e, state) ==
    /\ e.status = "firing"
    /\ state = "mapped"
    /\ PriorityOf(e.fingerprint) \in INCIDENT_PRIORITIES
-----------------------------------------------------------------------------
(* What one alert of a delivery does.  absent: the read found no row.      *)

\* Wrong variant: what the delivery was, not only what the fact is.
DedupeKeyPerDelivery(e, occurrence) ==
    <<e.status, occurrence, e.starts, e.ends, Cardinality(deliveries)>>

\* Made of the immutable facts of one alert state, never of the delivery.
DedupeKey(e, occurrence) == <<e.status, occurrence, e.starts, e.ends>>

Existing(f, absent) == IF f \in absent THEN NoValue ELSE alerts[f]

\* Wrong variant: the newer fact wins only in the branch on the row read,
\* not in the statement that writes.
StaleOnRead(e, absent) ==
    LET row == Existing(e.fingerprint, absent)
    IN  row # NoValue /\ SourceEventAt(e) < row.source_event_at

\* Older than what is recorded: by the row read, or by the row the upsert
\* meets after all (WHERE source_event_at <= EXCLUDED.source_event_at).
Stale(e, absent) ==
    LET row == alerts[e.fingerprint]
    IN  row # NoValue /\ SourceEventAt(e) < row.source_event_at

Reopens(e, absent) ==
    LET row == Existing(e.fingerprint, absent)
    IN  row # NoValue /\ row.status = "resolved" /\ e.status = "firing"

Occurrence(e, absent) ==
    LET row == Existing(e.fingerprint, absent)
    IN  IF row = NoValue THEN 1
        ELSE row.occurrence + (IF Reopens(e, absent) THEN 1 ELSE 0)

UpsertAlert(e, absent) ==
    [status |-> e.status,
     source_event_at |-> SourceEventAt(e),
     occurrence |-> Occurrence(e, absent),
     mapping_state |-> MappingState(LabelsOf[e.fingerprint]),
     incident |-> IF alerts[e.fingerprint] = NoValue THEN NoValue
                  ELSE alerts[e.fingerprint].incident]

RecordsEvent(e, absent) ==
    DedupeKey(e, Occurrence(e, absent)) \notin alert_events[e.fingerprint]
-----------------------------------------------------------------------------
(* _sync_incident: the incident side of one recorded event.  Nothing in    *)
(* the code closes the incident of an alert: it is mitigated at most.      *)

\* A firing alert whose incident is still active.
FiringUpdate(f, reopens) ==
    [mitigated |-> FALSE,
     reopened |-> alert_incidents[f].reopened + (IF reopens THEN 1 ELSE 0)]

\* _open_incident; the partial unique index admits one active incident per
\* correlation key, and the row lock of the alert decides who opens it.
OpenIncident(reopens) ==
    [mitigated |-> FALSE, reopened |-> IF reopens THEN 1 ELSE 0]

Correlates(e) ==
    /\ alert_incidents[e.fingerprint] = NoValue
    /\ LabelsOf[e.fingerprint].signal = "protection"
    /\ ProtectionIncidents(LabelsOf[e.fingerprint]) # {}

Pages(e) == OpensIncident(e, MappingState(LabelsOf[e.fingerprint]))

\* The incident of the alert's own correlation key after the event.
SyncIncident(e, absent) ==
    LET f == e.fingerprint
    IN  IF e.status = "resolved"
        THEN IF alert_incidents[f] = NoValue THEN NoValue
             ELSE [alert_incidents[f] EXCEPT !.mitigated = TRUE]
        ELSE IF ~Pages(e) \/ Correlates(e) THEN alert_incidents[f]
        ELSE IF alert_incidents[f] # NoValue
        THEN FiringUpdate(f, Reopens(e, absent))
        ELSE OpenIncident(Reopens(e, absent))

\* The incident alert_instances.incident_id names after the event.
Attach(e) ==
    IF ~Pages(e)
    THEN IF alerts[e.fingerprint] = NoValue THEN NoValue
         ELSE alerts[e.fingerprint].incident
    ELSE IF Correlates(e)
    THEN CHOOSE i \in ProtectionIncidents(LabelsOf[e.fingerprint]) : TRUE
    ELSE "own"

\* The link rows the event adds (ON CONFLICT DO NOTHING).
Link(e) ==
    IF e.status = "resolved"
    THEN {<<e.fingerprint, "own">> : i \in {alert_incidents[e.fingerprint]} \ {NoValue}}
    ELSE {<<e.fingerprint, Attach(e)>> : x \in {TRUE} \cap {Pages(e)}}
-----------------------------------------------------------------------------
(* The webhook.  A refused request (no such integration, a wrong bearer    *)
(* token, no usable alert, an unknown project) and a repeated payload      *)
(* change nothing.                                                         *)

\* _record_delivery: the unique digest; a second request with a payload
\* that is being applied waits for the first and then finds it recorded.
NotRecorded(p) == p \notin deliveries \cup DOMAIN inflight

Receive(p, absent) ==
    /\ p \in sent
    /\ NotRecorded(p)
    /\ NormalizeDelivery(p) # {}
    /\ absent \subseteq {e.fingerprint : e \in NormalizeDelivery(p)}
    /\ \A f \in absent : alerts[f] = NoValue
    /\ inflight' = [q \in DOMAIN inflight \cup {p} |->
                      IF q = p THEN absent ELSE inflight[q]]
    /\ UNCHANGED <<truth, sent, catalog, protection, deliveries, alerts,
                   alert_events, alert_incidents, links, facts, recorded,
                   overtaken>>

Forget(p) == inflight' = [q \in DOMAIN inflight \ {p} |-> inflight[q]]

ApplyDelivery(p) ==
    LET absent == inflight[p]
        fresh == {e \in NormalizeDelivery(p) : ~Stale(e, absent)}
        new == {e \in fresh : RecordsEvent(e, absent)}
        FactOf(f) == CHOOSE e \in fresh : e.fingerprint = f
        Written == {e.fingerprint : e \in fresh}
        Synced == {e.fingerprint : e \in new}
    IN  /\ p \in DOMAIN inflight
        /\ Forget(p)
        /\ deliveries' = deliveries \cup {p}
        /\ alerts' = [f \in Fingerprints |->
             IF f \notin Written THEN alerts[f]
             ELSE IF f \in Synced
             THEN [UpsertAlert(FactOf(f), absent) EXCEPT !.incident = Attach(FactOf(f))]
             ELSE UpsertAlert(FactOf(f), absent)]
        /\ alert_events' = [f \in Fingerprints |->
             alert_events[f] \cup
               {DedupeKey(e, Occurrence(e, absent)) : e \in {n \in new : n.fingerprint = f}}]
        /\ alert_incidents' = [f \in Fingerprints |->
             IF f \in Synced THEN SyncIncident(FactOf(f), absent)
             ELSE alert_incidents[f]]
        /\ links' = links \cup UNION {Link(e) : e \in new}
        /\ facts' = facts \cup NormalizeDelivery(p)
        /\ recorded' = [f \in Fingerprints |->
             IF f \in Synced THEN MappingState(LabelsOf[f]) ELSE recorded[f]]
        /\ overtaken' = overtaken \cup {f \in absent : alerts[f] # NoValue}
        /\ UNCHANGED <<truth, sent, catalog, protection>>

\* The transaction fails (a deadlock of two groups, a lost connection) and
\* is rolled back; Alertmanager sends the payload again.
AbortDelivery(p) ==
    /\ p \in DOMAIN inflight
    /\ Forget(p)
    /\ UNCHANGED <<truth, sent, catalog, protection, deliveries, alerts,
                   alert_events, alert_incidents, links, facts, recorded,
                   overtaken>>

AlertNext ==
    \/ \E f \in Fingerprints : Fires(f) \/ Clears(f)
    \/ \E g \in SUBSET Fingerprints :
          \/ Compose(g)
          \/ \E bad \in g : ComposeMalformed(g, bad)
    \/ \E c \in Catalogs \ {catalog} : ImportCatalog(c)
    \/ \E environment \in catalog.environments : ProtectionChanges(environment)
    \/ \E p \in sent : \E absent \in SUBSET Fingerprints : Receive(p, absent)
    \/ \E p \in DOMAIN inflight : ApplyDelivery(p) \/ AbortDelivery(p)

AlertSpec == AlertInit /\ [][AlertNext]_alertVars
-----------------------------------------------------------------------------
\* However deliveries are delayed, repeated, reordered or overlap, the row
\* of an alert shows the newest fact any applied delivery carried
\* (_upsert_alert's guard on source_event_at, in the statement as well as
\* in the branch).
NewestFactWins ==
    \A f \in Fingerprints :
        LET known == {e \in facts : e.fingerprint = f}
        IN  IF known = {} THEN alerts[f] = NoValue
            ELSE \E e \in known :
                    /\ \A d \in known : SourceEventAt(d) <= SourceEventAt(e)
                    /\ alerts[f] # NoValue
                    /\ alerts[f].source_event_at = SourceEventAt(e)
                    /\ alerts[f].status = e.status

\* Replay changes nothing: a fact is on the timeline once, whatever payloads
\* carried it, unless the first delivery of the alert was overtaken while it
\* had found no row (dedupe_key, uq_alert_event_identity).
OncePerFact ==
    \A f \in Fingerprints \ overtaken :
        \A k, l \in alert_events[f] :
            (k[1] = l[1] /\ k[3] = l[3] /\ k[4] = l[4]) => k = l

\* An alert that pages stays on somebody's screen: once its newest event was
\* recorded while mapped, a firing P1 or P2 alert has an incident, its own
\* one is not marked mitigated while it fires, and is so once it cleared
\* (_sync_incident).
PageKept ==
    \A f \in Fingerprints : alerts[f] # NoValue =>
        /\ (/\ alerts[f].status = "firing"
            /\ recorded[f] = "mapped"
            /\ PriorityOf(f) \in INCIDENT_PRIORITIES)
              => /\ alerts[f].incident # NoValue
                 /\ <<f, alerts[f].incident>> \in links
                 /\ alerts[f].incident = "own" => ~alert_incidents[f].mitigated
        /\ (alerts[f].status = "resolved" /\ alert_incidents[f] # NoValue)
              => alert_incidents[f].mitigated

\* What is on the screen is what the newest fact says: the alert's row and
\* its incident, after any deliveries in any order (process_payload).
ScreenShowsTheNewestFact == AlertTypeOK /\ NewestFactWins /\ PageKept
=============================================================================
