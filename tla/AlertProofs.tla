----------------------------- MODULE AlertProofs -----------------------------
(***************************************************************************)
(* Proofs about alerts on their way in and notifications on their way out. *)
(* AlertIngest, for any number of alerts, payloads and deliveries: what    *)
(* the screen shows of an alert whatever order its deliveries arrive and   *)
(* overlap in.  WebhookDelivery, for any number of events, destination     *)
(* keys and worker processes, any batch size and any budget of attempts:   *)
(* a delivery is in one worker's hands, its attempts tell its state, and a *)
(* final state is final.                                                   *)
(***************************************************************************)
EXTENDS AlertIngest, WebhookDelivery, WellFoundedInduction, TLAPS

----------------------------------------------------------------------------
(* The clock of Alertmanager: the largest moment of any current fact.      *)

\* A bounded set of numbers that is not empty has a largest.
LEMMA LargestExists ==
    ASSUME NEW N \in Nat, NEW S, S \subseteq 0..N, S # {}
    PROVE  \E m \in S : \A n \in S : m >= n
<1> DEFINE T == {k \in Nat : N - k \in S}
           R == {p \in Nat \X Nat : p[1] < p[2]}
<1>1. IsWellFoundedOn(R, Nat)
  <2>1. R = OpToRel(<, Nat)
    BY DEF OpToRel
  <2> QED
    BY <2>1, NatLessThanWellFounded
<1>2. T \subseteq Nat /\ T # {}
  <2>1. PICK n \in S : TRUE
    OBVIOUS
  <2>2. n \in Nat /\ n <= N
    BY <2>1
  <2>3. N - n \in Nat /\ N - (N - n) = n
    BY <2>2
  <2>4. N - n \in T
    BY <2>1, <2>3
  <2> QED
    BY <2>4
<1>3. PICK k \in T : \A j \in T : ~ (<<j, k>> \in R)
  <2> HIDE DEF T, R
  <2> QED
    BY <1>1, <1>2, WFMin
<1>4. \A j \in T : k <= j
  <2> SUFFICES ASSUME NEW j \in T, j < k
               PROVE  FALSE
    BY <1>2
  <2>1. <<j, k>> \in R
    BY <1>2
  <2> QED
    BY <1>3, <2>1
<1>5. ASSUME NEW n \in S
      PROVE  N - k >= n
  <2>1. n \in Nat /\ n <= N /\ N - n \in Nat /\ N - (N - n) = n
    OBVIOUS
  <2>2. N - n \in T
    BY <2>1
  <2> QED
    BY <1>4, <2>1, <2>2
<1> QED
  BY <1>5

\* Max is such a number.
LEMMA LargestIsMax ==
    ASSUME NEW N \in Nat, NEW S, S \subseteq 0..N, S # {}
    PROVE  Max(S) \in S /\ \A n \in S : n <= Max(S)
<1>1. \E m \in S : \A n \in S : m >= n
  BY LargestExists
<1>2. Max(S) \in S /\ \A n \in S : Max(S) >= n
  BY <1>1 DEF Max
<1> QED
  BY <1>2

\* No current fact is of a later moment than now.
LEMMA NowIsLatest ==
    ASSUME truth \in [Fingerprints -> Entry \cup {NoValue}]
    PROVE  /\ Now \in Nat
           /\ \A f \in Fingerprints : truth[f] # NoValue =>
                truth[f].starts <= Now /\ (truth[f].ends # NoValue => truth[f].ends <= Now)
<1> DEFINE S == {0} \cup {truth[f].starts : f \in {g \in Fingerprints : truth[g] # NoValue}}
               \cup {truth[f].ends : f \in {g \in Fingerprints :
                        truth[g] # NoValue /\ truth[g].ends # NoValue}}
<1>1. S # {} /\ S \subseteq 0..MaxMoment /\ MaxMoment \in Nat
  BY AlertAssumption DEF Entry, Moments
<1>2. \A f \in Fingerprints : truth[f] # NoValue =>
        truth[f].starts \in S /\ (truth[f].ends # NoValue => truth[f].ends \in S)
  OBVIOUS
<1> HIDE DEF S
<1>3. Max(S) \in S /\ \A n \in S : n <= Max(S)
  BY <1>1, LargestIsMax
<1>4. Now = Max(S)
  BY DEF Now, S
<1>5. Now \in S /\ \A n \in S : n <= Now
  BY <1>3, <1>4
<1>6. Now \in Nat
  BY <1>1, <1>5
<1>7. ASSUME NEW f \in Fingerprints, truth[f] # NoValue
      PROVE  truth[f].starts <= Now /\ (truth[f].ends # NoValue => truth[f].ends <= Now)
  BY <1>2, <1>5, <1>7
<1> QED
  BY <1>6, <1>7

----------------------------------------------------------------------------
(* The facts Alertmanager sends.                                           *)

(* The current fact of an alert, and what was composed of it: a payload    *)
(* holds one entry of an alert, none newer than the current fact, and two  *)
(* usable entries of one moment are the same fact.                         *)
TruthIsSound ==
    \A f \in Fingerprints : truth[f] # NoValue =>
       /\ truth[f].fingerprint = f
       /\ truth[f].status = "firing" => truth[f].ends = NoValue
       /\ truth[f].status = "resolved" =>
            truth[f].ends # NoValue /\ truth[f].starts <= truth[f].ends

NoneIsNewer ==
    \A p \in sent : \A e \in p :
       LET now == truth[e.fingerprint] IN
       /\ now # NoValue /\ SourceEventAt(e) <= SourceEventAt(now)
       /\ Usable(e) /\ SourceEventAt(e) = SourceEventAt(now) => e = now

OneFactPerMoment ==
    \A p, q \in sent : \A d \in p, e \in q :
       /\ d.fingerprint = e.fingerprint /\ Usable(d) /\ Usable(e)
       /\ SourceEventAt(d) = SourceEventAt(e)
       => d = e

OneEntryEach == \A p \in sent : \A d, e \in p : d.fingerprint = e.fingerprint => d = e

SourceInv ==
    /\ truth \in [Fingerprints -> Entry \cup {NoValue}] /\ sent \subseteq SUBSET Entry
    /\ TruthIsSound /\ NoneIsNewer /\ OneFactPerMoment /\ OneEntryEach

\* A moment is a number, and the moment of an entry is one.
LEMMA MomentsOfEntries ==
    ASSUME NEW e \in Entry
    PROVE  /\ SourceEventAt(e) \in Nat /\ SourceEventAt(e) \in Moments /\ e.starts \in Nat
           /\ e.ends # NoValue => e.ends \in Nat
           /\ e.fingerprint \in Fingerprints /\ e.status \in {"firing", "resolved"}
  BY AlertAssumption DEF Entry, Moments, SourceEventAt

\* The facts stay in order when Alertmanager raises or clears an alert: the new
\* fact is later than every fact of the alert before it.
LEMMA NewFactIsLater ==
    ASSUME SourceInv, NEW f \in Fingerprints, NEW e \in Entry,
           truth' = [truth EXCEPT ![f] = e], UNCHANGED sent, e.fingerprint = f,
           e.status = "firing" => e.ends = NoValue,
           e.status = "resolved" => e.ends # NoValue /\ e.starts <= e.ends,
           SourceEventAt(e) > Now
    PROVE  SourceInv'
<1>1. truth' \in [Fingerprints -> Entry \cup {NoValue}] /\ e # NoValue
  BY AlertAssumption DEF SourceInv
<1>2. \A g \in Fingerprints : truth'[g] = IF g = f THEN e ELSE truth[g]
  BY DEF SourceInv
<1>3. TruthIsSound'
  BY <1>2 DEF SourceInv, TruthIsSound
<1>4. truth[f] # NoValue => SourceEventAt(truth[f]) < SourceEventAt(e)
  BY NowIsLatest, MomentsOfEntries DEF SourceInv, SourceEventAt
<1>5. ASSUME NEW p \in sent, NEW d \in p
      PROVE  LET now == truth'[d.fingerprint] IN
             /\ now # NoValue /\ SourceEventAt(d) <= SourceEventAt(now)
             /\ Usable(d) /\ SourceEventAt(d) = SourceEventAt(now) => d = now
  <2>1. d \in Entry /\ d.fingerprint \in Fingerprints /\ SourceEventAt(d) \in Nat
    BY MomentsOfEntries DEF SourceInv
  <2>2. /\ truth[d.fingerprint] # NoValue
        /\ SourceEventAt(d) <= SourceEventAt(truth[d.fingerprint])
        /\ Usable(d) /\ SourceEventAt(d) = SourceEventAt(truth[d.fingerprint])
             => d = truth[d.fingerprint]
    BY DEF SourceInv, NoneIsNewer
  <2>3. CASE d.fingerprint # f
    BY <1>2, <2>1, <2>2, <2>3
  <2>4. CASE d.fingerprint = f
    <3>1. SourceEventAt(truth[f]) \in Nat /\ SourceEventAt(e) \in Nat
      BY <2>2, <2>4, MomentsOfEntries DEF SourceInv
    <3> QED
      BY <1>1, <1>2, <1>4, <2>1, <2>2, <2>4, <3>1
  <2> QED
    BY <2>3, <2>4
<1>6. NoneIsNewer'
  BY <1>5 DEF NoneIsNewer
<1> QED
  BY <1>1, <1>3, <1>6 DEF SourceInv, OneFactPerMoment, OneEntryEach

\* And when it composes a payload of the current facts, of which some lost the
\* time they ended at.
LEMMA PayloadIsSound ==
    ASSUME SourceInv, UNCHANGED truth, NEW group \in SUBSET Fingerprints,
           \A f \in group : truth[f] # NoValue,
           NEW bad, \A f \in bad : f \in group /\ truth[f].status = "resolved",
           sent' = sent \cup
             {{IF f \in bad THEN [truth[f] EXCEPT !.ends = NoValue] ELSE truth[f] : f \in group}}
    PROVE  SourceInv'
<1> DEFINE given(f) == IF f \in bad THEN [truth[f] EXCEPT !.ends = NoValue] ELSE truth[f]
           payload == {given(f) : f \in group}
<1>1. ASSUME NEW f \in group
      PROVE  /\ given(f) \in Entry /\ given(f).fingerprint = f
             /\ SourceEventAt(given(f)) <= SourceEventAt(truth[f])
             /\ Usable(given(f)) => given(f) = truth[f]
  <2>1. /\ truth[f] \in Entry /\ truth[f].fingerprint = f
        /\ truth[f].status = "resolved" =>
             truth[f].ends # NoValue /\ truth[f].starts <= truth[f].ends
    BY DEF SourceInv, TruthIsSound
  <2>2. CASE f \notin bad
    BY <2>1, <2>2, MomentsOfEntries
  <2>3. CASE f \in bad
    <3> DEFINE e == [truth[f] EXCEPT !.ends = NoValue]
    <3>1. /\ e \in Entry /\ e.fingerprint = f /\ e.status = "resolved" /\ e.ends = NoValue
          /\ e.starts = truth[f].starts
      BY <2>1, <2>3 DEF Entry
    <3>2. ~Usable(e) /\ SourceEventAt(e) = truth[f].starts
      BY <3>1 DEF Usable, SourceEventAt
    <3>3. SourceEventAt(truth[f]) = truth[f].ends
      BY <2>1, <2>3 DEF SourceEventAt
    <3> QED
      BY <2>1, <2>3, <3>1, <3>2, <3>3
  <2> QED
    BY <2>2, <2>3
<1>2. \A f \in Fingerprints : truth[f] # NoValue => truth[f] \in Entry
  BY DEF SourceInv
<1>3. ASSUME NEW e \in payload
      PROVE  e.fingerprint \in group /\ e = given(e.fingerprint)
  <2>1. PICK f \in group : e = given(f)
    OBVIOUS
  <2> HIDE DEF given
  <2>2. e.fingerprint = f
    BY <1>1, <2>1
  <2> QED
    BY <2>1, <2>2
<1>4. sent' = sent \cup {payload}
  OBVIOUS
<1> HIDE DEF payload, given
<1>5. ASSUME NEW e \in payload
      PROVE  LET now == truth[e.fingerprint] IN
             /\ e \in Entry /\ now # NoValue /\ SourceEventAt(e) <= SourceEventAt(now)
             /\ Usable(e) => e = now
  BY <1>1, <1>3
<1>6. NoneIsNewer'
  BY <1>4, <1>5 DEF SourceInv, NoneIsNewer
<1>7. OneEntryEach'
  BY <1>3, <1>4 DEF SourceInv, OneEntryEach
<1>8. ASSUME NEW p \in sent', NEW q \in sent', NEW d \in p, NEW e \in q,
             d.fingerprint = e.fingerprint, Usable(d), Usable(e),
             SourceEventAt(d) = SourceEventAt(e)
      PROVE  d = e
  <2>1. CASE p \in sent /\ q \in sent
    BY <1>8, <2>1 DEF SourceInv, OneFactPerMoment
  <2>2. CASE p = payload /\ q = payload
    BY <1>5, <1>8, <2>2
  <2>3. CASE p = payload /\ q \in sent
    BY <1>5, <1>8, <2>3 DEF SourceInv, NoneIsNewer
  <2>4. CASE p \in sent /\ q = payload
    BY <1>5, <1>8, <2>4 DEF SourceInv, NoneIsNewer
  <2> QED
    BY <1>4, <1>8, <2>1, <2>2, <2>3, <2>4
<1>10. OneFactPerMoment'
  BY <1>8, ZenonT(30) DEF OneFactPerMoment
<1>9. sent' \subseteq SUBSET Entry
  BY <1>4, <1>5 DEF SourceInv
<1> QED
  BY <1>6, <1>7, <1>9, <1>10 DEF SourceInv, TruthIsSound

\* Every step of the world keeps the facts in order.
LEMMA SourceStep == SourceInv /\ [AlertNext]_alertVars => SourceInv'
<1> SUFFICES ASSUME SourceInv, [AlertNext]_alertVars
             PROVE  SourceInv'
  OBVIOUS
<1>1. ASSUME NEW f \in Fingerprints, Fires(f)
      PROVE  SourceInv'
  <2> DEFINE e == [fingerprint |-> f, status |-> "firing", starts |-> Now + 1, ends |-> NoValue]
  <2>1. Now \in Nat /\ Now + 1 \in Moments
    BY <1>1, NowIsLatest, AlertAssumption DEF Fires, Moments, SourceInv
  <2>2. e \in Entry /\ SourceEventAt(e) = Now + 1
    BY <2>1 DEF Entry, SourceEventAt
  <2>3. truth' = [truth EXCEPT ![f] = e] /\ UNCHANGED sent
    BY <1>1 DEF Fires
  <2>4. e.fingerprint = f /\ e.status = "firing" /\ e.ends = NoValue
    OBVIOUS
  <2>5. /\ SourceEventAt(e) > Now
        /\ e.status = "firing" => e.ends = NoValue
        /\ e.status = "resolved" => e.ends # NoValue /\ e.starts <= e.ends
    BY <2>1, <2>2, <2>4
  <2> HIDE DEF e
  <2> QED
    BY <2>2, <2>3, <2>4, <2>5, NewFactIsLater
<1>2. ASSUME NEW f \in Fingerprints, Clears(f)
      PROVE  SourceInv'
  <2> DEFINE e == [truth[f] EXCEPT !.status = "resolved", !.ends = Now + 1]
  <2>1. Now \in Nat /\ Now + 1 \in Moments /\ truth[f] \in Entry /\ truth[f].fingerprint = f
    BY <1>2, NowIsLatest, AlertAssumption DEF Clears, Moments, SourceInv, TruthIsSound
  <2>2. /\ e \in Entry /\ e.fingerprint = f /\ e.status = "resolved" /\ e.ends = Now + 1
        /\ e.starts = truth[f].starts
    BY <2>1 DEF Entry
  <2>3. Now + 1 # NoValue
    BY <2>1, AlertAssumption
  <2>4. SourceEventAt(e) = Now + 1
    BY <2>2, <2>3 DEF SourceEventAt
  <2>5. truth[f].starts <= Now /\ truth[f].starts \in Nat
    BY <1>2, <2>1, NowIsLatest, MomentsOfEntries DEF Clears, SourceInv
  <2>6. truth' = [truth EXCEPT ![f] = e] /\ UNCHANGED sent
    BY <1>2 DEF Clears, SourceInv
  <2>7. /\ SourceEventAt(e) > Now
        /\ e.status = "firing" => e.ends = NoValue
        /\ e.status = "resolved" => e.ends # NoValue /\ e.starts <= e.ends
    BY <2>1, <2>2, <2>3, <2>4, <2>5
  <2> HIDE DEF e
  <2> QED
    BY <2>2, <2>6, <2>7, NewFactIsLater
<1>3. ASSUME NEW group \in SUBSET Fingerprints, Compose(group)
      PROVE  SourceInv'
  <2> DEFINE none == {}
  <2>1. {truth[f] : f \in group} =
          {IF f \in none THEN [truth[f] EXCEPT !.ends = NoValue] ELSE truth[f] : f \in group}
    OBVIOUS
  <2>2. /\ UNCHANGED truth /\ sent' = sent \cup {{truth[f] : f \in group}}
        /\ \A f \in group : truth[f] # NoValue
    BY <1>3 DEF Compose
  <2>3. sent' = sent \cup
          {{IF f \in none THEN [truth[f] EXCEPT !.ends = NoValue] ELSE truth[f] : f \in group}}
    BY <2>1, <2>2
  <2>4. \A f \in none : f \in group /\ truth[f].status = "resolved"
    OBVIOUS
  <2> HIDE DEF none
  <2> QED
    BY <2>2, <2>3, <2>4, PayloadIsSound
<1>4. ASSUME NEW group \in SUBSET Fingerprints, NEW one \in group, ComposeMalformed(group, one)
      PROVE  SourceInv'
  <2>1. {IF f = one THEN [truth[f] EXCEPT !.ends = NoValue] ELSE truth[f] : f \in group} =
          {IF f \in {one} THEN [truth[f] EXCEPT !.ends = NoValue] ELSE truth[f] : f \in group}
    OBVIOUS
  <2>2. /\ UNCHANGED truth /\ \A f \in group : truth[f] # NoValue
        /\ sent' = sent \cup
             {{IF f = one THEN [truth[f] EXCEPT !.ends = NoValue] ELSE truth[f] : f \in group}}
        /\ truth[one].status = "resolved"
    BY <1>4 DEF ComposeMalformed
  <2>3. \A f \in {one} : f \in group /\ truth[f].status = "resolved"
    BY <2>2
  <2> QED
    BY <2>1, <2>2, <2>3, PayloadIsSound
<1>5. CASE UNCHANGED <<truth, sent>>
  BY <1>5 DEF SourceInv, TruthIsSound, NoneIsNewer, OneFactPerMoment, OneEntryEach
<1>6. CASE \E c \in Catalogs \ {catalog} : ImportCatalog(c)
  BY <1>5, <1>6 DEF ImportCatalog
<1>7. CASE \E environment \in catalog.environments : ProtectionChanges(environment)
  BY <1>5, <1>7 DEF ProtectionChanges
<1>8. CASE \E p \in sent : \E absent \in SUBSET Fingerprints : Receive(p, absent)
  BY <1>5, <1>8 DEF Receive
<1>9. CASE \E p \in DOMAIN inflight : ApplyDelivery(p) \/ AbortDelivery(p)
  BY <1>5, <1>9 DEF ApplyDelivery, AbortDelivery
<1>10. CASE UNCHANGED alertVars
  BY <1>5, <1>10 DEF alertVars
<1> QED
  BY <1>1, <1>2, <1>3, <1>4, <1>6, <1>7, <1>8, <1>9, <1>10 DEF AlertNext

----------------------------------------------------------------------------
(* The rows, the timeline and the incidents of one alert.                  *)

FactsOf(f) == {e \in facts : e.fingerprint = f}

(* The row shows the newest fact, and the timeline has it under the row's  *)
(* occurrence.                                                             *)
RowIsNewest(f) ==
    alerts[f] # NoValue =>
      /\ \E e \in FactsOf(f) :
            /\ alerts[f].source_event_at = SourceEventAt(e) /\ alerts[f].status = e.status
            /\ DedupeKey(e, alerts[f].occurrence) \in alert_events[f]
      /\ \A d \in FactsOf(f) : SourceEventAt(d) <= alerts[f].source_event_at

\* Whoever has a fact has a row, and what is on the timeline is a fact.
KeysAreFacts(f) ==
    /\ FactsOf(f) # {} => alerts[f] # NoValue
    /\ \A k \in alert_events[f] : \E e \in FactsOf(f) :
          k[1] = e.status /\ k[3] = e.starts /\ k[4] = e.ends

OncePerFactOf(f) ==
    f \notin overtaken =>
      \A k, l \in alert_events[f] : (k[1] = l[1] /\ k[3] = l[3] /\ k[4] = l[4]) => k = l

PageKeptOf(f) ==
    alerts[f] # NoValue =>
        /\ (/\ alerts[f].status = "firing"
            /\ recorded[f] = "mapped"
            /\ PriorityOf(f) \in INCIDENT_PRIORITIES)
              => /\ alerts[f].incident # NoValue
                 /\ <<f, alerts[f].incident>> \in links
                 /\ alerts[f].incident = "own" => ~alert_incidents[f].mitigated
        /\ (alerts[f].status = "resolved" /\ alert_incidents[f] # NoValue)
              => alert_incidents[f].mitigated

\* The inductive invariant of alert ingestion.
AlertInv ==
    /\ AlertTypeOK /\ SourceInv
    /\ protection \subseteq UNION {c.environments : c \in Catalogs}
    /\ \A e \in facts : Usable(e) /\ \E p \in deliveries : e \in p
    /\ \A f \in Fingerprints :
          RowIsNewest(f) /\ KeysAreFacts(f) /\ OncePerFactOf(f) /\ PageKeptOf(f)

\* The invariant holds initially.
LEMMA AlertInitially == AlertInit => AlertInv
<1> SUFFICES ASSUME AlertInit
             PROVE  AlertInv
  OBVIOUS
<1>1. AlertTypeOK /\ SourceInv
  BY DEF AlertInit, AlertTypeOK, SourceInv, TruthIsSound, NoneIsNewer, OneFactPerMoment,
     OneEntryEach
<1>2. ASSUME NEW f \in Fingerprints
      PROVE  RowIsNewest(f) /\ KeysAreFacts(f) /\ OncePerFactOf(f) /\ PageKeptOf(f)
  BY DEF AlertInit, RowIsNewest, KeysAreFacts, OncePerFactOf, PageKeptOf, FactsOf
<1> QED
  BY <1>1, <1>2 DEF AlertInit, AlertInv

\* Two usable facts of one alert and one moment that were delivered are the same.
LEMMA FactsAreUnique ==
    ASSUME AlertInv, NEW p \in sent, NEW e \in p, Usable(e), NEW d \in facts,
           d.fingerprint = e.fingerprint, SourceEventAt(d) = SourceEventAt(e)
    PROVE  d = e
<1>1. PICK q \in deliveries : d \in q
  BY DEF AlertInv
<1>2. q \in sent /\ Usable(d)
  BY <1>1 DEF AlertInv, AlertTypeOK
<1> QED
  BY <1>1, <1>2 DEF AlertInv, SourceInv, OneFactPerMoment

(* What a delivery does to one alert: nothing, when what it says of it is  *)
(* stale; else it writes the row, and the event unless the timeline has it.*)
LeavesAlone(p, f) ==
    /\ alerts'[f] = alerts[f] /\ alert_events'[f] = alert_events[f]
    /\ alert_incidents'[f] = alert_incidents[f] /\ recorded'[f] = recorded[f]
    /\ \A d \in NormalizeDelivery(p) : d.fingerprint = f => Stale(d, inflight[p])

Records(p, f, e) ==
    /\ RecordsEvent(e, inflight[p])
    /\ alerts'[f] = [UpsertAlert(e, inflight[p]) EXCEPT !.incident = Attach(e)]
    /\ alert_incidents'[f] = SyncIncident(e, inflight[p])
    /\ recorded'[f] = MappingState(LabelsOf[f])
    /\ Link(e) \subseteq links'

Refreshes(p, f, e) ==
    /\ ~RecordsEvent(e, inflight[p])
    /\ alerts'[f] = UpsertAlert(e, inflight[p])
    /\ alert_incidents'[f] = alert_incidents[f] /\ recorded'[f] = recorded[f]

Writes(p, f, e) ==
    /\ e.fingerprint = f /\ ~Stale(e, inflight[p])
    /\ \A d \in NormalizeDelivery(p) : d.fingerprint = f => d = e
    /\ alert_events'[f] =
         alert_events[f] \cup {DedupeKey(e, Occurrence(e, inflight[p]))}
    /\ Records(p, f, e) \/ Refreshes(p, f, e)

\* A delivery does one or the other to every alert.
LEMMA WhatDeliveryDoes ==
    ASSUME AlertInv, NEW p \in DOMAIN inflight, ApplyDelivery(p), NEW f \in Fingerprints
    PROVE  LeavesAlone(p, f) \/ \E e \in NormalizeDelivery(p) : Writes(p, f, e)
<1> DEFINE absent == inflight[p]
           fresh == {e \in NormalizeDelivery(p) : ~Stale(e, absent)}
           new == {e \in fresh : RecordsEvent(e, absent)}
           FactOf(g) == CHOOSE e \in fresh : e.fingerprint = g
           Written == {e.fingerprint : e \in fresh}
           Synced == {e.fingerprint : e \in new}
<1>1. /\ alerts'[f] =
           IF f \notin Written THEN alerts[f]
           ELSE IF f \in Synced
           THEN [UpsertAlert(FactOf(f), absent) EXCEPT !.incident = Attach(FactOf(f))]
           ELSE UpsertAlert(FactOf(f), absent)
      /\ alert_events'[f] =
           alert_events[f] \cup
             {DedupeKey(e, Occurrence(e, absent)) : e \in {n \in new : n.fingerprint = f}}
      /\ alert_incidents'[f] =
           IF f \in Synced THEN SyncIncident(FactOf(f), absent) ELSE alert_incidents[f]
      /\ recorded'[f] = IF f \in Synced THEN MappingState(LabelsOf[f]) ELSE recorded[f]
      /\ links' = links \cup UNION {Link(e) : e \in new}
  BY DEF ApplyDelivery
<1>2. p \in sent /\ NormalizeDelivery(p) \subseteq p
  BY DEF AlertInv, AlertTypeOK, NormalizeDelivery
<1>3. \A d, e \in NormalizeDelivery(p) : d.fingerprint = e.fingerprint => d = e
  BY <1>2 DEF AlertInv, SourceInv, OneEntryEach
<1>4. CASE f \notin Written
  <2>1. \A d \in NormalizeDelivery(p) : d.fingerprint = f => Stale(d, absent)
    BY <1>4
  <2>2. f \notin Synced /\ {n \in new : n.fingerprint = f} = {}
    BY <1>4
  <2> HIDE DEF Written, Synced, new
  <2> QED
    BY <1>1, <1>4, <2>1, <2>2 DEF LeavesAlone
<1>5. CASE f \in Written
  <2>1. PICK e \in fresh : e.fingerprint = f
    BY <1>5
  <2>2. e \in NormalizeDelivery(p) /\ ~Stale(e, absent)
    BY <2>1
  <2>3. \A d \in NormalizeDelivery(p) : d.fingerprint = f => d = e
    BY <1>3, <2>1, <2>2
  <2>4. FactOf(f) = e
    BY <2>1, <2>2, <2>3
  <2>5. CASE RecordsEvent(e, absent)
    <3>1. f \in Synced /\ {n \in new : n.fingerprint = f} = {e} /\ e \in new
      BY <2>1, <2>2, <2>3, <2>5
    <3>2. Link(e) \subseteq links'
      BY <1>1, <3>1
    <3>3. alert_events'[f] = alert_events[f] \cup {DedupeKey(e, Occurrence(e, absent))}
      <4> HIDE DEF new
      <4> QED
        BY <1>1, <3>1
    <3> HIDE DEF Written, Synced, new, FactOf, fresh
    <3>4. Records(p, f, e)
      BY <1>1, <1>5, <2>4, <2>5, <3>1, <3>2 DEF Records
    <3> QED
      BY <2>1, <2>2, <2>3, <3>3, <3>4 DEF Writes
  <2>6. CASE ~RecordsEvent(e, absent)
    <3>1. f \notin Synced /\ {n \in new : n.fingerprint = f} = {}
      BY <2>1, <2>2, <2>3, <2>6
    <3>2. alert_events'[f] = alert_events[f]
      <4> HIDE DEF new
      <4> QED
        BY <1>1, <3>1
    <3>3. DedupeKey(e, Occurrence(e, absent)) \in alert_events[f]
      BY <2>1, <2>6 DEF RecordsEvent
    <3> HIDE DEF Written, Synced, new, FactOf, fresh
    <3>4. Refreshes(p, f, e)
      BY <1>1, <1>5, <2>4, <2>6, <3>1 DEF Refreshes
    <3> QED
      BY <2>1, <2>2, <2>3, <3>2, <3>3, <3>4 DEF Writes
  <2> QED
    BY <2>5, <2>6
<1> QED
  BY <1>4, <1>5

\* What a delivery leaves alone stays as it should be.
LEMMA LeftAloneIsKept ==
    ASSUME AlertInv, NEW p \in DOMAIN inflight, ApplyDelivery(p), NEW f \in Fingerprints,
           LeavesAlone(p, f)
    PROVE  (RowIsNewest(f) /\ KeysAreFacts(f) /\ OncePerFactOf(f) /\ PageKeptOf(f))'
<1>1. /\ RowIsNewest(f) /\ KeysAreFacts(f) /\ OncePerFactOf(f) /\ PageKeptOf(f)
      /\ alerts[f] \in AlertRow \cup {NoValue}
  BY DEF AlertInv, AlertTypeOK
<1>2. /\ facts' = facts \cup NormalizeDelivery(p) /\ links \subseteq links'
      /\ overtaken \subseteq overtaken'
  BY DEF ApplyDelivery
<1>3. p \in sent /\ NormalizeDelivery(p) \subseteq Entry
  BY DEF AlertInv, AlertTypeOK, NormalizeDelivery
<1>4. ASSUME NEW d \in NormalizeDelivery(p), d.fingerprint = f
      PROVE  alerts[f] # NoValue /\ SourceEventAt(d) <= alerts[f].source_event_at
  <2>1. alerts[f] # NoValue /\ SourceEventAt(d) < alerts[f].source_event_at
    BY <1>4 DEF LeavesAlone, Stale
  <2>2. SourceEventAt(d) \in Nat /\ alerts[f].source_event_at \in Nat
    BY <1>1, <1>3, <2>1, MomentsOfEntries, AlertAssumption DEF AlertRow, Moments
  <2> QED
    BY <2>1, <2>2
<1>5. /\ FactsOf(f) \subseteq FactsOf(f)'
      /\ \A d \in FactsOf(f)' : d \in FactsOf(f) \/
            (alerts[f] # NoValue /\ SourceEventAt(d) <= alerts[f].source_event_at)
      /\ FactsOf(f)' # {} => alerts[f] # NoValue
  BY <1>1, <1>2, <1>4 DEF FactsOf, KeysAreFacts
<1>6. RowIsNewest(f)'
  BY <1>1, <1>5 DEF RowIsNewest, LeavesAlone, SourceEventAt, DedupeKey
<1>7. KeysAreFacts(f)'
  BY <1>1, <1>5 DEF KeysAreFacts, LeavesAlone
<1>8. OncePerFactOf(f)'
  BY <1>1, <1>2 DEF OncePerFactOf, LeavesAlone
<1>9. PageKeptOf(f)'
  BY <1>1, <1>2 DEF PageKeptOf, LeavesAlone, PriorityOf
<1> QED
  BY <1>6, <1>7, <1>8, <1>9

\* An entry that is not stale and was already recorded is the fact the row shows;
\* and one whose key a fact of the alert has is a fact that was delivered.
LEMMA WhatIsKnown ==
    ASSUME AlertInv, NEW p \in DOMAIN inflight, NEW e \in NormalizeDelivery(p),
           NEW f \in Fingerprints, e.fingerprint = f, ~Stale(e, inflight[p]), e \in facts
    PROVE  /\ alerts[f] # NoValue /\ alerts[f].status = e.status
           /\ alerts[f].source_event_at = SourceEventAt(e)
           /\ DedupeKey(e, alerts[f].occurrence) \in alert_events[f]
<1>1. p \in sent /\ e \in p /\ Usable(e) /\ e \in Entry
  BY DEF AlertInv, AlertTypeOK, NormalizeDelivery
<1>2. e \in FactsOf(f) /\ alerts[f] # NoValue /\ alerts[f] \in AlertRow
  BY DEF FactsOf, AlertInv, KeysAreFacts, AlertTypeOK
<1>3. PICK d \in FactsOf(f) :
        /\ alerts[f].source_event_at = SourceEventAt(d) /\ alerts[f].status = d.status
        /\ DedupeKey(d, alerts[f].occurrence) \in alert_events[f]
  BY <1>2 DEF AlertInv, RowIsNewest
<1>4. SourceEventAt(e) <= alerts[f].source_event_at
  BY <1>2 DEF AlertInv, RowIsNewest
<1>5. ~(SourceEventAt(e) < alerts[f].source_event_at)
  BY <1>2 DEF Stale
<1>6. SourceEventAt(e) \in Nat /\ alerts[f].source_event_at \in Nat
  BY <1>1, <1>2, MomentsOfEntries, AlertAssumption DEF AlertRow, Moments
<1>7. SourceEventAt(d) = SourceEventAt(e)
  BY <1>3, <1>4, <1>5, <1>6
<1>8. d \in facts /\ d.fingerprint = e.fingerprint
  BY <1>3 DEF FactsOf
<1>9. d = e
  BY <1>1, <1>7, <1>8, FactsAreUnique
<1> QED
  BY <1>2, <1>3, <1>9

\* An entry whose status and times are on the timeline was delivered before.
LEMMA OnTheTimeline ==
    ASSUME AlertInv, NEW p \in DOMAIN inflight, NEW e \in NormalizeDelivery(p),
           NEW f \in Fingerprints, e.fingerprint = f, NEW k \in alert_events[f],
           k[1] = e.status, k[3] = e.starts, k[4] = e.ends
    PROVE  e \in facts
<1>1. e \in Entry
  BY DEF AlertInv, AlertTypeOK, NormalizeDelivery
<1>2. PICK d \in FactsOf(f) : k[1] = d.status /\ k[3] = d.starts /\ k[4] = d.ends
  BY DEF AlertInv, KeysAreFacts
<1>3. d \in facts /\ d.fingerprint = f /\ d \in Entry
  BY <1>2 DEF FactsOf, AlertInv, AlertTypeOK
<1>4. d = e
  <2>1. \A x, y \in Entry :
          /\ x.fingerprint = y.fingerprint /\ x.status = y.status /\ x.starts = y.starts
          /\ x.ends = y.ends
          => x = y
    BY DEF Entry
  <2> QED
    BY <1>1, <1>2, <1>3, <2>1
<1> QED
  BY <1>3, <1>4

\* The mapping of labels is one of three.
LEMMA MappingIsState ==
    ASSUME NEW l
    PROVE  MappingState(l) \in {"mapped", "unmapped", "ambiguous"}
  BY DEF MappingState

\* What an alert attaches to is an incident, and "own" is its own.
LEMMA AttachedTo ==
    ASSUME AlertInv, NEW e \in Entry
    PROVE  /\ Attach(e) \in {NoValue, "own"} \cup (UNION {c.environments : c \in Catalogs})
           /\ Pages(e) => Attach(e) # NoValue /\ (Attach(e) = "own" <=> ~Correlates(e))
<1> DEFINE envs == UNION {c.environments : c \in Catalogs}
<1>1. /\ protection \subseteq envs /\ e.fingerprint \in Fingerprints
      /\ NoValue \notin envs /\ "own" \notin envs /\ NoValue # "own"
      /\ alerts[e.fingerprint] \in AlertRow \cup {NoValue}
  BY AlertAssumption, MomentsOfEntries DEF AlertInv, AlertTypeOK
<1>2. alerts[e.fingerprint] # NoValue => alerts[e.fingerprint].incident \in {NoValue, "own"} \cup envs
  BY <1>1 DEF AlertRow
<1> HIDE DEF envs
<1>3. CASE ~Pages(e)
  BY <1>2, <1>3 DEF Attach, envs
<1>4. CASE Pages(e) /\ Correlates(e)
  <2> DEFINE chosen == CHOOSE i \in ProtectionIncidents(LabelsOf[e.fingerprint]) : TRUE
  <2>1. ProtectionIncidents(LabelsOf[e.fingerprint]) # {}
    BY <1>4 DEF Correlates
  <2>2. chosen \in ProtectionIncidents(LabelsOf[e.fingerprint])
    BY <2>1
  <2>3. chosen \in protection
    BY <2>2 DEF ProtectionIncidents
  <2>4. Attach(e) = chosen
    BY <1>4 DEF Attach
  <2> QED
    BY <1>1, <1>4, <2>3, <2>4 DEF envs
<1>5. CASE Pages(e) /\ ~Correlates(e)
  BY <1>1, <1>5 DEF Attach, envs
<1> QED
  BY <1>3, <1>4, <1>5 DEF envs

\* A row with another incident is a row.
LEMMA RowAttached ==
    ASSUME NEW x \in AlertRow,
           NEW i \in {NoValue, "own"} \cup (UNION {c.environments : c \in Catalogs})
    PROVE  [x EXCEPT !.incident = i] \in AlertRow
  BY DEF AlertRow

\* The row and the incident a delivery writes.
LEMMA WrittenTypes ==
    ASSUME AlertInv, NEW p \in DOMAIN inflight, NEW f \in Fingerprints,
           NEW e \in NormalizeDelivery(p), Writes(p, f, e)
    PROVE  alerts'[f] \in AlertRow /\ alert_incidents'[f] \in AlertIncident \cup {NoValue}
<1> DEFINE absent == inflight[p]
           envs == UNION {c.environments : c \in Catalogs}
           written == UpsertAlert(e, absent)
<1>1. e.fingerprint = f /\ e \in Entry
  BY DEF Writes, AlertInv, AlertTypeOK, NormalizeDelivery
<1>2. /\ alerts[f] \in AlertRow \cup {NoValue}
      /\ alert_incidents[f] \in AlertIncident \cup {NoValue}
  BY DEF AlertInv, AlertTypeOK
<1>3. Occurrence(e, absent) \in Nat \ {0}
  <2>1. alerts[f] # NoValue => alerts[f].occurrence \in Nat \ {0}
    BY <1>2 DEF AlertRow
  <2> QED
    BY <1>1, <2>1 DEF Occurrence, Existing
<1>4. /\ e.status \in {"firing", "resolved"} /\ SourceEventAt(e) \in Moments
      /\ MappingState(LabelsOf[e.fingerprint]) \in {"mapped", "unmapped", "ambiguous"}
  BY <1>1, MomentsOfEntries, MappingIsState
<1>5. (IF alerts[e.fingerprint] = NoValue THEN NoValue ELSE alerts[e.fingerprint].incident)
        \in {NoValue, "own"} \cup envs
  BY <1>1, <1>2 DEF AlertRow
<1>6. written \in AlertRow
  <2> HIDE DEF envs
  <2>1. written \in [status : {"firing", "resolved"}, source_event_at : Moments,
                 occurrence : Nat \ {0}, mapping_state : {"mapped", "unmapped", "ambiguous"},
                 incident : {NoValue, "own"} \cup envs]
    BY <1>3, <1>4, <1>5 DEF UpsertAlert
  <2> QED
    BY <2>1 DEF AlertRow, envs
<1>7. [written EXCEPT !.incident = Attach(e)] \in AlertRow
  <2>1. Attach(e) \in {NoValue, "own"} \cup envs
    BY <1>1, AttachedTo
  <2> HIDE DEF written, envs
  <2>2. written \in AlertRow
    BY <1>6
  <2> QED
    BY <2>1, <2>2, RowAttached DEF envs
<1>8. SyncIncident(e, absent) \in AlertIncident \cup {NoValue}
  <2>1. \A b : (IF b THEN 1 ELSE 0) \in Nat
    OBVIOUS
  <2>2. \A b : OpenIncident(b) \in AlertIncident
    BY <2>1 DEF OpenIncident, AlertIncident
  <2>3. alert_incidents[f] # NoValue => \A b : FiringUpdate(f, b) \in AlertIncident
    BY <1>2, <2>1 DEF FiringUpdate, AlertIncident
  <2>4. alert_incidents[f] # NoValue =>
          [alert_incidents[f] EXCEPT !.mitigated = TRUE] \in AlertIncident
    BY <1>2 DEF AlertIncident
  <2> QED
    BY <1>1, <1>2, <2>2, <2>3, <2>4 DEF SyncIncident
<1> QED
  BY <1>2, <1>6, <1>7, <1>8 DEF Writes, Records, Refreshes

\* What a delivery writes shows the newest fact, and has it on the timeline.
LEMMA WrittenIsNewest ==
    ASSUME AlertInv, NEW p \in DOMAIN inflight, ApplyDelivery(p), NEW f \in Fingerprints,
           NEW e \in NormalizeDelivery(p), Writes(p, f, e)
    PROVE  /\ FactsOf(f)' = FactsOf(f) \cup {e}
           /\ alerts'[f] # NoValue /\ alerts'[f].status = e.status
           /\ alerts'[f].source_event_at = SourceEventAt(e)
           /\ alerts'[f].occurrence = Occurrence(e, inflight[p])
           /\ (RowIsNewest(f) /\ KeysAreFacts(f))'
<1> DEFINE key == DedupeKey(e, Occurrence(e, inflight[p]))
<1>1. /\ e.fingerprint = f /\ e \in Entry /\ ~Stale(e, inflight[p])
      /\ \A d \in NormalizeDelivery(p) : d.fingerprint = f => d = e
      /\ alert_events'[f] = alert_events[f] \cup {key}
  BY DEF Writes, AlertInv, AlertTypeOK, NormalizeDelivery
<1>2. FactsOf(f)' = FactsOf(f) \cup {e}
  BY <1>1 DEF ApplyDelivery, FactsOf
<1>3. /\ alerts'[f].status = e.status /\ alerts'[f].source_event_at = SourceEventAt(e)
      /\ alerts'[f].occurrence = Occurrence(e, inflight[p])
  BY DEF Writes, Records, Refreshes, UpsertAlert
<1>4. alerts'[f] # NoValue
  BY WrittenTypes, AlertAssumption
<1>5. ASSUME NEW d \in FactsOf(f)
      PROVE  SourceEventAt(d) <= SourceEventAt(e)
  <2>1. /\ alerts[f] # NoValue /\ alerts[f] \in AlertRow
        /\ SourceEventAt(d) <= alerts[f].source_event_at
    BY DEF AlertInv, KeysAreFacts, RowIsNewest, AlertTypeOK
  <2>2. ~(SourceEventAt(e) < alerts[f].source_event_at)
    BY <1>1, <2>1 DEF Stale
  <2>3. d \in Entry
    BY DEF AlertInv, AlertTypeOK, FactsOf
  <2>4. /\ SourceEventAt(e) \in Nat /\ alerts[f].source_event_at \in Nat
        /\ SourceEventAt(d) \in Nat
    BY <1>1, <2>1, <2>3, MomentsOfEntries, AlertAssumption DEF AlertRow, Moments
  <2> QED
    BY <2>1, <2>2, <2>4
<1>6. SourceEventAt(e) <= SourceEventAt(e)
  BY <1>1, MomentsOfEntries
<1>7. DedupeKey(e, alerts'[f].occurrence) \in alert_events'[f]
  BY <1>1, <1>3
<1>8. RowIsNewest(f)'
  <2>1. \A d \in FactsOf(f)' : SourceEventAt(d) <= alerts'[f].source_event_at
    BY <1>2, <1>3, <1>5, <1>6
  <2>2. e \in FactsOf(f)'
    BY <1>2
  <2> QED
    BY <1>3, <1>7, <2>1, <2>2 DEF RowIsNewest, SourceEventAt, DedupeKey
<1>9. KeysAreFacts(f)'
  <2>1. \A k \in alert_events[f] : \E d \in FactsOf(f)' :
          k[1] = d.status /\ k[3] = d.starts /\ k[4] = d.ends
    BY <1>2 DEF AlertInv, KeysAreFacts
  <2>2. key[1] = e.status /\ key[3] = e.starts /\ key[4] = e.ends
    BY DEF DedupeKey
  <2>3. \E d \in FactsOf(f)' : key[1] = d.status /\ key[3] = d.starts /\ key[4] = d.ends
    BY <1>2, <2>2
  <2> HIDE DEF key
  <2> QED
    BY <1>1, <1>4, <2>1, <2>3 DEF KeysAreFacts
<1> QED
  BY <1>2, <1>3, <1>4, <1>8, <1>9

\* What a delivery writes is on the timeline once, unless it was overtaken.
LEMMA WrittenOnce ==
    ASSUME AlertInv, NEW p \in DOMAIN inflight, ApplyDelivery(p), NEW f \in Fingerprints,
           NEW e \in NormalizeDelivery(p), Writes(p, f, e)
    PROVE  OncePerFactOf(f)'
<1> DEFINE absent == inflight[p]
           key == DedupeKey(e, Occurrence(e, absent))
<1>1. /\ e.fingerprint = f /\ ~Stale(e, absent)
      /\ alert_events'[f] = alert_events[f] \cup {key}
  BY DEF Writes
<1>2. key[1] = e.status /\ key[3] = e.starts /\ key[4] = e.ends
  BY DEF DedupeKey
<1>3. SUFFICES ASSUME f \notin overtaken'
               PROVE  \A k, l \in alert_events[f] \cup {key} :
                         (k[1] = l[1] /\ k[3] = l[3] /\ k[4] = l[4]) => k = l
  BY <1>1 DEF OncePerFactOf
<1>4. f \notin overtaken /\ (f \in absent => alerts[f] = NoValue)
  BY <1>3 DEF ApplyDelivery
<1>5. \A k, l \in alert_events[f] : (k[1] = l[1] /\ k[3] = l[3] /\ k[4] = l[4]) => k = l
  BY <1>4 DEF AlertInv, OncePerFactOf
<1>6. ASSUME NEW k \in alert_events[f], k[1] = e.status, k[3] = e.starts, k[4] = e.ends
      PROVE  k = key
  <2>1. e \in facts
    BY <1>1, <1>6, OnTheTimeline
  <2>2. /\ alerts[f] # NoValue /\ alerts[f].status = e.status
        /\ DedupeKey(e, alerts[f].occurrence) \in alert_events[f]
    BY <1>1, <2>1, WhatIsKnown
  <2>3. Existing(f, absent) = alerts[f]
    BY <1>4, <2>2 DEF Existing
  <2>4. ~Reopens(e, absent)
    BY <1>1, <2>2, <2>3 DEF Reopens
  <2>5. Occurrence(e, absent) = alerts[f].occurrence + 0
    BY <1>1, <2>2, <2>3, <2>4 DEF Occurrence
  <2>6. alerts[f].occurrence \in Nat
    BY <2>2 DEF AlertInv, AlertTypeOK, AlertRow
  <2>7. Occurrence(e, absent) = alerts[f].occurrence
    BY <2>5, <2>6
  <2>8. key \in alert_events[f]
    BY <2>2, <2>7
  <2> QED
    BY <1>2, <1>5, <1>6, <2>8
<1> HIDE DEF key
<1> QED
  BY <1>2, <1>5, <1>6

\* What a delivery writes is on somebody's screen.
LEMMA WrittenIsPaged ==
    ASSUME AlertInv, NEW p \in DOMAIN inflight, ApplyDelivery(p), NEW f \in Fingerprints,
           NEW e \in NormalizeDelivery(p), Writes(p, f, e)
    PROVE  PageKeptOf(f)'
<1> DEFINE absent == inflight[p]
<1>1. /\ e.fingerprint = f /\ e \in Entry /\ ~Stale(e, absent)
      /\ alert_incidents[f] \in AlertIncident \cup {NoValue}
      /\ e.status \in {"firing", "resolved"}
  BY MomentsOfEntries DEF Writes, AlertInv, AlertTypeOK, NormalizeDelivery
<1>2. alerts'[f].status = e.status
  BY WrittenIsNewest
<1>3. CASE Records(p, f, e)
  <2>1. /\ alerts'[f].incident = Attach(e) /\ alert_incidents'[f] = SyncIncident(e, absent)
        /\ recorded'[f] = MappingState(LabelsOf[f]) /\ Link(e) \subseteq links'
    BY <1>3 DEF Records, UpsertAlert
  <2>2. ASSUME e.status = "firing", MappingState(LabelsOf[f]) = "mapped",
               PriorityOf(f) \in INCIDENT_PRIORITIES
        PROVE  /\ Attach(e) # NoValue /\ <<f, Attach(e)>> \in links'
               /\ Attach(e) = "own" => ~SyncIncident(e, absent).mitigated
    <3>1. Pages(e)
      BY <1>1, <2>2 DEF Pages, OpensIncident
    <3>2. Attach(e) # NoValue /\ (Attach(e) = "own" <=> ~Correlates(e))
      BY <1>1, <3>1, AttachedTo
    <3>3. <<f, Attach(e)>> \in Link(e)
      BY <1>1, <2>2, <3>1 DEF Link
    <3>4. ASSUME ~Correlates(e)
          PROVE  ~SyncIncident(e, absent).mitigated
      BY <1>1, <2>2, <3>1, <3>4 DEF SyncIncident, FiringUpdate, OpenIncident
    <3> QED
      BY <2>1, <3>2, <3>3, <3>4
  <2>3. ASSUME e.status = "resolved", SyncIncident(e, absent) # NoValue
        PROVE  SyncIncident(e, absent).mitigated
    <3>1. alert_incidents[f] \in AlertIncident
          /\ SyncIncident(e, absent) = [alert_incidents[f] EXCEPT !.mitigated = TRUE]
      BY <1>1, <2>3 DEF SyncIncident
    <3> QED
      BY <3>1 DEF AlertIncident
  <2> QED
    BY <1>2, <2>1, <2>2, <2>3 DEF PageKeptOf, PriorityOf
<1>4. CASE Refreshes(p, f, e)
  <2>1. DedupeKey(e, Occurrence(e, absent)) \in alert_events[f]
    BY <1>1, <1>4 DEF Refreshes, RecordsEvent
  <2>2. /\ DedupeKey(e, Occurrence(e, absent))[1] = e.status
        /\ DedupeKey(e, Occurrence(e, absent))[3] = e.starts
        /\ DedupeKey(e, Occurrence(e, absent))[4] = e.ends
    BY DEF DedupeKey
  <2>3. e \in facts
    BY <1>1, <2>1, <2>2, OnTheTimeline
  <2>4. alerts[f] # NoValue /\ alerts[f].status = e.status
    BY <1>1, <2>3, WhatIsKnown
  <2>5. /\ alerts'[f].incident = alerts[f].incident /\ alerts'[f].status = alerts[f].status
        /\ alert_incidents'[f] = alert_incidents[f] /\ recorded'[f] = recorded[f]
    BY <1>1, <1>4, <2>4 DEF Refreshes, UpsertAlert
  <2>6. links \subseteq links' /\ PageKeptOf(f)
    BY DEF ApplyDelivery, AlertInv
  <2> QED
    BY <2>4, <2>5, <2>6 DEF PageKeptOf, PriorityOf
<1> QED
  BY <1>3, <1>4 DEF Writes

\* A delivery keeps the invariant.
LEMMA DeliveryKeepsAlerts ==
    ASSUME AlertInv, NEW p \in DOMAIN inflight, ApplyDelivery(p)
    PROVE  AlertInv'
<1>1. SourceInv'
  BY SourceStep DEF AlertInv, AlertNext
<1>2. ASSUME NEW f \in Fingerprints
      PROVE  /\ (RowIsNewest(f) /\ KeysAreFacts(f) /\ OncePerFactOf(f) /\ PageKeptOf(f))'
             /\ alerts'[f] \in AlertRow \cup {NoValue}
             /\ alert_incidents'[f] \in AlertIncident \cup {NoValue}
  <2>1. CASE LeavesAlone(p, f)
    <3>1. /\ alerts[f] \in AlertRow \cup {NoValue}
          /\ alert_incidents[f] \in AlertIncident \cup {NoValue}
      BY DEF AlertInv, AlertTypeOK
    <3> QED
      BY <2>1, <3>1, LeftAloneIsKept DEF LeavesAlone
  <2>2. CASE \E e \in NormalizeDelivery(p) : Writes(p, f, e)
    BY <2>2, WrittenIsNewest, WrittenOnce, WrittenIsPaged, WrittenTypes
  <2> QED
    BY <2>1, <2>2, WhatDeliveryDoes
<1>3. /\ alerts' \in [Fingerprints -> AlertRow \cup {NoValue}]
      /\ alert_incidents' \in [Fingerprints -> AlertIncident \cup {NoValue}]
  <2>1. /\ alerts' = [f \in Fingerprints |-> alerts'[f]]
        /\ alert_incidents' = [f \in Fingerprints |-> alert_incidents'[f]]
    BY DEF ApplyDelivery
  <2> QED
    BY <1>2, <2>1
<1>4. /\ UNCHANGED <<truth, sent, catalog, protection>> /\ deliveries' = deliveries \cup {p}
      /\ facts' = facts \cup NormalizeDelivery(p)
      /\ inflight' = [q \in DOMAIN inflight \ {p} |-> inflight[q]]
  BY DEF ApplyDelivery, Forget
<1>5. p \in sent /\ NormalizeDelivery(p) \subseteq Entry
  BY DEF AlertInv, AlertTypeOK, NormalizeDelivery
<1>6. AlertTypeOK'
  BY <1>3, <1>4, <1>5 DEF AlertInv, AlertTypeOK
<1>7. \A e \in facts' : Usable(e) /\ \E q \in deliveries' : e \in q
  BY <1>4 DEF AlertInv, NormalizeDelivery
<1>8. (protection \subseteq UNION {c.environments : c \in Catalogs})'
  BY <1>4 DEF AlertInv
<1> QED
  BY <1>1, <1>2, <1>6, <1>7, <1>8 DEF AlertInv

\* Every step keeps the invariant.
LEMMA AlertStep == AlertInv /\ [AlertNext]_alertVars => AlertInv'
<1> SUFFICES ASSUME AlertInv, [AlertNext]_alertVars
             PROVE  AlertInv'
  OBVIOUS
<1>1. SourceInv'
  BY SourceStep DEF AlertInv
<1>2. ASSUME UNCHANGED <<deliveries, alerts, alert_events, alert_incidents, links, facts,
                         recorded, overtaken>>,
             (protection \subseteq UNION {c.environments : c \in Catalogs})',
             catalog' \in Catalogs, sent \subseteq sent', DOMAIN inflight' \subseteq sent',
             \A p \in DOMAIN inflight' : inflight'[p] \subseteq Fingerprints
      PROVE  AlertInv'
  <2>1. AlertTypeOK'
    BY <1>1, <1>2 DEF AlertInv, AlertTypeOK, SourceInv
  <2>2. \A e \in facts' : Usable(e) /\ \E q \in deliveries' : e \in q
    BY <1>2 DEF AlertInv
  <2>3. ASSUME NEW f \in Fingerprints
        PROVE  (RowIsNewest(f) /\ KeysAreFacts(f) /\ OncePerFactOf(f) /\ PageKeptOf(f))'
    <3>1. RowIsNewest(f) /\ KeysAreFacts(f) /\ OncePerFactOf(f) /\ PageKeptOf(f)
      BY DEF AlertInv
    <3>2. FactsOf(f)' = FactsOf(f)
      BY <1>2 DEF FactsOf
    <3>3. RowIsNewest(f)'
      BY <1>2, <3>1, <3>2 DEF RowIsNewest, SourceEventAt, DedupeKey
    <3>4. KeysAreFacts(f)'
      BY <1>2, <3>1, <3>2 DEF KeysAreFacts
    <3> QED
      BY <1>2, <3>1, <3>3, <3>4 DEF OncePerFactOf, PageKeptOf, PriorityOf
  <2> QED
    BY <1>1, <1>2, <2>1, <2>2, <2>3 DEF AlertInv
<1>3. /\ protection \subseteq UNION {c.environments : c \in Catalogs} /\ catalog \in Catalogs
      /\ DOMAIN inflight \subseteq sent
      /\ \A p \in DOMAIN inflight : inflight[p] \subseteq Fingerprints
  BY DEF AlertInv, AlertTypeOK
<1>4. CASE \E f \in Fingerprints : Fires(f) \/ Clears(f)
  BY <1>2, <1>3, <1>4 DEF Fires, Clears
<1>5. CASE \E g \in SUBSET Fingerprints :
              Compose(g) \/ \E bad \in g : ComposeMalformed(g, bad)
  BY <1>2, <1>3, <1>5 DEF Compose, ComposeMalformed
<1>6. CASE \E c \in Catalogs \ {catalog} : ImportCatalog(c)
  BY <1>2, <1>3, <1>6 DEF ImportCatalog
<1>7. CASE \E environment \in catalog.environments : ProtectionChanges(environment)
  BY <1>2, <1>3, <1>7 DEF ProtectionChanges
<1>8. CASE \E p \in sent : \E absent \in SUBSET Fingerprints : Receive(p, absent)
  BY <1>2, <1>3, <1>8 DEF Receive
<1>9. CASE \E p \in DOMAIN inflight : AbortDelivery(p)
  BY <1>2, <1>3, <1>9 DEF AbortDelivery, Forget
<1>10. CASE \E p \in DOMAIN inflight : ApplyDelivery(p)
  BY <1>10, DeliveryKeepsAlerts
<1>11. CASE UNCHANGED alertVars
  BY <1>2, <1>3, <1>11 DEF alertVars
<1> QED
  BY <1>4, <1>5, <1>6, <1>7, <1>8, <1>9, <1>10, <1>11 DEF AlertNext

\* Every behaviour of alert ingestion keeps the invariant.
LEMMA AlertInvariant == AlertSpec => []AlertInv
  BY AlertInitially, AlertStep, PTL DEF AlertSpec

(* However deliveries are delayed, repeated, reordered or overlap, the row *)
(* of an alert shows the newest fact any of them carried, and a firing P1  *)
(* or P2 alert has an incident that is not marked mitigated.               *)
THEOREM NewestFactIsShown == AlertSpec => []ScreenShowsTheNewestFact
<1>1. AlertInv => ScreenShowsTheNewestFact
  <2> SUFFICES ASSUME AlertInv
               PROVE  AlertTypeOK /\ NewestFactWins /\ PageKept
    BY DEF ScreenShowsTheNewestFact
  <2>1. PageKept
    BY DEF AlertInv, PageKept, PageKeptOf
  <2>2. NewestFactWins
    <3> SUFFICES ASSUME NEW f \in Fingerprints
                 PROVE  IF FactsOf(f) = {} THEN alerts[f] = NoValue
                        ELSE \E e \in FactsOf(f) :
                                /\ \A d \in FactsOf(f) : SourceEventAt(d) <= SourceEventAt(e)
                                /\ alerts[f] # NoValue
                                /\ alerts[f].source_event_at = SourceEventAt(e)
                                /\ alerts[f].status = e.status
      BY DEF NewestFactWins, FactsOf
    <3>1. RowIsNewest(f) /\ KeysAreFacts(f)
      BY DEF AlertInv
    <3> QED
      BY <3>1 DEF RowIsNewest, KeysAreFacts
  <2> QED
    BY <2>1, <2>2 DEF AlertInv
<1> QED
  BY <1>1, AlertInvariant, PTL

(* A fact is on the timeline of its alert once, whatever payloads carried  *)
(* it, unless the first delivery of the alert was overtaken.               *)
THEOREM AFactIsRecordedOnce == AlertSpec => []OncePerFact
<1>1. AlertInv => OncePerFact
  BY DEF AlertInv, OncePerFactOf, OncePerFact
<1> QED
  BY <1>1, AlertInvariant, PTL

----------------------------------------------------------------------------
(* Webhook deliveries.                                                     *)

(* What HookTypeOK leaves unsaid: every process has a flight.              *)
HookTypes == HookTypeOK /\ DOMAIN flight = Senders

(* A worker that holds a 2xx answer got it from the receiver.  Without it  *)
(* "delivered says that the receiver accepted" is not inductive.           *)
AnswersAreReal ==
    \A w \in Senders : \A d \in DOMAIN flight[w] :
       flight[w][d].outcome = "delivered" => d \in accepted

(* A claim is held on rows in processing only.  Without it the lease of a  *)
(* finished delivery could run out and change its row.                     *)
ClaimsAreProcessing ==
    \A d \in Deliveries : row[d].lock = "held" => row[d].state = "processing"

(* A row that is not there has no attempts: the planner starts from zero.  *)
AbsentIsUntouched ==
    \A d \in Deliveries : row[d].state = "absent" => row[d].attempt_count = 0

(* AttemptsTellTheStory, of one delivery.                                  *)
Story(d) ==
    LET n == row[d].attempt_count
        last == attempts[d][n]
    IN  /\ \A i \in 1..MaxAttempts : attempts[d][i] # NoOutcome <=> i <= n
        /\ \A i \in 1..MaxAttempts : i < n => attempts[d][i] = "retryable"
        /\ row[d].state = "delivered" => n > 0 /\ last = "delivered" /\ d \in accepted
        /\ row[d].state = "dead_letter" => n > 0 /\ last # "delivered"
        /\ row[d].state \in {"pending", "processing", "retrying"} =>
              /\ n < MaxAttempts
              /\ n > 0 => last = "retryable"
        /\ row[d].state = "suppressed" => n = 0 \/ last = "retryable"

\* The inductive invariant of the delivery worker.
DeliveryInv ==
    /\ HookTypes
    /\ OneHolder
    /\ \A d \in Deliveries : Story(d)
    /\ AnswersAreReal
    /\ ClaimsAreProcessing
    /\ AbsentIsUntouched

----------------------------------------------------------------------------
(* What the shared parts of the actions do.                                *)

\* A row of the story is untouched: so is its story.
LEMMA StoryStands ==
    ASSUME NEW d \in Deliveries, Story(d), accepted \subseteq accepted',
           attempts'[d] = attempts[d], row'[d].attempt_count = row[d].attempt_count,
           row'[d].state = row[d].state
    PROVE  Story(d)'
BY DEF Story

\* Dropping a delivery takes it out of one flight and leaves the rest.
LEMMA DropEffect ==
    ASSUME HookTypes, NEW w \in Senders, NEW d, Drop(w, d)
    PROVE  /\ DOMAIN flight' = Senders
           /\ DOMAIN flight'[w] = DOMAIN flight[w] \ {d}
           /\ \A c \in DOMAIN flight'[w] : flight'[w][c] = flight[w][c]
           /\ \A v \in Senders \ {w} : flight'[v] = flight[v]
BY DEF HookTypes, Drop

\* A worker lets go of a delivery that nobody touches meanwhile: whoever
\* still holds one holds what the row says.
LEMMA DropKeepsFlights ==
    ASSUME DeliveryInv, NEW w \in Senders, NEW d \in DOMAIN flight[w], Drop(w, d),
           \A c \in Deliveries \ {d} : row'[c] = row[c],
           accepted' = accepted
    PROVE  /\ DOMAIN flight' = Senders
           /\ \A v \in Senders : /\ DOMAIN flight'[v] \subseteq Deliveries
                                 /\ \A c \in DOMAIN flight'[v] : flight'[v][c] \in Held
           /\ OneHolder'
           /\ AnswersAreReal'
<1>1. /\ DOMAIN flight' = Senders
      /\ DOMAIN flight'[w] = DOMAIN flight[w] \ {d}
      /\ \A c \in DOMAIN flight'[w] : flight'[w][c] = flight[w][c]
      /\ \A v \in Senders \ {w} : flight'[v] = flight[v]
  BY DropEffect DEF DeliveryInv
<1>2. ASSUME NEW v \in Senders, NEW c \in DOMAIN flight'[v]
      PROVE  /\ c \in DOMAIN flight[v] /\ c # d /\ c \in Deliveries
             /\ flight'[v][c] = flight[v][c]
  <2>1. CASE v = w
    BY <1>1, <1>2, <2>1 DEF DeliveryInv, HookTypes, HookTypeOK
  <2>2. CASE v # w
    BY <1>1, <1>2, <2>2 DEF DeliveryInv, HookTypes, HookTypeOK, OneHolder
  <2> QED
    BY <2>1, <2>2
<1>3. \A v \in Senders : /\ DOMAIN flight'[v] \subseteq Deliveries
                         /\ \A c \in DOMAIN flight'[v] : flight'[v][c] \in Held
  BY <1>2 DEF DeliveryInv, HookTypes, HookTypeOK
<1>4. OneHolder'
  BY <1>2 DEF DeliveryInv, OneHolder
<1>5. AnswersAreReal'
  BY <1>2 DEF DeliveryInv, AnswersAreReal
<1> QED
  BY <1>1, <1>3, <1>4, <1>5

----------------------------------------------------------------------------
(* One lemma per action.                                                   *)

\* The invariant holds initially.
LEMMA DeliveryInit == HookInit => DeliveryInv
<1> SUFFICES ASSUME HookInit
             PROVE  DeliveryInv
  OBVIOUS
<1> USE DeliveryAssumption DEF DeliveryAssumption
<1>1. Absent \in DeliveryRows
  BY DEF Absent, DeliveryRows, States
<1>2. DOMAIN Nothing = {}
  BY DEF Nothing
<1>3. HookTypes
  BY <1>1, <1>2 DEF HookInit, HookTypes, HookTypeOK
<1>4. ASSUME NEW d \in Deliveries
      PROVE  Story(d)
  <2>1. row[d] = Absent /\ \A i \in 1..MaxAttempts : attempts[d][i] = NoOutcome
    BY DEF HookInit
  <2> QED
    BY <2>1 DEF Absent, Story
<1>5. OneHolder /\ AnswersAreReal
  BY <1>2 DEF HookInit, OneHolder, AnswersAreReal
<1>6. ClaimsAreProcessing
  BY DEF HookInit, ClaimsAreProcessing, Absent
<1>7. AbsentIsUntouched
  BY DEF HookInit, AbsentIsUntouched, Absent
<1> QED
  BY <1>3, <1>4, <1>5, <1>6, <1>7 DEF DeliveryInv

\* The planner's insert, a backoff and a claim running out.
LEMMA DeliveryTime ==
    ASSUME DeliveryInv, NEW d \in Deliveries,
           Schedule(d) \/ BecomeDue(d) \/ ClaimExpires(d)
    PROVE  DeliveryInv'
<1>1. row \in [Deliveries -> DeliveryRows]
  BY DEF DeliveryInv, HookTypes, HookTypeOK
<1>2. /\ row' \in [Deliveries -> DeliveryRows]
      /\ row'[d].attempt_count = row[d].attempt_count
      /\ row'[d].state # row[d].state => row[d].state = "absent" /\ row'[d].state = "pending"
      /\ row'[d].lock = "held" => row[d].lock = "held"
      /\ \A c \in Deliveries \ {d} : row'[c] = row[c]
  <2>1. row[d] \in DeliveryRows
    BY <1>1
  <2>2. /\ [row[d] EXCEPT !.state = "pending", !.due = TRUE] \in DeliveryRows
        /\ [row[d] EXCEPT !.due = TRUE] \in DeliveryRows
        /\ [row[d] EXCEPT !.lock = "expired"] \in DeliveryRows
    BY <2>1 DEF DeliveryRows, States
  <2>3. CASE Schedule(d)
    BY <1>1, <2>1, <2>2, <2>3 DEF Schedule, DeliveryRows
  <2>4. CASE BecomeDue(d)
    BY <1>1, <2>1, <2>2, <2>4 DEF BecomeDue, DeliveryRows
  <2>5. CASE ClaimExpires(d)
    BY <1>1, <2>1, <2>2, <2>5 DEF ClaimExpires, DeliveryRows
  <2> QED
    BY <2>3, <2>4, <2>5
<1>3. UNCHANGED <<attempts, registry, flight, accepted, stops>>
  BY DEF Schedule, BecomeDue, ClaimExpires
<1>4. HookTypes'
  BY <1>2, <1>3 DEF DeliveryInv, HookTypes, HookTypeOK
<1>5. OneHolder'
  BY <1>2, <1>3 DEF DeliveryInv, OneHolder, HookTypes, HookTypeOK
<1>6. ASSUME NEW c \in Deliveries
      PROVE  Story(c)'
  <2>1. CASE row'[c].state = row[c].state
    BY <1>2, <1>3, <2>1, StoryStands DEF DeliveryInv
  <2>2. CASE row'[c].state # row[c].state
    <3>1. c = d /\ row[d].state = "absent" /\ row'[d].state = "pending"
      BY <1>2, <2>2
    <3>2. row[d].attempt_count = 0
      BY <3>1 DEF DeliveryInv, AbsentIsUntouched
    <3> QED
      BY <1>2, <1>3, <3>1, <3>2, DeliveryAssumption DEF DeliveryInv, Story, DeliveryAssumption
  <2> QED
    BY <2>1, <2>2
<1>7. AnswersAreReal'
  BY <1>3 DEF DeliveryInv, AnswersAreReal
<1>8. ClaimsAreProcessing'
  BY <1>1, <1>2 DEF DeliveryInv, ClaimsAreProcessing
<1>9. AbsentIsUntouched'
  BY <1>2 DEF DeliveryInv, AbsentIsUntouched
<1> QED
  BY <1>4, <1>5, <1>6, <1>7, <1>8, <1>9 DEF DeliveryInv

\* A claim takes rows nobody holds.
LEMMA DeliveryClaim ==
    ASSUME DeliveryInv, NEW w \in Senders, NEW batch \in SUBSET Deliveries,
           ClaimBatch(w, batch)
    PROVE  DeliveryInv'
<1>1. /\ row \in [Deliveries -> DeliveryRows] /\ DOMAIN flight = Senders
      /\ DOMAIN flight[w] = {}
      /\ \A d \in batch : /\ row[d].state \in {"pending", "retrying"}
                          /\ row'[d] = [row[d] EXCEPT !.state = "processing", !.lock = "held"]
      /\ \A d \in Deliveries \ batch : row'[d] = row[d]
  BY DEF DeliveryInv, HookTypes, HookTypeOK, ClaimBatch, ClaimableRow, Nothing
<1>2. /\ DOMAIN flight' = Senders /\ DOMAIN flight'[w] = batch
      /\ \A d \in batch : flight'[w][d] = [attempt_count |-> row[d].attempt_count,
                                           outcome |-> NoOutcome]
      /\ \A v \in Senders \ {w} : flight'[v] = flight[v]
      /\ UNCHANGED <<attempts, registry, accepted, stops>>
  BY <1>1 DEF ClaimBatch
<1>3. ASSUME NEW d \in Deliveries
      PROVE  /\ row'[d] \in DeliveryRows
             /\ row'[d].attempt_count = row[d].attempt_count
             /\ row'[d].state = IF d \in batch THEN "processing" ELSE row[d].state
             /\ d \notin batch => row'[d] = row[d]
  <2>1. row[d] \in DeliveryRows
    BY <1>1
  <2>2. [row[d] EXCEPT !.state = "processing", !.lock = "held"] \in DeliveryRows
    BY <2>1 DEF DeliveryRows, States
  <2>3. CASE d \in batch
    BY <1>1, <2>1, <2>2, <2>3 DEF DeliveryRows
  <2>4. CASE d \notin batch
    BY <1>1, <2>1, <2>4
  <2> QED
    BY <2>3, <2>4
<1>4. row' \in [Deliveries -> DeliveryRows]
  BY <1>3 DEF ClaimBatch
<1>5. ASSUME NEW v \in Senders, NEW d \in DOMAIN flight'[v]
      PROVE  /\ d \in Deliveries /\ flight'[v][d] \in Held
             /\ row'[d].state = "processing"
             /\ flight'[v][d].attempt_count = row'[d].attempt_count
             /\ flight'[v][d].outcome = "delivered" => d \in accepted
             /\ \A u \in Senders \ {v} : d \notin DOMAIN flight'[u]
  <2>1. CASE v = w
    <3>1. /\ d \in batch /\ row[d] \in DeliveryRows
          /\ row[d].state \in {"pending", "retrying"}
      BY <1>1, <1>2, <1>5, <2>1
    <3>2. \A u \in Senders : d \notin DOMAIN flight[u]
      BY <3>1 DEF DeliveryInv, OneHolder
    <3>3. NoOutcome # "delivered"
      BY DeliveryAssumption DEF DeliveryAssumption, Outcomes
    <3> QED
      BY <1>2, <1>3, <2>1, <3>1, <3>2, <3>3 DEF Held, DeliveryRows
  <2>2. CASE v # w
    <3>1. d \in DOMAIN flight[v] /\ d \in Deliveries /\ flight[v][d] \in Held
      BY <1>2, <1>5, <2>2 DEF DeliveryInv, HookTypes, HookTypeOK
    <3>2. row[d].state = "processing" /\ d \notin batch
      BY <1>1, <3>1 DEF DeliveryInv, OneHolder
    <3> QED
      BY <1>2, <1>3, <2>2, <3>1, <3>2 DEF DeliveryInv, OneHolder, AnswersAreReal
  <2> QED
    BY <2>1, <2>2
<1>6. HookTypes'
  BY <1>2, <1>4, <1>5 DEF DeliveryInv, HookTypes, HookTypeOK
<1>7. OneHolder' /\ AnswersAreReal'
  BY <1>2, <1>5 DEF OneHolder, AnswersAreReal
<1>8. ASSUME NEW d \in Deliveries
      PROVE  Story(d)'
  <2>1. CASE d \in batch
    <3>1. row[d].state \in {"pending", "retrying"} /\ row'[d].state = "processing"
      BY <1>1, <1>3, <2>1
    <3> QED
      BY <1>2, <1>3, <3>1 DEF DeliveryInv, Story
  <2>2. CASE d \notin batch
    BY <1>2, <1>3, <2>2, StoryStands DEF DeliveryInv
  <2> QED
    BY <2>1, <2>2
<1>9. ClaimsAreProcessing' /\ AbsentIsUntouched'
  BY <1>3 DEF DeliveryInv, ClaimsAreProcessing, AbsentIsUntouched
<1> QED
  BY <1>6, <1>7, <1>8, <1>9 DEF DeliveryInv

\* A request changes only what its worker knows and who accepted.
LEMMA DeliverySend ==
    ASSUME DeliveryInv, NEW w \in Senders, NEW d \in Deliveries, Send(w, d)
    PROVE  DeliveryInv'
<1> PICK outcome \in Outcomes :
       /\ flight' = [flight EXCEPT ![w][d].outcome = outcome]
       /\ accepted' = IF outcome = "delivered" THEN accepted \cup {d} ELSE accepted
  BY DEF Send
<1>1. /\ d \in DOMAIN flight[w] /\ DOMAIN flight = Senders /\ flight[w][d] \in Held
      /\ accepted \subseteq Deliveries
  BY DEF Send, DeliveryInv, HookTypes, HookTypeOK
<1>2. UNCHANGED <<row, attempts, registry, stops>>
  BY DEF Send
<1>3. accepted \subseteq accepted' /\ accepted' \subseteq Deliveries
  BY <1>1
<1>4. /\ DOMAIN flight' = Senders
      /\ \A v \in Senders : DOMAIN flight'[v] = DOMAIN flight[v]
      /\ \A v \in Senders : \A c \in DOMAIN flight[v] :
           IF v = w /\ c = d THEN flight'[v][c] = [flight[v][c] EXCEPT !.outcome = outcome]
                            ELSE flight'[v][c] = flight[v][c]
  BY <1>1
<1>5. ASSUME NEW v \in Senders, NEW c \in DOMAIN flight[v]
      PROVE  /\ flight'[v][c] \in Held
             /\ flight'[v][c].attempt_count = flight[v][c].attempt_count
             /\ flight'[v][c].outcome = "delivered" => c \in accepted'
  <2>1. flight[v][c] \in Held
    BY DEF DeliveryInv, HookTypes, HookTypeOK
  <2>2. CASE v = w /\ c = d
    BY <1>4, <2>1, <2>2 DEF Held
  <2>3. CASE ~(v = w /\ c = d)
    BY <1>3, <1>4, <2>1, <2>3 DEF DeliveryInv, AnswersAreReal
  <2> QED
    BY <2>2, <2>3
<1>6. HookTypes'
  BY <1>2, <1>3, <1>4, <1>5 DEF DeliveryInv, HookTypes, HookTypeOK
<1>7. OneHolder'
  BY <1>2, <1>4, <1>5 DEF DeliveryInv, OneHolder
<1>8. \A c \in Deliveries : Story(c)'
  BY <1>2, <1>3, StoryStands DEF DeliveryInv
<1>9. AnswersAreReal' /\ ClaimsAreProcessing' /\ AbsentIsUntouched'
  BY <1>2, <1>4, <1>5 DEF DeliveryInv, AnswersAreReal, ClaimsAreProcessing, AbsentIsUntouched
<1> QED
  BY <1>6, <1>7, <1>8, <1>9 DEF DeliveryInv

\* The state after an attempt is one the row may have, and never a claim.
LEMMA StateAfterType ==
    ASSUME NEW outcome \in Outcomes, NEW number \in Nat, NEW old \in BOOLEAN
    PROVE  /\ StateAfter(outcome, number, old) \in {"delivered", "dead_letter", "retrying"}
           /\ StateAfter(outcome, number, old) = "delivered" => outcome = "delivered"
           /\ StateAfter(outcome, number, old) = "dead_letter" => outcome # "delivered"
           /\ StateAfter(outcome, number, old) = "retrying" =>
                 outcome = "retryable" /\ number < MaxAttempts
BY DeliveryAssumption DEF StateAfter, Outcomes, DeliveryAssumption

\* An attempt that is recorded is the next one of its delivery.
LEMMA DeliveryRecord ==
    ASSUME DeliveryInv, NEW w \in Senders, NEW d \in Deliveries, RecordAttempt(w, d)
    PROVE  DeliveryInv'
<1> DEFINE outcome == flight[w][d].outcome
           n == row[d].attempt_count
<1>1. /\ d \in DOMAIN flight[w] /\ Drop(w, d)
      /\ outcome \in Outcomes /\ n \in 0..MaxAttempts /\ n \in Nat
      /\ row[d].state = "processing" /\ flight[w][d].attempt_count = n
      /\ row[d] \in DeliveryRows
      /\ UNCHANGED <<registry, accepted, stops>>
  BY DEF RecordAttempt, DeliveryInv, HookTypes, HookTypeOK, OneHolder, Held, DeliveryRows
<1>2. n < MaxAttempts /\ (n > 0 => attempts[d][n] = "retryable")
  BY <1>1 DEF DeliveryInv, Story
<1>3. attempts[d][n + 1] = NoOutcome
  BY <1>1, <1>2, DeliveryAssumption DEF DeliveryInv, Story, DeliveryAssumption
<1>4. PICK old \in BOOLEAN :
        /\ attempts' = [attempts EXCEPT ![d][n + 1] = IF @ = NoOutcome THEN outcome ELSE @]
        /\ row' = [row EXCEPT ![d] =
                     [state |-> StateAfter(outcome, n + 1, old), attempt_count |-> n + 1,
                      due |-> @.due /\ StateAfter(outcome, n + 1, old) # "retrying",
                      lock |-> "none"]]
  BY <1>1 DEF RecordAttempt, TerminalStates
<1> DEFINE state == StateAfter(outcome, n + 1, old)
<1>5. /\ state \in {"delivered", "dead_letter", "retrying"}
      /\ state = "delivered" => outcome = "delivered"
      /\ state = "dead_letter" => outcome # "delivered"
      /\ state = "retrying" => outcome = "retryable" /\ n + 1 < MaxAttempts
  <2>1. n + 1 \in Nat /\ n + 1 < MaxAttempts <=> ~(n + 1 >= MaxAttempts)
    BY <1>1, DeliveryAssumption DEF DeliveryAssumption
  <2> HIDE DEF outcome, n
  <2> QED
    BY <1>1, <2>1, StateAfterType
<1>6. /\ row \in [Deliveries -> DeliveryRows]
      /\ attempts \in [Deliveries -> [1..MaxAttempts -> Outcomes \cup {NoOutcome}]]
  BY DEF DeliveryInv, HookTypes, HookTypeOK
<1>7. outcome = "delivered" => d \in accepted
  BY <1>1 DEF DeliveryInv, AnswersAreReal
<1>8. n + 1 \in 1..MaxAttempts
  BY <1>1, <1>2, DeliveryAssumption DEF DeliveryAssumption
<1> HIDE DEF outcome, state, n
<1>9. /\ \A c \in Deliveries \ {d} : row'[c] = row[c] /\ attempts'[c] = attempts[c]
      /\ row'[d] = [state |-> state, attempt_count |-> n + 1,
                    due |-> row[d].due /\ state # "retrying", lock |-> "none"]
      /\ attempts'[d] = [attempts[d] EXCEPT ![n + 1] = outcome]
  <2>1. /\ DOMAIN row = Deliveries /\ DOMAIN attempts = Deliveries
        /\ DOMAIN attempts[d] = 1..MaxAttempts
    BY <1>6
  <2>2. attempts'[d] = [attempts[d] EXCEPT ![n + 1] =
                          IF attempts[d][n + 1] = NoOutcome THEN outcome
                          ELSE attempts[d][n + 1]]
    BY <1>4, <2>1
  <2>3. attempts'[d] = [attempts[d] EXCEPT ![n + 1] = outcome]
    BY <1>3, <2>2
  <2> QED
    BY <1>4, <2>1, <2>3 DEF state
<1>10. /\ row' \in [Deliveries -> DeliveryRows]
       /\ attempts' \in [Deliveries -> [1..MaxAttempts -> Outcomes \cup {NoOutcome}]]
  <2>1. row'[d] \in DeliveryRows
    <3>1. (row[d].due /\ state # "retrying") \in BOOLEAN
      OBVIOUS
    <3>2. state \in States /\ n + 1 \in 0..MaxAttempts
      BY <1>1, <1>5, <1>8 DEF States, TerminalStates
    <3> QED
      BY <1>9, <3>1, <3>2 DEF DeliveryRows
  <2>2. attempts'[d] \in [1..MaxAttempts -> Outcomes \cup {NoOutcome}]
    <3>1. attempts[d] \in [1..MaxAttempts -> Outcomes \cup {NoOutcome}]
      BY <1>6
    <3> QED
      BY <1>1, <1>9, <3>1
  <2>3. DOMAIN row' = Deliveries /\ DOMAIN attempts' = Deliveries
    BY <1>4, <1>6
  <2> QED
    BY <1>4, <1>6, <1>9, <2>1, <2>2, <2>3
<1>11. /\ DOMAIN flight' = Senders
       /\ \A v \in Senders : /\ DOMAIN flight'[v] \subseteq Deliveries
                             /\ \A c \in DOMAIN flight'[v] : flight'[v][c] \in Held
       /\ OneHolder' /\ AnswersAreReal'
  BY <1>1, <1>9, DropKeepsFlights
<1>12. HookTypes'
  BY <1>1, <1>10, <1>11 DEF DeliveryInv, HookTypes, HookTypeOK
<1>13. ASSUME NEW c \in Deliveries
       PROVE  Story(c)'
  <2>1. CASE c = d
    <3>1. /\ attempts'[d][n + 1] = outcome
          /\ \A i \in 1..MaxAttempts : i # n + 1 => attempts'[d][i] = attempts[d][i]
      BY <1>6, <1>8, <1>9
    <3>2. \A i \in 1..MaxAttempts : attempts'[d][i] # NoOutcome <=> i <= n + 1
      BY <1>1, <1>3, <1>8, <3>1, DeliveryAssumption
      DEF DeliveryInv, Story, DeliveryAssumption, n
    <3>3. \A i \in 1..MaxAttempts : i < n + 1 => attempts'[d][i] = "retryable"
      BY <1>1, <1>2, <3>1, DeliveryAssumption DEF DeliveryInv, Story, DeliveryAssumption, n
    <3>4. d \in accepted' <=> d \in accepted
      BY <1>1
    <3>5. n + 1 > 0
      BY <1>1
    <3>6. row'[d].state = state /\ row'[d].attempt_count = n + 1
      BY <1>9
    <3>7. Story(d)'
      BY <1>5, <1>7, <3>1, <3>2, <3>3, <3>4, <3>5, <3>6 DEF Story
    <3> QED
      BY <2>1, <3>7
  <2>2. CASE c # d
    BY <1>1, <1>9, <2>2, StoryStands DEF DeliveryInv
  <2> QED
    BY <2>1, <2>2
<1>14. ClaimsAreProcessing' /\ AbsentIsUntouched'
  BY <1>5, <1>9 DEF DeliveryInv, ClaimsAreProcessing, AbsentIsUntouched
<1> QED
  BY <1>11, <1>12, <1>13, <1>14 DEF DeliveryInv

\* A delivery whose key left the registry is closed without an attempt.
LEMMA DeliverySuppress ==
    ASSUME DeliveryInv, NEW w \in Senders, NEW d \in Deliveries, Suppress(w, d)
    PROVE  DeliveryInv'
<1>1. /\ d \in DOMAIN flight[w] /\ Drop(w, d)
      /\ row[d].state = "processing" /\ row[d] \in DeliveryRows
      /\ UNCHANGED <<attempts, registry, accepted, stops>>
  BY DEF Suppress, DeliveryInv, HookTypes, HookTypeOK, OneHolder
<1>2. row' = [row EXCEPT ![d].state = "suppressed", ![d].lock = "none"]
  BY <1>1 DEF Suppress, TerminalStates
<1>3. row \in [Deliveries -> DeliveryRows]
  BY DEF DeliveryInv, HookTypes, HookTypeOK
<1>4. /\ [row[d] EXCEPT !.state = "suppressed", !.lock = "none"] \in DeliveryRows
      /\ row'[d] = [row[d] EXCEPT !.state = "suppressed", !.lock = "none"]
  BY <1>1, <1>2, <1>3 DEF DeliveryRows, States, TerminalStates
<1>5. /\ row' \in [Deliveries -> DeliveryRows]
      /\ row'[d].state = "suppressed" /\ row'[d].lock = "none"
      /\ row'[d].attempt_count = row[d].attempt_count
      /\ \A c \in Deliveries \ {d} : row'[c] = row[c]
  BY <1>1, <1>2, <1>3, <1>4 DEF DeliveryRows
<1>6. /\ DOMAIN flight' = Senders
      /\ \A v \in Senders : /\ DOMAIN flight'[v] \subseteq Deliveries
                            /\ \A c \in DOMAIN flight'[v] : flight'[v][c] \in Held
      /\ OneHolder' /\ AnswersAreReal'
  BY <1>1, <1>5, DropKeepsFlights
<1>7. HookTypes'
  BY <1>1, <1>5, <1>6 DEF DeliveryInv, HookTypes, HookTypeOK
<1>8. ASSUME NEW c \in Deliveries
      PROVE  Story(c)'
  <2>1. CASE c = d
    <3>1. row[d].attempt_count \in Nat
      BY <1>1, DeliveryAssumption DEF DeliveryRows, DeliveryAssumption
    <3>2. Story(d)'
      BY <1>1, <1>5, <3>1 DEF DeliveryInv, Story
    <3> QED
      BY <2>1, <3>2
  <2>2. CASE c # d
    BY <1>1, <1>5, <2>2, StoryStands DEF DeliveryInv
  <2> QED
    BY <2>1, <2>2
<1>9. ClaimsAreProcessing' /\ AbsentIsUntouched'
  BY <1>5 DEF DeliveryInv, ClaimsAreProcessing, AbsentIsUntouched
<1> QED
  BY <1>6, <1>7, <1>8, <1>9 DEF DeliveryInv

\* A worker that fails or stops lets go of deliveries and changes no row.
LEMMA DeliveryFaults ==
    ASSUME DeliveryInv, NEW w \in Senders,
           (\E d \in Deliveries : DeliverOneFails(w, d)) \/ StopMidCycle(w) \/ Restart(w)
    PROVE  DeliveryInv'
<1> USE DeliveryAssumption DEF DeliveryAssumption
<1>1. /\ UNCHANGED <<row, attempts, accepted>>
      /\ stops' \in 0..MaxStops /\ registry' \in [Senders -> SUBSET Keys]
  BY DEF DeliverOneFails, StopMidCycle, Restart, DeliveryInv, HookTypes, HookTypeOK
<1>2. /\ DOMAIN flight' = Senders
      /\ \A v \in Senders : /\ DOMAIN flight'[v] \subseteq Deliveries
                            /\ \A c \in DOMAIN flight'[v] : flight'[v][c] \in Held
      /\ OneHolder' /\ AnswersAreReal'
  <2>1. CASE \E d \in Deliveries : DeliverOneFails(w, d)
    <3> PICK d \in Deliveries : DeliverOneFails(w, d)
      BY <2>1
    <3>1. d \in DOMAIN flight[w] /\ Drop(w, d)
      BY DEF DeliverOneFails
    <3> QED
      BY <1>1, <3>1, DropKeepsFlights
  <2>2. CASE StopMidCycle(w)
    <3>1. /\ DOMAIN flight' = Senders /\ DOMAIN flight'[w] = {}
          /\ \A v \in Senders \ {w} : flight'[v] = flight[v]
      BY <2>2 DEF StopMidCycle, Nothing, DeliveryInv, HookTypes
    <3>2. ASSUME NEW v \in Senders, NEW c \in DOMAIN flight'[v]
          PROVE  c \in DOMAIN flight[v] /\ flight'[v] = flight[v]
      BY <3>1, <3>2
    <3> QED
      BY <1>1, <3>1, <3>2
      DEF DeliveryInv, HookTypes, HookTypeOK, OneHolder, AnswersAreReal
  <2>3. CASE Restart(w)
    BY <1>1, <2>3
    DEF Restart, DeliveryInv, HookTypes, HookTypeOK, OneHolder, AnswersAreReal
  <2> QED
    BY <2>1, <2>2, <2>3
<1>3. HookTypes'
  BY <1>1, <1>2 DEF DeliveryInv, HookTypes, HookTypeOK
<1>4. (\A d \in Deliveries : Story(d)') /\ ClaimsAreProcessing' /\ AbsentIsUntouched'
  BY <1>1, StoryStands DEF DeliveryInv, ClaimsAreProcessing, AbsentIsUntouched
<1> QED
  BY <1>2, <1>3, <1>4 DEF DeliveryInv

\* Every step keeps the invariant.
LEMMA DeliveryNext == DeliveryInv /\ [HookNext]_hookVars => DeliveryInv'
<1> SUFFICES ASSUME DeliveryInv, [HookNext]_hookVars
             PROVE  DeliveryInv'
  OBVIOUS
<1>1. CASE UNCHANGED hookVars
  BY <1>1 DEF hookVars, DeliveryInv, HookTypes, HookTypeOK, OneHolder, Story, AnswersAreReal,
              ClaimsAreProcessing, AbsentIsUntouched
<1> QED
  BY <1>1, DeliveryTime, DeliveryClaim, DeliverySend, DeliveryRecord, DeliverySuppress,
     DeliveryFaults
  DEF HookNext

\* The inductive invariant is an invariant.
LEMMA DeliveryInvariant == HookSpec => []DeliveryInv
BY DeliveryInit, DeliveryNext, PTL DEF HookSpec

----------------------------------------------------------------------------
(* Theorems.                                                               *)

\* A delivery is in the hands of one worker, the attempts on record are
\* numbered without a gap and say why the row is in its state, and what is
\* still to be sent has budget left, however many workers claim, die and
\* restart with other registries (notifications/worker.py,
\* claim_due_deliveries and _record_attempt).
THEOREM DeliveriesAlwaysAddUp == HookSpec => []DeliveriesAddUp
<1>1. DeliveryInv => DeliveriesAddUp
  BY DEF DeliveryInv, DeliveriesAddUp, HookTypes, AttemptsTellTheStory, Story
<1> QED
  BY <1>1, DeliveryInvariant, PTL

\* A delivered, dead or suppressed delivery is never sent, counted or
\* reopened again (the terminal guard of _record_attempt and _suppress, and
\* the WHERE clause of the claim).
THEOREM FinalDeliveriesStay == HookSpec => TerminalIsFinal
<1>1. DeliveryInv /\ [HookNext]_hookVars =>
        [\A d \in Deliveries : row[d].state \in TerminalStates =>
            /\ row'[d] = row[d]
            /\ attempts'[d] = attempts[d]
            /\ d \in accepted' => d \in accepted]_hookVars
  <2> SUFFICES ASSUME DeliveryInv, HookNext,
                      NEW d \in Deliveries, row[d].state \in TerminalStates
               PROVE  /\ row'[d] = row[d]
                      /\ attempts'[d] = attempts[d]
                      /\ d \in accepted' => d \in accepted
    BY DEF hookVars
  <2>1. /\ row[d].state \notin {"absent", "pending", "processing", "retrying"}
        /\ row[d].lock # "held"
        /\ \A w \in Senders : d \notin DOMAIN flight[w]
        /\ DOMAIN row = Deliveries /\ DOMAIN attempts = Deliveries
    BY DEF TerminalStates, DeliveryInv, OneHolder, ClaimsAreProcessing, HookTypes, HookTypeOK
  <2>2. ASSUME NEW c \in Deliveries, Schedule(c) \/ BecomeDue(c) \/ ClaimExpires(c)
        PROVE  row'[d] = row[d] /\ UNCHANGED <<attempts, accepted>>
    BY <2>1, <2>2 DEF Schedule, BecomeDue, ClaimExpires
  <2>3. ASSUME NEW w \in Senders, NEW batch \in SUBSET Deliveries, ClaimBatch(w, batch)
        PROVE  row'[d] = row[d] /\ UNCHANGED <<attempts, accepted>>
    BY <2>1, <2>3 DEF ClaimBatch, ClaimableRow
  <2>4. ASSUME NEW w \in Senders, NEW c \in Deliveries,
               Send(w, c) \/ RecordAttempt(w, c) \/ Suppress(w, c) \/ DeliverOneFails(w, c)
        PROVE  /\ row'[d] = row[d] /\ attempts'[d] = attempts[d]
               /\ d \in accepted' => d \in accepted
    <3>1. c # d
      BY <2>1, <2>4 DEF Send, RecordAttempt, Suppress, DeliverOneFails
    <3> QED
      BY <2>1, <2>4, <3>1 DEF Send, RecordAttempt, Suppress, DeliverOneFails
  <2>5. ASSUME NEW w \in Senders, StopMidCycle(w) \/ Restart(w)
        PROVE  UNCHANGED <<row, attempts, accepted>>
    BY <2>5 DEF StopMidCycle, Restart
  <2> QED
    BY <2>2, <2>3, <2>4, <2>5 DEF HookNext
<1> QED
  BY <1>1, DeliveryInvariant, PTL DEF HookSpec, TerminalIsFinal
=============================================================================
