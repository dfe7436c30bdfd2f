------------------------------ MODULE Silences ------------------------------
(***************************************************************************)
(* Silences at Alertmanager (alerting/silences.py, the two silence         *)
(* endpoints of alerting/router.py, table silence_requests of migration    *)
(* 0017): a request is recorded, a worker claims it, calls the provider    *)
(* outside any transaction, and writes what came back without looking at   *)
(* what the row has become meanwhile.                                      *)
(*                                                                         *)
(* A claim holds a row for 60 seconds and no longer.  A call may be carried *)
(* out by the provider and its answer lost.  The version column only       *)
(* decides whether an operator is told 409; the conditions on the state    *)
(* are kept.                                                               *)
(***************************************************************************)
EXTENDS Naturals, FiniteSets

CONSTANTS
    Requests,     \* idempotency keys, one request row each
    Workers,      \* API replicas running the SilenceWorker loop
    Limit,        \* silence_worker_batch_size
    MaxTries,     \* silence_max_attempts
    MaxMishaps,   \* bound on lost answers, overrun claims and crashes
    NoId          \* no provider silence id

\* clamp_duration and ck_silence_duration_range bound how long one lasts;
\* here a silence that is in force ends by itself at any moment.
SilenceStates == {"none", "pending", "active", "expired", "failed",
                  "cancel_pending", "cancelled"}
Claimable == {"pending", "cancel_pending"}

ProviderIds == Nat \ {0}

ASSUME SilenceAssumption ==
    /\ IsFiniteSet(Requests)
    /\ Limit \in Nat \ {0}
    /\ MaxTries \in Nat \ {0}
    /\ MaxMishaps \in Nat
    /\ NoId \notin ProviderIds

VARIABLES
    silence,    \* silence_requests: [state, attempts, due, provider]
    silenced,   \* requests whose alert row has silenced = true
    held,       \* [Workers -> the items of its pass, in some order]
    provider,   \* external: [ids handed out -> [request, live]]
    mishaps     \* [Requests -> lost answers, overrun claims, crashes]

silenceVars == <<silence, silenced, held, provider, mishaps>>

Item == [request : Requests, op : Claimable, attempts : Nat,
         provider : ProviderIds \cup {NoId},
         outcome : {"none", "active", "retryable", "terminal", "refused"},
         id : ProviderIds \cup {NoId}]

SilenceTypeOK ==
    /\ silence \in [Requests -> [state : SilenceStates, attempts : Nat,
                                 due : BOOLEAN, provider : ProviderIds \cup {NoId}]]
    /\ silenced \subseteq Requests
    /\ held \in [Workers -> SUBSET Item]
    /\ DOMAIN provider \subseteq ProviderIds
    /\ mishaps \in [Requests -> 0..MaxMishaps]

SilenceInit ==
    /\ silence = [r \in Requests |-> [state |-> "none", attempts |-> 0,
                                      due |-> FALSE, provider |-> NoId]]
    /\ silenced = {}
    /\ held = [w \in Workers |-> {}]
    /\ provider = [i \in {} |-> {}]
    /\ mishaps = [r \in Requests |-> 0]

SpentMishaps(r) == mishaps' = [mishaps EXCEPT ![r] = @ + 1]
MayMiss(r) == mishaps[r] < MaxMishaps
-----------------------------------------------------------------------------
(* The endpoints.                                                          *)

\* A repeated request meets the unique idempotency key and changes nothing:
\* also when the first silence is long over.
RequestSilence(r) ==
    /\ silence[r].state = "none"
    /\ silence' = [silence EXCEPT ![r].state = "pending", ![r].due = TRUE]
    /\ UNCHANGED <<silenced, held, provider, mishaps>>

ExpireSilence(r) ==
    /\ silence[r].state \in {"pending", "active"}
    /\ silence' = [silence EXCEPT ![r].state = "cancel_pending", ![r].due = TRUE]
    /\ UNCHANGED <<silenced, held, provider, mishaps>>
-----------------------------------------------------------------------------
(* The worker.                                                             *)

Due == {r \in Requests : silence[r].state \in Claimable /\ silence[r].due}

\* Attempts are only compared with the maximum: the count stops there.
Counted(n) == IF n < MaxTries THEN n + 1 ELSE n

ItemOf(r) == [request |-> r, op |-> silence[r].state,
              attempts |-> Counted(silence[r].attempts),
              provider |-> silence[r].provider,
              outcome |-> "none", id |-> NoId]

\* Wrong variant: the claim counts the attempt and leaves the row due.
ClaimLeavesDue(w, batch) ==
    /\ held[w] = {}
    /\ batch # {} /\ batch \subseteq Due
    /\ Cardinality(batch) <= Limit
    /\ batch # Due => Cardinality(batch) = Limit
    /\ held' = [held EXCEPT ![w] = {ItemOf(r) : r \in batch}]
    /\ silence' = [r \in Requests |->
         IF r \in batch THEN [silence[r] EXCEPT !.attempts = Counted(@)]
         ELSE silence[r]]
    /\ UNCHANGED <<silenced, provider, mishaps>>

Claim(w, batch) ==
    /\ held[w] = {}
    /\ batch # {} /\ batch \subseteq Due
    /\ Cardinality(batch) <= Limit
    /\ batch # Due => Cardinality(batch) = Limit
    /\ held' = [held EXCEPT ![w] = {ItemOf(r) : r \in batch}]
    /\ silence' = [r \in Requests |->
         IF r \in batch
         THEN [silence[r] EXCEPT !.attempts = Counted(@), !.due = FALSE]
         ELSE silence[r]]
    /\ UNCHANGED <<silenced, provider, mishaps>>

\* The 60 seconds of a claim are over.  If a worker still holds the item,
\* its pass was slower than that: two workers then work on one request.
ClaimLapses(r) ==
    /\ silence[r].state \in Claimable
    /\ ~silence[r].due
    /\ silence' = [silence EXCEPT ![r].due = TRUE]
    /\ IF \E w \in Workers : \E i \in held[w] : i.request = r
       THEN MayMiss(r) /\ SpentMishaps(r)
       ELSE UNCHANGED mishaps
    /\ UNCHANGED <<silenced, held, provider>>

Answered(w, i, outcome, id) ==
    held' = [held EXCEPT ![w] = (@ \ {i}) \cup
               {[i EXCEPT !.outcome = outcome, !.id = id]}]

NewId == Cardinality(DOMAIN provider) + 1

Created(i) ==
    provider' = [n \in DOMAIN provider \cup {NewId} |->
        IF n = NewId THEN [request |-> i.request, live |-> TRUE] ELSE provider[n]]

\* POST /api/v2/silences: accepted, accepted without an id, accepted and
\* the answer lost, or not accepted.
CreateSilence(w, i) ==
    /\ i \in held[w] /\ i.op = "pending" /\ i.outcome = "none"
    /\ UNCHANGED <<silence, silenced>>
    /\ \/ /\ Created(i)
          /\ \/ Answered(w, i, "active", NewId) /\ UNCHANGED mishaps
             \/ Answered(w, i, "terminal", NoId) /\ UNCHANGED mishaps
             \/ /\ MayMiss(i.request) /\ SpentMishaps(i.request)
                /\ Answered(w, i, "retryable", NoId)
       \/ /\ UNCHANGED <<provider, mishaps>>
          /\ \E outcome \in {"retryable", "terminal", "refused"} :
                Answered(w, i, outcome, NoId)

\* DELETE /api/v2/silence/{id}: gone (2xx or 404), gone and the answer
\* lost, or refused.  Without a provider id there is nothing to call.
ExpireAtProvider(w, i) ==
    /\ i \in held[w] /\ i.op = "cancel_pending" /\ i.outcome = "none"
    /\ i.provider # NoId
    /\ UNCHANGED <<silence, silenced, mishaps>>
    /\ \/ /\ provider' = [provider EXCEPT ![i.provider].live = FALSE]
          /\ \/ Answered(w, i, "active", i.provider)
             \/ Answered(w, i, "retryable", NoId)
       \/ /\ UNCHANGED provider
          /\ \E outcome \in {"retryable", "terminal", "refused"} :
                Answered(w, i, outcome, NoId)

\* Wrong variant: a transient failure is retried for ever.
RetryStateForever(i) == IF i.outcome = "retryable" THEN i.op ELSE "failed"

RetryState(i) ==
    IF i.outcome = "retryable" /\ i.attempts < MaxTries THEN i.op ELSE "failed"

\* The state process_pending decides on.
Decided(i) ==
    IF i.op = "cancel_pending" /\ i.provider = NoId THEN "cancelled"
    ELSE IF i.outcome = "active"
    THEN IF i.op = "pending" THEN "active" ELSE "expired"
    ELSE RetryState(i)

Called(i) == i.outcome # "none" \/ (i.op = "cancel_pending" /\ i.provider = NoId)

StillRetrying(w, i) ==
    /\ i \in held[w] /\ Called(i) /\ Decided(i) \in Claimable
    /\ held' = [held EXCEPT ![w] = @ \ {i}]
    /\ UNCHANGED <<silence, silenced, provider, mishaps>>

\* UPDATE ... WHERE id = :id, whatever the state is by now.
Finish(w, i) ==
    /\ i \in held[w] /\ Called(i) /\ Decided(i) \notin Claimable
    /\ held' = [held EXCEPT ![w] = @ \ {i}]
    /\ silence' = [silence EXCEPT
         ![i.request].state = Decided(i),
         ![i.request].provider = IF i.id # NoId THEN i.id ELSE @,
         ![i.request].due = TRUE]
    /\ silenced' = IF Decided(i) = "active" THEN silenced \cup {i.request}
                   ELSE silenced
    /\ UNCHANGED <<provider, mishaps>>

\* The integration left the settings: failed, without a call.
FinishUnknown(w, i) ==
    /\ i \in held[w] /\ i.outcome = "none"
    /\ held' = [held EXCEPT ![w] = @ \ {i}]
    /\ silence' = [silence EXCEPT ![i.request].state = "failed",
                                  ![i.request].due = TRUE]
    /\ UNCHANGED <<silenced, provider, mishaps>>

\* The process ends in the middle of its pass.
WorkerDies(w) ==
    /\ held[w] # {}
    /\ \A i \in held[w] : MayMiss(i.request)
    /\ mishaps' = [r \in Requests |->
         IF \E i \in held[w] : i.request = r THEN mishaps[r] + 1 ELSE mishaps[r]]
    /\ held' = [held EXCEPT ![w] = {}]
    /\ UNCHANGED <<silence, silenced, provider>>

\* External: a silence reaches its end time.  Nothing tells Drake.
ProviderExpires(n) ==
    /\ provider[n].live
    /\ provider' = [provider EXCEPT ![n].live = FALSE]
    /\ UNCHANGED <<silence, silenced, held, mishaps>>

WorkerStep(w) ==
    \/ \E batch \in SUBSET Requests : Claim(w, batch)
    \/ \E i \in held[w] :
          \/ CreateSilence(w, i) \/ ExpireAtProvider(w, i)
          \/ StillRetrying(w, i) \/ Finish(w, i)

SilenceNext ==
    \/ \E r \in Requests : RequestSilence(r) \/ ExpireSilence(r) \/ ClaimLapses(r)
    \/ \E w \in Workers : WorkerStep(w) \/ WorkerDies(w)
    \/ \E w \in Workers : \E i \in held[w] : FinishUnknown(w, i)
    \/ \E n \in DOMAIN provider : ProviderExpires(n)

SilenceSpec == SilenceInit /\ [][SilenceNext]_silenceVars

\* The worker's loop never ends (SilenceWorker._run) and 60 seconds pass.
SilenceFairness ==
    /\ \A w \in Workers : WF_silenceVars(WorkerStep(w))
    /\ \A r \in Requests : WF_silenceVars(ClaimLapses(r))

FairSilenceSpec == SilenceSpec /\ SilenceFairness
-----------------------------------------------------------------------------
\* One request is one silence at Alertmanager; every further one is paid for
\* by an answer that was lost, a claim that was outlived or a worker that
\* died (the claim of _claim, the states _finish writes).
OneSilencePerMishap ==
    /\ SilenceTypeOK
    /\ \A r \in Requests :
          Cardinality({n \in DOMAIN provider : provider[n].request = r})
              <= 1 + mishaps[r]

\* Every request and every cancellation comes to an end: the provider's
\* answers decide it or the attempts run out (_retry_state).
EverySilenceSettles ==
    \A r \in Requests :
        (silence[r].state \in Claimable) ~> (silence[r].state \notin Claimable)

-----------------------------------------------------------------------------
(* Stated by the documents, and not kept by the code: TLC refutes what     *)
(* follows (README, section 6).                                            *)

\* What the worker says when it cancels without calling the provider
\* (silences.py, process_pending): nothing was ever created there.
CancelledSuppressesNothing ==
    \A r \in Requests : silence[r].state = "cancelled" =>
        \A n \in DOMAIN provider : provider[n].request = r => ~provider[n].live
=============================================================================
