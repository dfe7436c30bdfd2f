--------------------------- MODULE WebhookDelivery ---------------------------
(***************************************************************************)
(* The delivery half of the notification worker (notifications/worker.py): *)
(* claim a batch of due deliveries, send each, record the attempt, retry,  *)
(* give up or suppress.  A delivery is created by the planner, one per     *)
(* incident event and destination key (uq_webhook_event_destination_key).  *)
(*                                                                         *)
(* The Redis lease of a cycle is not modelled: it expires and is never     *)
(* renewed, so nothing may rest on it (see EvaluationRunner), and any      *)
(* worker may run a cycle at any time.  Backoff and the claim lease are    *)
(* time passing, one action each.                                          *)
(***************************************************************************)
EXTENDS Naturals, FiniteSets, FiniteSetsExt

CONSTANTS
    Events,         \* incident events
    Keys,           \* destination keys
    Senders,        \* processes running the delivery loop
    BatchSize,      \* webhook_worker_batch_size
    MaxAttempts,    \* webhook_max_attempts
    MaxStops,       \* bound on crashes, cancellations and failed recordings
    NoOutcome

Deliveries == Events \X Keys
KeyOf(d) == d[2]

Outcomes == {"delivered", "terminal", "refused", "retryable"}

ASSUME DeliveryAssumption ==
    /\ BatchSize \in Nat \ {0}
    /\ MaxAttempts \in Nat \ {0}
    /\ MaxStops \in Nat
    /\ NoOutcome \notin Outcomes

VARIABLES
    row,        \* [Deliveries -> its row of webhook_deliveries]
    attempts,   \* [Deliveries -> [attempt_number -> outcome, NoOutcome: no row]]
    registry,   \* [Senders -> keys of settings.notification_webhooks]
    flight,     \* [Senders -> [the deliveries its cycle still holds ->
                \*    what the claim returned and the request's outcome]]
    accepted,   \* ghost: the deliveries a receiver answered with 2xx
    stops

hookVars == <<row, attempts, registry, flight, accepted, stops>>

TerminalStates == {"delivered", "dead_letter", "suppressed"}
States == {"absent", "pending", "processing", "retrying"} \cup TerminalStates

DeliveryRows == [state : States, attempt_count : 0..MaxAttempts,
         due : BOOLEAN, lock : {"none", "held", "expired"}]
Held == [attempt_count : 0..MaxAttempts, outcome : Outcomes \cup {NoOutcome}]

HookTypeOK ==
    /\ row \in [Deliveries -> DeliveryRows]
    /\ attempts \in [Deliveries -> [1..MaxAttempts -> Outcomes \cup {NoOutcome}]]
    /\ registry \in [Senders -> SUBSET Keys]
    /\ \A w \in Senders :
          /\ DOMAIN flight[w] \subseteq Deliveries
          /\ \A d \in DOMAIN flight[w] : flight[w][d] \in Held
    /\ accepted \subseteq Deliveries
    /\ stops \in 0..MaxStops

Absent ==
    [state |-> "absent", attempt_count |-> 0, due |-> FALSE, lock |-> "none"]

Nothing == [d \in {} |-> NoOutcome]

HookInit ==
    /\ row = [d \in Deliveries |-> Absent]
    /\ attempts = [d \in Deliveries |-> [n \in 1..MaxAttempts |-> NoOutcome]]
    /\ registry \in [Senders -> SUBSET Keys]
    /\ flight = [w \in Senders |-> Nothing]
    /\ accepted = {}
    /\ stops = 0

\* The cycle of worker w is done with delivery d.
Drop(w, d) ==
    flight' = [flight EXCEPT ![w] = [c \in DOMAIN @ \ {d} |-> @[c]]]

----------------------------------------------------------------------------
\* The planner inserts the row: pending, due at once.
Schedule(d) ==
    /\ row[d].state = "absent"
    /\ row' = [row EXCEPT ![d].state = "pending", ![d].due = TRUE]
    /\ UNCHANGED <<attempts, registry, flight, accepted, stops>>

\* next_attempt_at passes.
BecomeDue(d) ==
    /\ row[d].state = "retrying"
    /\ ~row[d].due
    /\ row' = [row EXCEPT ![d].due = TRUE]
    /\ UNCHANGED <<attempts, registry, flight, accepted, stops>>

\* locked_until passes.
ClaimExpires(d) ==
    /\ row[d].lock = "held"
    /\ row' = [row EXCEPT ![d].lock = "expired"]
    /\ UNCHANGED <<attempts, registry, flight, accepted, stops>>

\* Wrong variant: finished deliveries are due for ever.
ClaimableWhateverItsState(d) ==
    /\ row[d].state \notin {"absent", "processing"}
    /\ row[d].due
    /\ row[d].lock \in {"none", "expired"}

\* Wrong variant: a claimed row is claimable, its claim unexpired or not.
ClaimableThoughHeld(d) ==
    /\ row[d].state \in {"pending", "retrying", "processing"}
    /\ row[d].due

\* Wrong variant: what is to be retried is forgotten.
ClaimablePendingOnly(d) ==
    /\ row[d].state = "pending"
    /\ row[d].due
    /\ row[d].lock \in {"none", "expired"}

\* The WHERE clause of claim_due_deliveries.
ClaimableRow(d) ==
    /\ row[d].state \in {"pending", "retrying"}
    /\ row[d].due
    /\ row[d].lock \in {"none", "expired"}

\* claim_due_deliveries: a batch, the longest due first (the order is left
\* open here; the fairness of ClaimOf stands for it).
ClaimBatch(w, batch) ==
    LET claimable == {d \in Deliveries : ClaimableRow(d)} IN
    /\ flight[w] = Nothing
    /\ batch # {}
    /\ batch \subseteq claimable
    /\ Cardinality(batch) = Min({BatchSize, Cardinality(claimable)})
    /\ row' = [d \in Deliveries |->
                 IF d \in batch
                 THEN [row[d] EXCEPT !.state = "processing", !.lock = "held"]
                 ELSE row[d]]
    /\ flight' = [flight EXCEPT ![w] =
                    [d \in batch |-> [attempt_count |-> row[d].attempt_count,
                                      outcome |-> NoOutcome]]]
    /\ UNCHANGED <<attempts, registry, accepted, stops>>

\* send_webhook: one request, whatever comes of it is classified.
Send(w, d) ==
    /\ d \in DOMAIN flight[w]
    /\ flight[w][d].outcome = NoOutcome
    /\ KeyOf(d) \in registry[w]
    /\ \E outcome \in Outcomes :
          /\ flight' = [flight EXCEPT ![w][d].outcome = outcome]
          /\ accepted' = IF outcome = "delivered" THEN accepted \cup {d}
                         ELSE accepted
    /\ UNCHANGED <<row, attempts, registry, stops>>

\* What an attempt makes of the delivery; old: webhook_max_elapsed_seconds
\* have passed since it was created.
StateAfter(outcome, number, old) ==
    CASE outcome = "delivered" -> "delivered"
      [] outcome \in {"terminal", "refused"} -> "dead_letter"
      [] outcome = "retryable" /\ (number >= MaxAttempts \/ old)
                                 -> "dead_letter"
      [] OTHER -> "retrying"

\* _record_attempt: the attempt row (ON CONFLICT DO NOTHING) and the new
\* state (unless the row is terminal), in one transaction.
RecordAttempt(w, d) ==
    /\ d \in DOMAIN flight[w]
    /\ flight[w][d].outcome # NoOutcome
    /\ \E old \in BOOLEAN :
          LET outcome == flight[w][d].outcome
              number == flight[w][d].attempt_count + 1
              state == StateAfter(outcome, number, old)
          IN  /\ attempts' = [attempts EXCEPT ![d][number] =
                                IF @ = NoOutcome THEN outcome ELSE @]
              /\ row' = IF row[d].state \in TerminalStates THEN row
                        ELSE [row EXCEPT ![d] =
                                [state |-> state, attempt_count |-> number,
                                 due |-> @.due /\ state # "retrying",
                                 lock |-> "none"]]
    /\ Drop(w, d)
    /\ UNCHANGED <<registry, accepted, stops>>

\* _suppress: the worker's registry does not hold the key.
Suppress(w, d) ==
    /\ d \in DOMAIN flight[w]
    /\ flight[w][d].outcome = NoOutcome
    /\ KeyOf(d) \notin registry[w]
    /\ row' = IF row[d].state \in TerminalStates THEN row
              ELSE [row EXCEPT ![d].state = "suppressed", ![d].lock = "none"]
    /\ Drop(w, d)
    /\ UNCHANGED <<attempts, registry, accepted, stops>>

\* deliver_one raises: the exception is logged and the delivery dropped.
DeliverOneFails(w, d) ==
    /\ d \in DOMAIN flight[w]
    /\ stops < MaxStops
    /\ stops' = stops + 1
    /\ Drop(w, d)
    /\ UNCHANGED <<row, attempts, registry, accepted>>

\* The process dies, or stop() cancels the task in the middle of a cycle.
StopMidCycle(w) ==
    /\ flight[w] # Nothing
    /\ stops < MaxStops
    /\ stops' = stops + 1
    /\ flight' = [flight EXCEPT ![w] = Nothing]
    /\ UNCHANGED <<row, attempts, registry, accepted>>

\* The process starts again with the operator's new registry.
Restart(w) ==
    /\ flight[w] = Nothing
    /\ \E keys \in SUBSET Keys : registry' = [registry EXCEPT ![w] = keys]
    /\ UNCHANGED <<row, attempts, flight, accepted, stops>>

ClaimOf(d) ==
    \E w \in Senders, batch \in SUBSET Deliveries :
       d \in batch /\ ClaimBatch(w, batch)

HookNext ==
    \/ \E d \in Deliveries : Schedule(d) \/ BecomeDue(d) \/ ClaimExpires(d)
    \/ \E w \in Senders, batch \in SUBSET Deliveries : ClaimBatch(w, batch)
    \/ \E w \in Senders, d \in Deliveries :
          \/ Send(w, d)
          \/ RecordAttempt(w, d)
          \/ Suppress(w, d)
          \/ DeliverOneFails(w, d)
    \/ \E w \in Senders : StopMidCycle(w) \/ Restart(w)

HookSpec == HookInit /\ [][HookNext]_hookVars

\* Time passes; a worker goes on with what it holds (a request times out);
\* the loops tick, and the batch is ordered by next_attempt_at, so a
\* delivery that is due again and again is claimed.
HookFairness ==
    /\ \A d \in Deliveries :
          /\ WF_hookVars(BecomeDue(d))
          /\ WF_hookVars(ClaimExpires(d))
          /\ SF_hookVars(ClaimOf(d))
    /\ \A w \in Senders, d \in Deliveries :
          WF_hookVars(Send(w, d) \/ RecordAttempt(w, d) \/ Suppress(w, d))

FairHook == HookInit /\ [][HookNext]_hookVars /\ HookFairness

----------------------------------------------------------------------------
\* A delivery is in the hands of one worker, and what that worker knows of
\* it is what the row says: no request is sent twice at a time and no
\* attempt number is used twice (claim_due_deliveries).
OneHolder ==
    \A w \in Senders : \A d \in DOMAIN flight[w] :
       /\ row[d].state = "processing"
       /\ flight[w][d].attempt_count = row[d].attempt_count
       /\ \A v \in Senders \ {w} : d \notin DOMAIN flight[v]

\* The state is the story the attempt rows tell: attempts 1..attempt_count
\* are on record and only the last may be other than retryable; delivered
\* says that the receiver accepted; dead_letter has an attempt row saying
\* why; a delivery still to be sent has budget left.
AttemptsTellTheStory ==
    \A d \in Deliveries :
       LET n == row[d].attempt_count
           last == attempts[d][n]
       IN  /\ \A i \in 1..MaxAttempts : attempts[d][i] # NoOutcome <=> i <= n
           /\ \A i \in 1..MaxAttempts : i < n => attempts[d][i] = "retryable"
           /\ row[d].state = "delivered" =>
                 n > 0 /\ last = "delivered" /\ d \in accepted
           /\ row[d].state = "dead_letter" => n > 0 /\ last # "delivered"
           /\ row[d].state \in {"pending", "processing", "retrying"} =>
                 /\ n < MaxAttempts
                 /\ n > 0 => last = "retryable"
           /\ row[d].state = "suppressed" => n = 0 \/ last = "retryable"

\* The rows, the attempts on record and what the workers hold add up
\* (claim_due_deliveries and _record_attempt, on several workers).
DeliveriesAddUp == HookTypeOK /\ OneHolder /\ AttemptsTellTheStory

\* A terminal delivery is final: its state, its attempts and its count never
\* change again, and no further request is made for it (worker.py:22).
TerminalIsFinal ==
    [][\A d \in Deliveries : row[d].state \in TerminalStates =>
          /\ row'[d] = row[d]
          /\ attempts'[d] = attempts[d]
          /\ d \in accepted' => d \in accepted]_hookVars

\* Some process stopped holding d.
Orphaned(d) ==
    row[d].state = "processing" /\ \A w \in Senders : d \notin DOMAIN flight[w]

\* Every delivery ends, except one whose own worker failed while holding it:
\* nobody's failure costs another delivery its end.
UndisturbedDeliveriesEnd ==
    \A d \in Deliveries :
       row[d].state = "pending" ~>
          (row[d].state \in TerminalStates \/ Orphaned(d))

\* "The lease is what recovers a row whose worker died holding it"
\* (worker.py:10): every delivery ends.
EveryDeliveryEnds ==
    \A d \in Deliveries :
       row[d].state = "pending" ~> row[d].state \in TerminalStates
====
