-------------------------- MODULE InventoryIngest --------------------------
(***************************************************************************)
(* The inventory ingestion API of the Drake control plane, for ONE         *)
(* cluster: apps/api/src/drake_api/agents/router_ingest.py (begin, page,   *)
(* complete, watch events, reconcile demands), maintenance.py and the      *)
(* writer takeover of router_internal.py's enroll.                         *)
(*                                                                         *)
(* One action is one committed database transaction.  The four ingest      *)
(* transactions lock the cluster's writer row first, so they serialise;    *)
(* what does NOT share that transaction is modelled as a step of its own:  *)
(* the durable `reconcile_required` mark that follows a refusal            *)
(* (_demand_reconcile), every maintenance step, and enrolment.             *)
(*                                                                         *)
(* The messages are arbitrary: any agent may send any message at any time, *)
(* which covers delayed, duplicated, reordered and torn streams.           *)
(* Resource payloads are abstracted to a resource version (a positive      *)
(* number); page hashes to equality of page contents.                      *)
(***************************************************************************)
EXTENDS Integers, Sequences, FiniteSets

CONSTANTS
    Agents,          \* agent identities (cluster_agents.id)
    Snapshots,       \* snapshot uids agents may choose
    Uids,            \* Kubernetes resource uids
    None,            \* SQL NULL
    PendingCap,      \* settings.agent_max_pending_snapshots
    HistoryLimit     \* settings.agent_snapshot_history_limit

ASSUME IngestAssumption ==
    /\ None \notin Agents \cup Snapshots
    /\ PendingCap \in Nat \ {0}
    /\ HistoryLimit \in Nat
    /\ IsFiniteSet(Snapshots)

VARIABLES
    \* cluster_inventory_state: the writer row of the cluster
    active_agent, current_generation, applied_generation,
    applied_snapshot, pending_snapshot,
    \* inventory_snapshots and the two tables hanging off it
    status, generation, received_pages, resource_count, expired,
    pages, staging,
    \* cluster_agents
    last_sequence, inventory_state,
    \* inventory_resources, and the newest inventory_change_events row of a
    \* uid, "none" when there is no such row (or no longer)
    lifecycle, resource_version, last_change,
    \* refusals whose _demand_reconcile transaction has not committed yet
    demands

writerVars   == <<active_agent, current_generation, applied_generation,
                  applied_snapshot, pending_snapshot>>
snapshotVars == <<status, generation, received_pages, resource_count,
                  expired, pages, staging>>
agentVars    == <<last_sequence, inventory_state>>
shownRows    == <<lifecycle, resource_version>>
projection   == <<shownRows, last_change>>
ingestVars   == <<writerVars, snapshotVars, agentVars, projection, demands>>

Resource == [uid : Uids, rv : Nat \ {0}]
Page     == [number : Nat \ {0}, content : Seq(Resource)]
Event    == [uid : Uids, rv : Nat \ {0}, deleted : BOOLEAN]

Statuses == {"absent", "pending", "complete", "discarded", "pruned"}
\* "unenrolled" stands for an agent that has no row yet.
InventoryStates ==
    {"unenrolled", "empty", "reconciling", "fresh", "reconcile_required"}
Changes == {"none", "added", "updated", "restored", "missing"}

IngestInit ==
    /\ active_agent = None
    /\ current_generation = 0
    /\ applied_generation = 0
    /\ applied_snapshot = None
    /\ pending_snapshot = None
    /\ status = [s \in Snapshots |-> "absent"]
    /\ generation = [s \in Snapshots |-> 0]
    /\ received_pages = [s \in Snapshots |-> 0]
    /\ resource_count = [s \in Snapshots |-> 0]
    /\ expired = [s \in Snapshots |-> FALSE]
    /\ pages = [s \in Snapshots |-> {}]
    /\ staging = [s \in Snapshots |-> [u \in Uids |-> 0]]
    /\ last_sequence = [a \in Agents |-> 0]
    /\ inventory_state = [a \in Agents |-> "unenrolled"]
    /\ lifecycle = [u \in Uids |-> "absent"]
    /\ resource_version = [u \in Uids |-> 0]
    /\ last_change = [u \in Uids |-> "none"]
    /\ demands = {}

----------------------------------------------------------------------------
(* Enrolment: the newest agent becomes the one active writer; nothing else *)
(* of the writer row changes, so a snapshot of the predecessor may still   *)
(* be pending.                                                             *)

Enroll(a) ==
    /\ inventory_state[a] = "unenrolled"
    /\ inventory_state' = [inventory_state EXCEPT ![a] = "empty"]
    /\ active_agent' = a
    /\ UNCHANGED <<current_generation, applied_generation, applied_snapshot,
                   pending_snapshot, snapshotVars, last_sequence, projection,
                   demands>>

----------------------------------------------------------------------------
(* Helpers shared by the handlers.                                         *)

\* Wrong variant: an old sequence number is applied again.
SequenceGateReplays(a, q) ==
    IF q > last_sequence[a] + 1 THEN "gap" ELSE "apply"

\* _sequence_gate: everything but a begin must be gapless.
SequenceGate(a, q) ==
    IF q <= last_sequence[a] THEN "duplicate"
    ELSE IF q > last_sequence[a] + 1 THEN "gap"
    ELSE "apply"

\* A refused request changed nothing; its demand is still to be committed.
Refuse(a, discard) ==
    /\ demands' = demands \cup {[agent |-> a, discard |-> discard]}
    /\ UNCHANGED <<writerVars, snapshotVars, agentVars, projection>>

NoEffect == UNCHANGED ingestVars

AdvanceSequence(a, q) == last_sequence' = [last_sequence EXCEPT ![a] = q]

----------------------------------------------------------------------------
(* POST /inventory/snapshot/begin                                          *)

\* Wrong variant: a delayed begin is not recognised by its old sequence.
BeginResultNoStale(a, s, q) ==
    IF active_agent # a THEN "refused"
    ELSE IF status[s] \in {"pending", "complete", "discarded"} THEN "duplicate"
    ELSE IF status[s] = "pruned" THEN "unused"
    ELSE "accepted"

\* A pruned snapshot left no row, so its uid is unknown again; but uids are
\* fresh UUIDs, so a begin that reuses one is a retransmission.
BeginResult(a, s, q) ==
    IF active_agent # a THEN "refused"
    ELSE IF status[s] \in {"pending", "complete", "discarded"} THEN "duplicate"
    ELSE IF q <= last_sequence[a] THEN "stale"
    ELSE IF status[s] = "pruned" THEN "unused"
    ELSE "accepted"

\* Wrong variant: the attempt that was still open stays open.
SupersedeNothing(s) == [status EXCEPT ![s] = "pending"]

\* The new attempt is pending, and discards the one that was still open.
Supersede(s) ==
    [t \in Snapshots |->
        IF t = s THEN "pending"
        ELSE IF t = pending_snapshot /\ status[t] = "pending" THEN "discarded"
        ELSE status[t]]

OpenSnapshot(a, s, q) ==
    /\ current_generation' = current_generation + 1
    /\ generation' = [generation EXCEPT ![s] = current_generation + 1]
    /\ status' = Supersede(s)
    /\ pending_snapshot' = s
    /\ AdvanceSequence(a, q)
    /\ inventory_state' = [inventory_state EXCEPT ![a] = "reconciling"]
    /\ UNCHANGED <<active_agent, applied_generation, applied_snapshot,
                   received_pages, resource_count, expired, pages, staging,
                   projection, demands>>

SnapshotBegin(a, s, q) ==
    \/ /\ BeginResult(a, s, q) \in {"refused", "duplicate", "stale"}
       /\ NoEffect
    \/ /\ BeginResult(a, s, q) = "accepted"
       /\ OpenSnapshot(a, s, q)

----------------------------------------------------------------------------
(* POST /inventory/snapshot/page                                           *)

\* Wrong variant: a stored page sent under a new sequence is stored again.
PageResultStoresAgain(a, s, n, content, q) ==
    IF active_agent # a THEN "refused"
    ELSE IF status[s] \notin {"pending", "complete"} THEN "stale"
    ELSE IF status[s] = "complete" THEN "duplicate"
    ELSE IF SequenceGate(a, q) = "gap" THEN "gap"
    ELSE IF \E p \in pages[s] : p.number = n /\ p.content # content THEN "torn"
    ELSE IF SequenceGate(a, q) = "duplicate" THEN "duplicate"
    ELSE "accepted"

PageResult(a, s, n, content, q) ==
    IF active_agent # a THEN "refused"
    ELSE IF status[s] \notin {"pending", "complete"} THEN "stale"
    ELSE IF status[s] = "complete" THEN "duplicate"
    ELSE IF SequenceGate(a, q) = "gap" THEN "gap"
    ELSE IF \E p \in pages[s] : p.number = n /\ p.content # content THEN "torn"
    ELSE IF SequenceGate(a, q) = "duplicate" THEN "duplicate"
    ELSE IF \E p \in pages[s] : p.number = n THEN "repeated"
    ELSE "accepted"

\* INSERT ... ON CONFLICT (snapshot_id, uid) DO NOTHING, row by row: a uid
\* that is already staged keeps its row, a new one takes its first row.
StageRows(rows, content) ==
    [u \in Uids |->
        LET first == {i \in DOMAIN content :
                         /\ content[i].uid = u
                         /\ \A j \in 1..(i - 1) : content[j].uid # u}
        IN  IF rows[u] # 0 \/ first = {} THEN rows[u]
            ELSE content[CHOOSE i \in first : TRUE].rv]

StorePage(a, s, n, content, q) ==
    /\ AdvanceSequence(a, q)
    /\ pages' = [pages EXCEPT
                    ![s] = @ \cup {[number |-> n, content |-> content]}]
    /\ staging' = [staging EXCEPT ![s] = StageRows(@, content)]
    /\ received_pages' = [received_pages EXCEPT ![s] = @ + 1]
    /\ resource_count' = [resource_count EXCEPT ![s] = @ + Len(content)]
    /\ UNCHANGED <<writerVars, status, generation, expired,
                   inventory_state, projection, demands>>

\* The same page under a new sequence: acknowledged as a duplicate, yet the
\* gate has advanced the sequence and the commit keeps it.
KeepSequence(a, q) ==
    /\ AdvanceSequence(a, q)
    /\ UNCHANGED <<writerVars, snapshotVars, inventory_state, projection,
                   demands>>

SnapshotPage(a, s, n, content, q) ==
    LET r == PageResult(a, s, n, content, q) IN
    \/ r \in {"refused", "duplicate"} /\ NoEffect
    \/ r \in {"stale", "gap"} /\ Refuse(a, None)
    \/ r = "torn" /\ Refuse(a, s)
    \/ r = "repeated" /\ KeepSequence(a, q)
    \/ r = "accepted" /\ StorePage(a, s, n, content, q)

----------------------------------------------------------------------------
(* POST /inventory/snapshot/complete                                       *)

Staged(s) == {u \in Uids : staging[s][u] # 0}

PageNumbers(s) == {p.number : p \in pages[s]}

Continuous(s, totalPages, totalResources) ==
    /\ PageNumbers(s) = 1..totalPages
    /\ Cardinality(Staged(s)) = totalResources
    /\ received_pages[s] = totalPages
    /\ resource_count[s] = totalResources

\* Wrong variant: the status of the snapshot is not looked at.
CompleteResultRevives(a, s, totalPages, totalResources, q) ==
    IF active_agent # a THEN "refused"
    ELSE IF status[s] = "complete" THEN "duplicate"
    ELSE IF generation[s] <= applied_generation \/ expired[s] THEN "torn"
    ELSE IF SequenceGate(a, q) # "apply" THEN SequenceGate(a, q)
    ELSE IF ~Continuous(s, totalPages, totalResources) THEN "torn"
    ELSE "applied"

CompleteResult(a, s, totalPages, totalResources, q) ==
    IF active_agent # a THEN "refused"
    ELSE IF status[s] \notin {"pending", "complete"} THEN "stale"
    ELSE IF status[s] = "complete" THEN "duplicate"
    ELSE IF generation[s] <= applied_generation \/ expired[s] THEN "torn"
    ELSE IF SequenceGate(a, q) # "apply" THEN SequenceGate(a, q)
    ELSE IF ~Continuous(s, totalPages, totalResources) THEN "torn"
    ELSE "applied"

\* _apply_snapshot: staged rows become active, active absentees missing.
LifecycleIfApplied(s, u) ==
    IF u \in Staged(s) THEN "active"
    ELSE IF lifecycle[u] = "active" THEN "missing"
    ELSE lifecycle[u]

\* Wrong variant: a resource that comes back leaves no change event.
ChangeIfAppliedSilent(s, u) ==
    IF u \in Staged(s)
    THEN IF lifecycle[u] = "absent" THEN "added" ELSE last_change[u]
    ELSE IF lifecycle[u] = "active" THEN "missing"
    ELSE last_change[u]

ChangeIfApplied(s, u) ==
    IF u \in Staged(s)
    THEN CASE lifecycle[u] = "absent"  -> "added"
           [] lifecycle[u] = "missing" -> "restored"
           [] OTHER                    -> last_change[u]
    ELSE IF lifecycle[u] = "active" THEN "missing"
    ELSE last_change[u]

ApplyRows(s) ==
    /\ lifecycle' = [u \in Uids |-> LifecycleIfApplied(s, u)]
    /\ resource_version' = [u \in Uids |-> IF u \in Staged(s)
                                           THEN staging[s][u]
                                           ELSE resource_version[u]]
    /\ last_change' = [u \in Uids |-> ChangeIfApplied(s, u)]

\* The projection, the attempt and the writer in one transaction.  It also
\* calls resolve_pending_bindings, whose effect is a step of the binding in
\* IncidentLifecycle (Configure).
ApplySnapshot(a, s, q) ==
    /\ AdvanceSequence(a, q)
    /\ ApplyRows(s)
    /\ status' = [status EXCEPT ![s] = "complete"]
    /\ staging' = [staging EXCEPT ![s] = [u \in Uids |-> 0]]
    /\ inventory_state' = [inventory_state EXCEPT ![a] = "fresh"]
    /\ applied_generation' = generation[s]
    /\ applied_snapshot' = s
    /\ pending_snapshot' = None
    /\ UNCHANGED <<active_agent, current_generation, generation,
                   received_pages, resource_count, expired, pages, demands>>

SnapshotComplete(a, s, totalPages, totalResources, q) ==
    LET r == CompleteResult(a, s, totalPages, totalResources, q) IN
    \/ r \in {"refused", "duplicate"} /\ NoEffect
    \/ r \in {"stale", "gap"} /\ Refuse(a, None)
    \/ r = "torn" /\ Refuse(a, s)
    \/ r = "applied" /\ ApplySnapshot(a, s, q)

----------------------------------------------------------------------------
(* POST /inventory/events                                                  *)

\* Wrong variant: only an applied snapshot is asked for, not a fresh state.
EventsResultNotFresh(a, q) ==
    IF active_agent # a THEN "refused"
    ELSE IF applied_snapshot = None THEN "reconcile"
    ELSE IF SequenceGate(a, q) = "apply" THEN "applied"
    ELSE SequenceGate(a, q)

EventsResult(a, q) ==
    IF active_agent # a THEN "refused"
    ELSE IF \/ applied_snapshot = None
            \/ pending_snapshot # None
            \/ inventory_state[a] # "fresh"
         THEN "reconcile"
    ELSE IF SequenceGate(a, q) = "apply" THEN "applied"
    ELSE SequenceGate(a, q)

\* What a batch does to one resource, event by event, is decided by its last
\* upsert and by whether a delete follows that upsert.
LastUpsert(events, u) ==
    {i \in DOMAIN events :
        /\ events[i].uid = u
        /\ ~events[i].deleted
        /\ \A j \in DOMAIN events :
              j > i /\ events[j].uid = u => events[j].deleted}

EndsDeleted(events, u) ==
    \E i \in DOMAIN events :
        /\ events[i].uid = u
        /\ events[i].deleted
        /\ \A j \in DOMAIN events : j > i => events[j].uid # u

LifecycleAfter(events, u) ==
    IF EndsDeleted(events, u)
    THEN IF lifecycle[u] = "active" \/ LastUpsert(events, u) # {}
         THEN "missing" ELSE lifecycle[u]
    ELSE IF LastUpsert(events, u) # {} THEN "active"
    ELSE lifecycle[u]

VersionAfter(events, u) ==
    IF LastUpsert(events, u) = {} THEN resource_version[u]
    ELSE events[CHOOSE i \in LastUpsert(events, u) : TRUE].rv

\* The lifecycle the last upsert of u finds: what the events before it left.
LifecycleBeforeLastUpsert(events, u) ==
    LET i == CHOOSE i \in LastUpsert(events, u) : TRUE
    IN  LifecycleAfter(SubSeq(events, 1, i - 1), u)

ChangeAfter(events, u) ==
    IF EndsDeleted(events, u)
    THEN IF lifecycle[u] = "active" \/ LastUpsert(events, u) # {}
         THEN "missing" ELSE last_change[u]
    ELSE IF LastUpsert(events, u) = {} THEN last_change[u]
    ELSE CASE LifecycleBeforeLastUpsert(events, u) = "absent"  -> "added"
           [] LifecycleBeforeLastUpsert(events, u) = "missing" -> "restored"
           [] OTHER                                            -> "updated"

ApplyEvents(a, events, q) ==
    /\ AdvanceSequence(a, q)
    /\ lifecycle' = [u \in Uids |-> LifecycleAfter(events, u)]
    /\ resource_version' = [u \in Uids |-> VersionAfter(events, u)]
    /\ last_change' = [u \in Uids |-> ChangeAfter(events, u)]
    /\ UNCHANGED <<writerVars, snapshotVars, inventory_state, demands>>

\* A watch batch refused for its state (409) demands nothing durably; only a
\* gap does.
WatchEvents(a, events, q) ==
    LET r == EventsResult(a, q) IN
    \/ r \in {"refused", "reconcile", "duplicate"} /\ NoEffect
    \/ r = "gap" /\ Refuse(a, None)
    \/ r = "applied" /\ ApplyEvents(a, events, q)

----------------------------------------------------------------------------
(* _demand_reconcile: a transaction of its own, after the refused one      *)
(* rolled back.  The discard is unconditional.  The API process may die    *)
(* in between, so a demand may also be lost.                               *)

DemandReconcile(d) ==
    /\ d \in demands
    /\ demands' = demands \ {d}
    /\ status' = [s \in Snapshots |->
                     IF s = d.discard /\ status[s] # "pruned"
                     THEN "discarded" ELSE status[s]]
    /\ inventory_state' =
          [inventory_state EXCEPT ![d.agent] = "reconcile_required"]
    /\ UNCHANGED <<writerVars, generation, received_pages, resource_count,
                   expired, pages, staging, last_sequence, projection>>

LoseDemand(d) ==
    /\ d \in demands
    /\ demands' = demands \ {d}
    /\ UNCHANGED <<writerVars, snapshotVars, agentVars, projection>>

----------------------------------------------------------------------------
(* Time, and maintenance.py.  Every answered begin starts a pass in the    *)
(* background; passes of different begins overlap, every step commits on   *)
(* its own and a failed one is skipped, so a step may run at any moment.   *)

\* started_at < now() - agent_snapshot_ttl_seconds from now on.
PassTtl(s) ==
    /\ status[s] = "pending"
    /\ ~expired[s]
    /\ expired' = [expired EXCEPT ![s] = TRUE]
    /\ UNCHANGED <<writerVars, status, generation, received_pages,
                   resource_count, pages, staging, agentVars, projection,
                   demands>>

DiscardExpiredPending ==
    LET dead == {s \in Snapshots : status[s] = "pending" /\ expired[s]} IN
    /\ dead # {}
    /\ status' = [s \in Snapshots |->
                     IF s \in dead THEN "discarded" ELSE status[s]]
    /\ pending_snapshot' = IF pending_snapshot \in dead THEN None
                           ELSE pending_snapshot
    /\ UNCHANGED <<active_agent, current_generation, applied_generation,
                   applied_snapshot, generation, received_pages,
                   resource_count, expired, pages, staging, agentVars,
                   projection, demands>>

\* ORDER BY started_at DESC OFFSET n: all but the n newest.  started_at is
\* the start of the transaction and generations are drawn under the writer
\* row's lock, so start order is generation order but for begins that waited
\* for each other; which of two such rows goes first matters to nothing here.
Older(S, n) ==
    {s \in S : Cardinality({t \in S : generation[t] > generation[s]}) >= n}

CapPending ==
    LET pending == {s \in Snapshots : status[s] = "pending"}
        excess == Older(pending, PendingCap)
    IN
    /\ status' = [s \in Snapshots |->
                     IF s \in excess THEN "discarded" ELSE status[s]]
    /\ UNCHANGED <<writerVars, generation, received_pages, resource_count,
                   expired, pages, staging, agentVars, projection, demands>>

\* Staged rows of snapshots that can no longer apply.  The code drains them
\* in batches; nothing reads a part of them.
DrainDeadStaging ==
    LET dead == {s \in Snapshots : status[s] \in {"complete", "discarded"}} IN
    /\ \E s \in dead : Staged(s) # {}
    /\ staging' = [s \in Snapshots |-> IF s \in dead THEN [u \in Uids |-> 0]
                                       ELSE staging[s]]
    /\ UNCHANGED <<writerVars, status, generation, received_pages,
                   resource_count, expired, pages, agentVars, projection,
                   demands>>

Prunable ==
    {s \in Snapshots : /\ status[s] \in {"complete", "discarded"}
                       /\ s # applied_snapshot}

\* The rows go, and the pages and staged rows of a snapshot go with its row.
PruneHistory ==
    LET old == Older(Prunable, HistoryLimit) IN
    /\ old # {}
    /\ status' = [s \in Snapshots |-> IF s \in old THEN "pruned" ELSE status[s]]
    /\ pages' = [s \in Snapshots |-> IF s \in old THEN {} ELSE pages[s]]
    /\ staging' = [s \in Snapshots |-> IF s \in old THEN [u \in Uids |-> 0]
                                       ELSE staging[s]]
    /\ UNCHANGED <<writerVars, generation, received_pages, resource_count,
                   expired, agentVars, projection, demands>>

\* One batch of _bound_change_events: rows past the age bound, or past the
\* bound on the cluster's rows.  Which ones those are is decided by time and
\* by events this model does not count, and a batch is not taken oldest
\* first, so the newest rows of any resources may go.
BoundChangeEvents ==
    /\ \E gone \in SUBSET {u \in Uids : last_change[u] # "none"} \ {{}} :
          last_change' = [u \in Uids |-> IF u \in gone THEN "none"
                                        ELSE last_change[u]]
    /\ UNCHANGED <<writerVars, snapshotVars, agentVars, shownRows, demands>>

Maintenance ==
    \/ DiscardExpiredPending
    \/ CapPending
    \/ DrainDeadStaging
    \/ PruneHistory
    \/ BoundChangeEvents
============================================================================
