-------------------------- MODULE IngestAnyStream --------------------------
(***************************************************************************)
(* The ingestion API under ARBITRARY message streams: every enrolled agent *)
(* (the active writer and its superseded predecessors) may send any        *)
(* message with any sequence number in any order.  What holds here holds   *)
(* whatever the agents and the network do.                                 *)
(***************************************************************************)
EXTENDS InventoryIngest

CONSTANTS
    SequenceNumbers,  \* sequence numbers a message may carry
    PageNos,          \* page numbers a page may carry
    PageContents,     \* resource lists a page may carry
    Totals,           \* total_pages and total_resources a complete may declare
    Batches           \* event lists a watch message may carry

ASSUME StreamAssumption ==
    /\ SequenceNumbers \subseteq Nat
    /\ PageNos \subseteq Nat \ {0}
    /\ PageContents \subseteq Seq(Resource)
    /\ Totals \subseteq Nat
    /\ Batches \subseteq Seq(Event)

Enrolled == {a \in Agents : inventory_state[a] # "unenrolled"}

\* The body of a handler is one transaction, whatever its outcome.
Message(a, q) ==
    \/ \E s \in Snapshots : SnapshotBegin(a, s, q)
    \/ \E s \in Snapshots, n \in PageNos, c \in PageContents :
          SnapshotPage(a, s, n, c, q)
    \/ \E s \in Snapshots, tp \in Totals, tr \in Totals :
          SnapshotComplete(a, s, tp, tr, q)
    \/ \E b \in Batches : WatchEvents(a, b, q)

IngestNext ==
    \/ \E a \in Agents : Enroll(a)
    \/ \E a \in Enrolled, q \in SequenceNumbers : Message(a, q)
    \/ \E d \in demands : DemandReconcile(d) \/ LoseDemand(d)
    \/ \E s \in Snapshots : PassTtl(s)
    \/ Maintenance

IngestSpec == IngestInit /\ [][IngestNext]_ingestVars

----------------------------------------------------------------------------
(* Properties.                                                             *)

\* Every column keeps its type (router_ingest.py, maintenance.py).
TypeOK ==
    /\ active_agent \in Agents \cup {None}
    /\ current_generation \in Nat
    /\ applied_generation \in Nat
    /\ applied_snapshot \in Snapshots \cup {None}
    /\ pending_snapshot \in Snapshots \cup {None}
    /\ status \in [Snapshots -> Statuses]
    /\ generation \in [Snapshots -> Nat]
    /\ received_pages \in [Snapshots -> Nat]
    /\ resource_count \in [Snapshots -> Nat]
    /\ expired \in [Snapshots -> BOOLEAN]
    /\ pages \in [Snapshots -> SUBSET Page]
    /\ staging \in [Snapshots -> [Uids -> Nat]]
    /\ last_sequence \in [Agents -> Nat]
    /\ inventory_state \in [Agents -> InventoryStates]
    /\ lifecycle \in [Uids -> {"absent", "active", "missing"}]
    /\ resource_version \in [Uids -> Nat]
    /\ last_change \in [Uids -> Changes]
    /\ demands \subseteq [agent : Agents, discard : Snapshots \cup {None}]

\* At most one snapshot of the cluster can still apply: a snapshot that is
\* pending is the one the writer row points at, it carries the newest
\* generation handed out, and that generation is newer than the applied one.
\* Late demands, expiry, takeover and pruning included (snapshot_begin's
\* supersede step is all there is: nothing else clears pending rows).
NewestPending ==
    \A s \in Snapshots :
        status[s] = "pending" =>
            /\ pending_snapshot = s
            /\ generation[s] = current_generation
            /\ generation[s] > applied_generation

\* The active writer counts as fresh only while NO reconcile attempt has
\* begun since the applied snapshot: nothing is pending and the projection is
\* that of the newest generation (the condition _watch_events_txn relies on
\* when it lets events through).
FreshMeansNewest ==
    active_agent # None /\ inventory_state[active_agent] = "fresh" =>
        /\ pending_snapshot = None
        /\ applied_snapshot # None
        /\ applied_generation = current_generation

\* The counters a complete is checked against agree with the rows while the
\* snapshot can still complete: no torn, repeated or replayed page ever
\* counts without being stored, or is stored without counting, and no page
\* number is stored twice (_snapshot_page_txn).
CountersAgree ==
    \A s \in Snapshots :
        status[s] = "pending" =>
            /\ received_pages[s] = Cardinality(pages[s])
            /\ \A p, r \in pages[s] : p.number = r.number => p = r
            /\ Cardinality(Staged(s)) <= resource_count[s]

\* The applied snapshot keeps its row whatever is pruned, and the row keeps
\* the applied generation (_prune_snapshot_history's NOT IN).
AppliedRetained ==
    applied_snapshot # None =>
        /\ status[applied_snapshot] \in {"complete", "discarded"}
        /\ generation[applied_snapshot] = applied_generation

\* The generations of the writer row, of the snapshot rows and of the agents'
\* freshness agree at all times: nothing but the newest attempt can apply,
\* fresh means that it did, and what was applied is still on record
\* (router_ingest.py and maintenance.py together).
GenerationsAgree ==
    TypeOK /\ NewestPending /\ FreshMeansNewest /\ AppliedRetained

\* The change feed tells the truth about the projection: the newest change of
\* a resource, for as long as _bound_change_events leaves it, is `missing`
\* exactly when its row is missing, and is of a resource that has a row
\* (_apply_snapshot and _watch_events_txn append in the transaction that
\* changes the row, and no later step changes it alone).
FeedAgrees ==
    \A u \in Uids : last_change[u] # "none" =>
        /\ lifecycle[u] # "absent"
        /\ (last_change[u] = "missing") <=> (lifecycle[u] = "missing")

\* A projection row is never dropped, and the projection as a whole only
\* moves for the active writer: by the newest attempt completing, or by
\* events while no attempt is open.  No demand, expiry, takeover or
\* maintenance step touches it, and no resource comes, goes or returns
\* without a new row in the change feed.
ProjectionStep ==
    shownRows' # shownRows =>
        /\ \A u \in Uids :
              /\ lifecycle[u] # "absent" => lifecycle'[u] # "absent"
              /\ lifecycle'[u] # lifecycle[u] => last_change'[u] # "none"
        /\ active_agent # None
        /\ active_agent' = active_agent
        /\ \/ /\ applied_generation' = current_generation
              /\ applied_generation' > applied_generation
              /\ applied_snapshot' = pending_snapshot
           \/ /\ UNCHANGED writerVars
              /\ applied_generation = current_generation
              /\ inventory_state[active_agent] = "fresh"
ProjectionProtected == [][ProjectionStep]_ingestVars

\* A snapshot that was superseded, torn or expired never comes back: once
\* discarded (or pruned) it is never pending or complete again, and a
\* completed one is never reopened.
DeadStaysDeadStep ==
    \A s \in Snapshots :
        /\ status[s] \in {"discarded", "pruned"} =>
              status'[s] \in {"discarded", "pruned"}
        /\ status[s] = "complete" => status'[s] # "pending"

\* Sequences and generations never go back: a delayed begin cannot rewind
\* the stream, a late complete cannot install an older generation.
MonotoneStep ==
    /\ \A a \in Agents : last_sequence'[a] >= last_sequence[a]
    /\ current_generation' >= current_generation
    /\ applied_generation' >= applied_generation

\* Nothing comes back: neither an attempt that ended nor a number that was
\* passed, whatever is delayed, repeated, expired or taken over.
NothingComesBack == [][DeadStaysDeadStep /\ MonotoneStep]_ingestVars
============================================================================
