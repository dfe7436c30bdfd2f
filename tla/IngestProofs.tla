---------------------------- MODULE IngestProofs ----------------------------
(***************************************************************************)
(* Proofs about IngestAnyStream: what the ingestion API guarantees for any *)
(* number of agents, snapshots and resources and for every message stream. *)
(***************************************************************************)
EXTENDS IngestAnyStream, FiniteSetTheorems, WellFoundedInduction, TLAPS

(* Generations are handed out by the writer row, so none exceeds its       *)
(* counter.  NewestPending and AppliedRetained are not inductive without   *)
(* this: a begin must know that no row already carries its generation.     *)
GenerationBound ==
    /\ applied_generation <= current_generation
    /\ \A s \in Snapshots : generation[s] <= current_generation

\* The inductive invariant of the writer protocol.
WriterInv ==
    /\ TypeOK
    /\ GenerationBound
    /\ NewestPending
    /\ FreshMeansNewest
    /\ AppliedRetained

----------------------------------------------------------------------------
(* What the helpers compute.                                               *)

\* Staging a page yields staged rows again: a version per uid.
LEMMA StageRowsType ==
    ASSUME NEW rows \in [Uids -> Nat], NEW content \in Seq(Resource)
    PROVE  StageRows(rows, content) \in [Uids -> Nat]
<1> SUFFICES ASSUME NEW u \in Uids
             PROVE  StageRows(rows, content)[u] \in Nat
  BY DEF StageRows
<1> DEFINE first == {i \in DOMAIN content :
                         /\ content[i].uid = u
                         /\ \A j \in 1..(i - 1) : content[j].uid # u}
<1>1. CASE rows[u] # 0 \/ first = {}
  BY <1>1 DEF StageRows
<1>2. CASE ~(rows[u] # 0 \/ first = {})
  <2> DEFINE i == CHOOSE i \in first : TRUE
  <2>1. i \in first
    BY <1>2
  <2>2. content[i] \in Resource
    BY <2>1
  <2>3. content[i].rv \in Nat
    BY <2>2 DEF Resource
  <2> QED
    BY <1>2, <2>3 DEF StageRows
<1> QED
  BY <1>1, <1>2

\* A batch leaves every resource version a number.
LEMMA VersionAfterType ==
    ASSUME TypeOK, NEW events \in Seq(Event), NEW u \in Uids
    PROVE  VersionAfter(events, u) \in Nat
<1>1. CASE LastUpsert(events, u) = {}
  BY <1>1 DEF VersionAfter, TypeOK
<1>2. CASE LastUpsert(events, u) # {}
  <2> DEFINE i == CHOOSE i \in LastUpsert(events, u) : TRUE
  <2>1. i \in LastUpsert(events, u)
    BY <1>2
  <2>2. events[i] \in Event
    BY <2>1 DEF LastUpsert
  <2> QED
    BY <1>2, <2>2 DEF VersionAfter, Event
<1> QED
  BY <1>1, <1>2

\* Pruning and capping select among the snapshots they are given.
LEMMA OlderSubset ==
    ASSUME NEW S, NEW n
    PROVE  Older(S, n) \subseteq S
BY DEF Older

\* What a message can do: nothing, be refused, or one of its effects, the
\* last with the facts its handler has established by then.
LEMMA MessageCases ==
    ASSUME NEW a \in Agents, NEW q \in SequenceNumbers, Message(a, q)
    PROVE  \/ UNCHANGED ingestVars
           \/ \E d \in Snapshots \cup {None} : Refuse(a, d)
           \/ KeepSequence(a, q) /\ SequenceGate(a, q) = "apply"
           \/ \E s \in Snapshots :
                 /\ OpenSnapshot(a, s, q)
                 /\ a = active_agent
                 /\ status[s] \notin {"pending", "complete", "discarded",
                                       "pruned"}
                 /\ ~(q <= last_sequence[a])
           \/ \E s \in Snapshots, n \in PageNos, c \in PageContents :
                 /\ StorePage(a, s, n, c, q)
                 /\ status[s] = "pending"
                 /\ SequenceGate(a, q) = "apply"
                 /\ n \notin PageNumbers(s)
           \/ \E s \in Snapshots :
                 /\ ApplySnapshot(a, s, q)
                 /\ a = active_agent
                 /\ status[s] = "pending"
                 /\ SequenceGate(a, q) = "apply"
                 /\ ~(generation[s] <= applied_generation)
           \/ \E b \in Batches :
                 /\ ApplyEvents(a, b, q)
                 /\ a = active_agent
                 /\ inventory_state[a] = "fresh"
                 /\ SequenceGate(a, q) = "apply"
<1>1. ASSUME NEW s \in Snapshots, SnapshotBegin(a, s, q)
      PROVE  \/ UNCHANGED ingestVars
             \/ /\ OpenSnapshot(a, s, q)
                /\ a = active_agent
                /\ status[s] \notin {"pending", "complete", "discarded", "pruned"}
                /\ ~(q <= last_sequence[a])
  BY <1>1 DEF SnapshotBegin, BeginResult, NoEffect
<1>2. ASSUME NEW s \in Snapshots, NEW n \in PageNos, NEW c \in PageContents,
             SnapshotPage(a, s, n, c, q)
      PROVE  \/ UNCHANGED ingestVars
             \/ Refuse(a, None) \/ Refuse(a, s)
             \/ KeepSequence(a, q) /\ SequenceGate(a, q) = "apply"
             \/ /\ StorePage(a, s, n, c, q)
                /\ status[s] = "pending"
                /\ SequenceGate(a, q) = "apply"
                /\ n \notin PageNumbers(s)
  BY <1>2 DEF SnapshotPage, PageResult, NoEffect, SequenceGate, PageNumbers
<1>3. ASSUME NEW s \in Snapshots, NEW tp \in Totals, NEW tr \in Totals,
             SnapshotComplete(a, s, tp, tr, q)
      PROVE  \/ UNCHANGED ingestVars
             \/ Refuse(a, None) \/ Refuse(a, s)
             \/ /\ ApplySnapshot(a, s, q)
                /\ a = active_agent
                /\ status[s] = "pending"
                /\ SequenceGate(a, q) = "apply"
                /\ ~(generation[s] <= applied_generation)
  BY <1>3 DEF SnapshotComplete, CompleteResult, NoEffect, SequenceGate
<1>4. ASSUME NEW b \in Batches, WatchEvents(a, b, q)
      PROVE  \/ UNCHANGED ingestVars
             \/ Refuse(a, None)
             \/ /\ ApplyEvents(a, b, q)
                /\ a = active_agent
                /\ inventory_state[a] = "fresh"
                /\ SequenceGate(a, q) = "apply"
  BY <1>4 DEF WatchEvents, EventsResult, NoEffect, SequenceGate
<1> QED
  BY <1>1, <1>2, <1>3, <1>4 DEF Message

----------------------------------------------------------------------------
(* Type correctness.                                                       *)

\* The rows a deployment starts with have the declared types.
LEMMA TypeInit == IngestInit => TypeOK
BY IngestAssumption
   DEF IngestInit, TypeOK, Statuses, InventoryStates, Changes

\* A message refused after the sequence gate keeps the types.
LEMMA TypeRefuse ==
    ASSUME TypeOK, NEW a \in Agents, NEW d \in Snapshots \cup {None},
           Refuse(a, d)
    PROVE  TypeOK'
BY DEF TypeOK, Refuse, writerVars, snapshotVars, agentVars, projection, shownRows

\* So does one that changes nothing.
LEMMA TypeNoEffect == TypeOK /\ UNCHANGED ingestVars => TypeOK'
BY DEF TypeOK, ingestVars, writerVars, snapshotVars, agentVars, projection, shownRows

\* snapshot_begin keeps the types: the new generation is the next number.
LEMMA TypeBegin ==
    ASSUME TypeOK, NEW a \in Agents, NEW s \in Snapshots,
           NEW q \in SequenceNumbers, OpenSnapshot(a, s, q)
    PROVE  TypeOK'
<1>1. status' \in [Snapshots -> Statuses]
  BY DEF OpenSnapshot, Supersede, TypeOK, Statuses
<1>2. /\ last_sequence' \in [Agents -> Nat]
      /\ inventory_state' \in [Agents -> InventoryStates]
      /\ generation' \in [Snapshots -> Nat]
      /\ current_generation' \in Nat
      /\ pending_snapshot' \in Snapshots
  BY StreamAssumption DEF OpenSnapshot, Supersede, TypeOK, AdvanceSequence,
                          InventoryStates
<1> QED
  BY <1>1, <1>2 DEF OpenSnapshot, Supersede, TypeOK, projection, shownRows

\* A repeated page only advances the sequence.
LEMMA TypeKeep ==
    ASSUME TypeOK, NEW a \in Agents, NEW q \in SequenceNumbers,
           KeepSequence(a, q)
    PROVE  TypeOK'
BY StreamAssumption
   DEF KeepSequence, TypeOK, AdvanceSequence, writerVars, snapshotVars,
       projection, shownRows

\* snapshot_page keeps the types of the page table and of staging.
LEMMA TypePage ==
    ASSUME TypeOK, NEW a \in Agents, NEW s \in Snapshots, NEW n \in PageNos,
           NEW c \in PageContents, NEW q \in SequenceNumbers,
           StorePage(a, s, n, c, q)
    PROVE  TypeOK'
<1>1. c \in Seq(Resource) /\ n \in Nat \ {0} /\ q \in Nat
  BY StreamAssumption
<1>2. StageRows(staging[s], c) \in [Uids -> Nat]
  BY <1>1, StageRowsType DEF TypeOK
<1>3. Len(c) \in Nat
  BY <1>1
<1>4. [number |-> n, content |-> c] \in Page
  BY <1>1 DEF Page
<1>5. pages' \in [Snapshots -> SUBSET Page]
  BY <1>4 DEF StorePage, TypeOK
<1>6. /\ staging' \in [Snapshots -> [Uids -> Nat]]
      /\ received_pages' \in [Snapshots -> Nat]
      /\ resource_count' \in [Snapshots -> Nat]
      /\ last_sequence' \in [Agents -> Nat]
  BY <1>1, <1>2, <1>3 DEF StorePage, AdvanceSequence, TypeOK
<1> QED
  BY <1>5, <1>6 DEF StorePage, TypeOK, writerVars, projection, shownRows

\* Applying a snapshot keeps the types of the projection.
LEMMA TypeComplete ==
    ASSUME TypeOK, NEW a \in Agents, NEW s \in Snapshots,
           NEW q \in SequenceNumbers, ApplySnapshot(a, s, q)
    PROVE  TypeOK'
<1>1. /\ last_sequence' \in [Agents -> Nat]
      /\ inventory_state' \in [Agents -> InventoryStates]
      /\ status' \in [Snapshots -> Statuses]
      /\ staging' \in [Snapshots -> [Uids -> Nat]]
      /\ applied_generation' \in Nat
      /\ applied_snapshot' \in Snapshots \cup {None}
      /\ pending_snapshot' \in Snapshots \cup {None}
  BY StreamAssumption
     DEF ApplySnapshot, AdvanceSequence, TypeOK, Statuses, InventoryStates
<1>2. /\ lifecycle' \in [Uids -> {"absent", "active", "missing"}]
      /\ resource_version' \in [Uids -> Nat]
  BY DEF ApplySnapshot, ApplyRows, LifecycleIfApplied, ChangeIfApplied, TypeOK
<1>3. last_change' \in [Uids -> Changes]
  BY DEF ApplySnapshot, ApplyRows, LifecycleIfApplied, ChangeIfApplied,
         TypeOK, Changes
<1> QED
  BY <1>1, <1>2, <1>3 DEF ApplySnapshot, TypeOK

\* Applying a batch of events keeps the types of the projection.
LEMMA TypeEvents ==
    ASSUME TypeOK, NEW a \in Agents, NEW b \in Batches,
           NEW q \in SequenceNumbers, ApplyEvents(a, b, q)
    PROVE  TypeOK'
<1>1. b \in Seq(Event)
  BY StreamAssumption
<1>2. \A u \in Uids : VersionAfter(b, u) \in Nat
  BY <1>1, VersionAfterType
<1>3. \A u \in Uids : LifecycleAfter(b, u) \in {"absent", "active", "missing"}
  BY DEF LifecycleAfter, TypeOK
<1>4. \A u \in Uids : ChangeAfter(b, u) \in Changes
  BY DEF ChangeAfter, TypeOK, Changes
<1> QED
  BY <1>2, <1>3, <1>4, StreamAssumption
     DEF ApplyEvents, TypeOK, AdvanceSequence, writerVars, snapshotVars

\* The five maintenance steps keep the types.
LEMMA TypeMaintenance == TypeOK /\ Maintenance => TypeOK'
<1> SUFFICES ASSUME TypeOK, Maintenance PROVE TypeOK'
  OBVIOUS
<1>1. CASE DiscardExpiredPending
  BY <1>1 DEF DiscardExpiredPending, TypeOK, agentVars, projection, shownRows, Statuses
<1>2. CASE CapPending
  BY <1>2 DEF CapPending, TypeOK, writerVars, agentVars, projection, shownRows, Statuses
<1>3. CASE DrainDeadStaging
  BY <1>3 DEF DrainDeadStaging, TypeOK, writerVars, agentVars, projection, shownRows
<1>4. CASE PruneHistory
  BY <1>4 DEF PruneHistory, Prunable, TypeOK, writerVars, agentVars,
              projection, shownRows, Statuses
<1>5. CASE BoundChangeEvents
  BY <1>5 DEF BoundChangeEvents, TypeOK, writerVars, snapshotVars, agentVars,
              shownRows, Changes
<1> QED
  BY <1>1, <1>2, <1>3, <1>4, <1>5 DEF Maintenance

\* Every step keeps the types: the messages by cases, then the rest.
LEMMA TypeNext == TypeOK /\ [IngestNext]_ingestVars => TypeOK'
<1> SUFFICES ASSUME TypeOK, [IngestNext]_ingestVars PROVE TypeOK'
  OBVIOUS
<1>1. ASSUME NEW a \in Agents, Enroll(a) PROVE TypeOK'
  BY <1>1 DEF Enroll, TypeOK, snapshotVars, projection, shownRows, InventoryStates
<1>2. ASSUME NEW a \in Agents, NEW q \in SequenceNumbers, Message(a, q)
      PROVE  TypeOK'
  BY <1>2, MessageCases, TypeNoEffect, TypeRefuse, TypeKeep, TypeBegin,
     TypePage, TypeComplete, TypeEvents
<1>3. ASSUME NEW d \in demands, DemandReconcile(d) PROVE TypeOK'
  BY <1>3 DEF DemandReconcile, TypeOK, writerVars, projection, shownRows, Statuses,
              InventoryStates
<1>4. ASSUME NEW d \in demands, LoseDemand(d) PROVE TypeOK'
  BY <1>4 DEF LoseDemand, TypeOK, writerVars, snapshotVars, agentVars,
              projection, shownRows
<1>5. ASSUME NEW s \in Snapshots, PassTtl(s) PROVE TypeOK'
  BY <1>5 DEF PassTtl, TypeOK, writerVars, agentVars, projection, shownRows
<1>6. CASE Maintenance
  BY <1>6, TypeMaintenance
<1>7. CASE UNCHANGED ingestVars
  BY <1>7, TypeNoEffect
<1> QED
  BY <1>1, <1>2, <1>3, <1>4, <1>5, <1>6, <1>7 DEF IngestNext, Enrolled

\* Every column keeps its type under every message stream.
THEOREM TypeCorrect == IngestSpec => []TypeOK
BY TypeInit, TypeNext, PTL DEF IngestSpec

----------------------------------------------------------------------------
(* The writer protocol: WriterInv is inductive.                            *)

\* The steps that leave the writer row, the snapshot rows' status and
\* generation and the agents' states alone keep the protocol's facts.
LEMMA WriterFrame ==
    ASSUME WriterInv, TypeOK',
           UNCHANGED <<active_agent, current_generation, applied_generation,
                       applied_snapshot, pending_snapshot, status, generation,
                       inventory_state>>
    PROVE  WriterInv'
BY DEF WriterInv, GenerationBound, NewestPending, FreshMeansNewest,
       AppliedRetained

\* Opening a snapshot supersedes every pending one and draws the newest
\* generation, so the protocol's facts hold again.
LEMMA WriterBegin ==
    ASSUME WriterInv, TypeOK', NEW s \in Snapshots, NEW q \in SequenceNumbers,
           NEW a \in Agents, a = active_agent, OpenSnapshot(a, s, q),
           status[s] \notin {"pending", "complete", "discarded", "pruned"}
    PROVE  WriterInv'
<1> USE DEF WriterInv
<1>1. GenerationBound'
  BY DEF OpenSnapshot, Supersede, GenerationBound, TypeOK
<1>2. NewestPending'
  <2> SUFFICES ASSUME NEW t \in Snapshots, status'[t] = "pending"
               PROVE  /\ pending_snapshot' = t
                      /\ generation'[t] = current_generation'
                      /\ generation'[t] > applied_generation'
    BY DEF NewestPending
  <2>1. t = s
    BY DEF OpenSnapshot, Supersede, NewestPending
  <2> QED
    BY <2>1 DEF OpenSnapshot, Supersede, GenerationBound, TypeOK
<1>3. FreshMeansNewest'
  BY DEF OpenSnapshot, Supersede, FreshMeansNewest, TypeOK
<1>4. AppliedRetained'
  BY IngestAssumption DEF OpenSnapshot, Supersede, AppliedRetained, TypeOK
<1> QED
  BY <1>1, <1>2, <1>3, <1>4

\* Applying the newest snapshot makes the writer fresh with it.
LEMMA WriterComplete ==
    ASSUME WriterInv, TypeOK', NEW s \in Snapshots, NEW q \in SequenceNumbers,
           NEW a \in Agents, a = active_agent, ApplySnapshot(a, s, q),
           status[s] = "pending"
    PROVE  WriterInv'
<1> USE DEF WriterInv
<1>0. /\ pending_snapshot = s
      /\ generation[s] = current_generation
  BY DEF NewestPending
<1>1. GenerationBound'
  BY <1>0 DEF ApplySnapshot, GenerationBound, TypeOK
<1>2. NewestPending'
  BY <1>0 DEF ApplySnapshot, NewestPending, TypeOK
<1>3. FreshMeansNewest'
  BY <1>0, IngestAssumption DEF ApplySnapshot, FreshMeansNewest, TypeOK
<1>4. AppliedRetained'
  BY DEF ApplySnapshot, AppliedRetained, TypeOK
<1> QED
  BY <1>1, <1>2, <1>3, <1>4

\* A late demand may discard any snapshot, the applied one included, and
\* marks its agent: it can only take freshness away.
LEMMA WriterDemand ==
    ASSUME WriterInv, TypeOK', NEW d \in demands, DemandReconcile(d)
    PROVE  WriterInv'
<1> USE DEF WriterInv
<1>1. GenerationBound'
  BY DEF DemandReconcile, GenerationBound, writerVars
<1>2. NewestPending'
  BY DEF DemandReconcile, NewestPending, writerVars
<1>3. FreshMeansNewest'
  BY DEF DemandReconcile, FreshMeansNewest, writerVars, TypeOK
<1>4. AppliedRetained'
  BY IngestAssumption DEF DemandReconcile, AppliedRetained, writerVars, TypeOK
<1> QED
  BY <1>1, <1>2, <1>3, <1>4

\* An agent that enrols, or takes the stream over, starts unfresh.
LEMMA WriterEnroll ==
    ASSUME WriterInv, TypeOK', NEW a \in Agents, Enroll(a)
    PROVE  WriterInv'
BY DEF WriterInv, Enroll, GenerationBound, NewestPending, FreshMeansNewest,
       AppliedRetained, TypeOK, snapshotVars

\* No maintenance pass touches the newest pending snapshot's claim or the
\* applied snapshot's row.
LEMMA WriterMaintenance ==
    ASSUME WriterInv, TypeOK', Maintenance
    PROVE  WriterInv'
<1> USE DEF WriterInv
<1>1. CASE DiscardExpiredPending
  <2>1. GenerationBound' /\ NewestPending'
    BY <1>1 DEF DiscardExpiredPending, GenerationBound, NewestPending
  <2>2. FreshMeansNewest'
    BY <1>1 DEF DiscardExpiredPending, FreshMeansNewest, agentVars
  <2>3. AppliedRetained'
    BY <1>1, IngestAssumption DEF DiscardExpiredPending, AppliedRetained,
                                  TypeOK
  <2> QED
    BY <2>1, <2>2, <2>3
<1>2. CASE CapPending
  BY <1>2, IngestAssumption
     DEF CapPending, GenerationBound, NewestPending, FreshMeansNewest,
         AppliedRetained, TypeOK, writerVars, agentVars
<1>3. CASE DrainDeadStaging
  BY <1>3, WriterFrame DEF DrainDeadStaging, writerVars, agentVars
<1>4. CASE PruneHistory
  <2> DEFINE dead == {s \in Snapshots :
                         /\ status[s] \in {"complete", "discarded"}
                         /\ s # applied_snapshot}
  <2>1. /\ status' = [s \in Snapshots |-> IF s \in Older(dead, HistoryLimit)
                                          THEN "pruned" ELSE status[s]]
        /\ UNCHANGED <<writerVars, generation, agentVars>>
    BY <1>4 DEF PruneHistory, Prunable
  <2>2. applied_snapshot \notin Older(dead, HistoryLimit)
    BY OlderSubset
  <2>3. GenerationBound' /\ NewestPending' /\ FreshMeansNewest'
    BY <2>1 DEF GenerationBound, NewestPending, FreshMeansNewest, writerVars,
                agentVars
  <2>4. AppliedRetained'
    BY <2>1, <2>2, IngestAssumption DEF AppliedRetained, TypeOK, writerVars
  <2> QED
    BY <2>3, <2>4
<1>5. CASE BoundChangeEvents
  BY <1>5, WriterFrame DEF BoundChangeEvents, writerVars, snapshotVars,
                           agentVars
<1> QED
  BY <1>1, <1>2, <1>3, <1>4, <1>5 DEF Maintenance

\* Nothing is pending and nobody fresh at the start.
LEMMA WriterInit == IngestInit => WriterInv
<1> SUFFICES ASSUME IngestInit PROVE WriterInv
  OBVIOUS
<1>1. TypeOK
  BY TypeInit
<1> QED
  BY <1>1 DEF IngestInit, WriterInv, GenerationBound, NewestPending,
              FreshMeansNewest, AppliedRetained

\* The protocol's facts, with the types, are inductive.
LEMMA WriterNext == WriterInv /\ [IngestNext]_ingestVars => WriterInv'
<1> SUFFICES ASSUME WriterInv, [IngestNext]_ingestVars PROVE WriterInv'
  OBVIOUS
<1>0. TypeOK'
  BY TypeNext DEF WriterInv
<1>1. ASSUME NEW a \in Agents, Enroll(a) PROVE WriterInv'
  BY <1>0, <1>1, WriterEnroll
<1>2. ASSUME NEW a \in Agents, NEW q \in SequenceNumbers, Message(a, q)
      PROVE  WriterInv'
  <2>1. CASE UNCHANGED ingestVars
    BY <1>0, <2>1, WriterFrame
       DEF ingestVars, writerVars, snapshotVars, agentVars
  <2>2. ASSUME NEW d \in Snapshots \cup {None}, Refuse(a, d) PROVE WriterInv'
    BY <1>0, <2>2, WriterFrame DEF Refuse, writerVars, snapshotVars, agentVars
  <2>3. CASE KeepSequence(a, q)
    BY <1>0, <2>3, WriterFrame DEF KeepSequence, writerVars, snapshotVars
  <2>4. ASSUME NEW s \in Snapshots, NEW n \in PageNos, NEW c \in PageContents,
               StorePage(a, s, n, c, q)
        PROVE  WriterInv'
    BY <1>0, <2>4, WriterFrame DEF StorePage, writerVars
  <2>5. ASSUME NEW b \in Batches, ApplyEvents(a, b, q) PROVE WriterInv'
    BY <1>0, <2>5, WriterFrame DEF ApplyEvents, writerVars, snapshotVars
  <2> QED
    BY <1>0, <1>2, <2>1, <2>2, <2>3, <2>4, <2>5, MessageCases, WriterBegin,
       WriterComplete
<1>3. ASSUME NEW d \in demands, DemandReconcile(d) PROVE WriterInv'
  BY <1>0, <1>3, WriterDemand
<1>4. ASSUME NEW d \in demands, LoseDemand(d) PROVE WriterInv'
  BY <1>0, <1>4, WriterFrame DEF LoseDemand, writerVars, snapshotVars,
                                 agentVars
<1>5. ASSUME NEW s \in Snapshots, PassTtl(s) PROVE WriterInv'
  BY <1>0, <1>5, WriterFrame DEF PassTtl, writerVars, agentVars
<1>6. CASE Maintenance
  BY <1>0, <1>6, WriterMaintenance
<1>7. CASE UNCHANGED ingestVars
  BY <1>0, <1>7, WriterFrame DEF ingestVars, writerVars, snapshotVars,
                                 agentVars
<1> QED
  BY <1>1, <1>2, <1>3, <1>4, <1>5, <1>6, <1>7 DEF IngestNext, Enrolled

\* They hold throughout.
LEMMA WriterInvariant == IngestSpec => []WriterInv
BY WriterInit, WriterNext, PTL DEF IngestSpec

\* At most one snapshot can still apply, the one of the newest generation.
THEOREM OnlyNewestCanApply == IngestSpec => []NewestPending
<1>1. WriterInv => NewestPending
  BY DEF WriterInv
<1> QED
  BY <1>1, WriterInvariant, PTL

\* A fresh writer's projection is that of the newest attempt ever begun.
THEOREM FreshIsNewest == IngestSpec => []FreshMeansNewest
<1>1. WriterInv => FreshMeansNewest
  BY DEF WriterInv
<1> QED
  BY <1>1, WriterInvariant, PTL

\* Pruning never takes the applied snapshot's row.
THEOREM AppliedSurvives == IngestSpec => []AppliedRetained
<1>1. WriterInv => AppliedRetained
  BY DEF WriterInv
<1> QED
  BY <1>1, WriterInvariant, PTL

\* The writer row, the snapshot rows and the agents' freshness agree on the
\* generations for any number of agents, snapshots and late messages.
THEOREM GenerationsAlwaysAgree == IngestSpec => []GenerationsAgree
BY TypeCorrect, OnlyNewestCanApply, FreshIsNewest, AppliedSurvives, PTL
   DEF GenerationsAgree

----------------------------------------------------------------------------
(* Action properties.                                                      *)

\* No step but the completion of the newest attempt and, while the writer is
\* fresh, its events moves the projection.
LEMMA ProjectionNext ==
    WriterInv /\ [IngestNext]_ingestVars => [ProjectionStep]_ingestVars
<1> SUFFICES ASSUME WriterInv, IngestNext, shownRows' # shownRows
             PROVE  ProjectionStep
  BY DEF ProjectionStep, ingestVars, projection, shownRows
<1> USE DEF WriterInv
<1>1. PICK a \in Agents, q \in SequenceNumbers : Message(a, q)
  BY DEF IngestNext, Enroll, DemandReconcile, LoseDemand, PassTtl,
         Maintenance, DiscardExpiredPending, CapPending, DrainDeadStaging,
         PruneHistory, Prunable, BoundChangeEvents, Enrolled, projection, shownRows
<1>2. CASE \E s \in Snapshots : /\ ApplySnapshot(a, s, q)
                               /\ a = active_agent
                               /\ status[s] = "pending"
  <2> PICK s \in Snapshots : /\ ApplySnapshot(a, s, q)
                             /\ a = active_agent
                             /\ status[s] = "pending"
    BY <1>2
  <2>1. /\ pending_snapshot = s
        /\ generation[s] = current_generation
        /\ generation[s] > applied_generation
    BY DEF NewestPending
  <2>2. \A u \in Uids :
           /\ lifecycle[u] # "absent" => lifecycle'[u] # "absent"
           /\ lifecycle'[u] # lifecycle[u] => last_change'[u] # "none"
    BY DEF ApplySnapshot, ApplyRows, LifecycleIfApplied, ChangeIfApplied, TypeOK
  <2> QED
    BY <2>1, <2>2, IngestAssumption DEF ProjectionStep, ApplySnapshot
<1>3. CASE \E b \in Batches : /\ ApplyEvents(a, b, q)
                             /\ a = active_agent
                             /\ inventory_state[a] = "fresh"
  <2> PICK b \in Batches : /\ ApplyEvents(a, b, q)
                           /\ a = active_agent
                           /\ inventory_state[a] = "fresh"
    BY <1>3
  <2>1. ASSUME NEW u \in Uids
        PROVE  /\ lifecycle[u] # "absent" => lifecycle'[u] # "absent"
               /\ lifecycle'[u] # lifecycle[u] => last_change'[u] # "none"
    <3>1. /\ lifecycle'[u] = LifecycleAfter(b, u)
          /\ last_change'[u] = ChangeAfter(b, u)
      BY DEF ApplyEvents
    <3> QED
      BY <3>1 DEF LifecycleAfter, ChangeAfter
  <2>2. active_agent # None
    BY IngestAssumption
  <2> QED
    BY <2>1, <2>2 DEF ProjectionStep, ApplyEvents, FreshMeansNewest,
                      writerVars
<1> QED
  BY <1>1, <1>2, <1>3, MessageCases
     DEF ingestVars, projection, shownRows, Refuse, KeepSequence, OpenSnapshot, Supersede,
         StorePage

\* The projection moves only by the newest attempt, or by a fresh writer.
THEOREM ProjectionIsProtected == IngestSpec => ProjectionProtected
BY WriterInvariant, ProjectionNext, PTL DEF IngestSpec, ProjectionProtected

\* No step rewinds the applied generation or an acknowledged sequence.
LEMMA MonotoneNext ==
    WriterInv /\ [IngestNext]_ingestVars => [MonotoneStep]_ingestVars
<1> SUFFICES ASSUME WriterInv, IngestNext PROVE MonotoneStep
  OBVIOUS
<1> USE DEF WriterInv
<1>1. \A a \in Agents : last_sequence[a] \in Nat
  BY DEF TypeOK
<1>2. current_generation \in Nat /\ applied_generation \in Nat
  BY DEF TypeOK
<1>3. CASE UNCHANGED <<last_sequence, current_generation, applied_generation>>
  BY <1>1, <1>2, <1>3 DEF MonotoneStep
<1>4. ASSUME NEW a \in Agents, NEW q \in SequenceNumbers, Message(a, q)
      PROVE  MonotoneStep
  <2>0. q \in Nat
    BY StreamAssumption
  <2>1. CASE AdvanceSequence(a, q) /\ SequenceGate(a, q) = "apply" /\
             UNCHANGED <<current_generation, applied_generation>>
    BY <1>1, <1>2, <2>0, <2>1
       DEF AdvanceSequence, SequenceGate, MonotoneStep, TypeOK
  <2>2. ASSUME NEW s \in Snapshots, OpenSnapshot(a, s, q),
               ~(q <= last_sequence[a])
        PROVE  MonotoneStep
    BY <1>1, <1>2, <2>0, <2>2
       DEF OpenSnapshot, Supersede, AdvanceSequence, MonotoneStep, TypeOK
  <2>3. ASSUME NEW s \in Snapshots, ApplySnapshot(a, s, q),
               SequenceGate(a, q) = "apply", status[s] = "pending"
        PROVE  MonotoneStep
    BY <1>1, <1>2, <2>0, <2>3
       DEF ApplySnapshot, AdvanceSequence, SequenceGate, NewestPending,
           MonotoneStep, TypeOK
  <2>4. \/ UNCHANGED <<last_sequence, current_generation, applied_generation>>
        \/ AdvanceSequence(a, q) /\ SequenceGate(a, q) = "apply" /\
             UNCHANGED <<current_generation, applied_generation>>
        \/ \E s \in Snapshots :
              OpenSnapshot(a, s, q) /\ ~(q <= last_sequence[a])
        \/ \E s \in Snapshots : /\ ApplySnapshot(a, s, q)
                                /\ SequenceGate(a, q) = "apply"
                                /\ status[s] = "pending"
    BY <1>4, MessageCases
       DEF ingestVars, writerVars, agentVars, Refuse, KeepSequence, StorePage,
           ApplyEvents
  <2> QED
    BY <1>3, <2>1, <2>2, <2>3, <2>4
<1> QED
  BY <1>3, <1>4 DEF IngestNext, Enrolled, Enroll, DemandReconcile, LoseDemand,
                    PassTtl, Maintenance, DiscardExpiredPending, CapPending,
                    DrainDeadStaging, PruneHistory, Prunable, BoundChangeEvents,
                    writerVars, agentVars

\* No message stream rewinds a sequence or a generation.
THEOREM NothingRewinds == IngestSpec => [][MonotoneStep]_ingestVars
BY WriterInvariant, MonotoneNext, PTL DEF IngestSpec

\* No step revives a discarded snapshot.
LEMMA DeadNext ==
    WriterInv /\ [IngestNext]_ingestVars => [DeadStaysDeadStep]_ingestVars
<1> SUFFICES ASSUME WriterInv, IngestNext PROVE DeadStaysDeadStep
  OBVIOUS
<1>0. status \in [Snapshots -> Statuses]
  BY DEF WriterInv, TypeOK
<1>1. CASE UNCHANGED status
  BY <1>1 DEF DeadStaysDeadStep
<1>2. ASSUME NEW a \in Agents, NEW q \in SequenceNumbers, Message(a, q)
      PROVE  DeadStaysDeadStep
  <2>1. ASSUME NEW s \in Snapshots, OpenSnapshot(a, s, q),
               status[s] \notin {"pending", "complete", "discarded", "pruned"}
        PROVE  DeadStaysDeadStep
    BY <2>1 DEF OpenSnapshot, Supersede, DeadStaysDeadStep
  <2>2. ASSUME NEW s \in Snapshots, ApplySnapshot(a, s, q),
               status[s] = "pending"
        PROVE  DeadStaysDeadStep
    BY <1>0, <2>2 DEF ApplySnapshot, DeadStaysDeadStep
  <2>3. \/ UNCHANGED status
        \/ \E s \in Snapshots :
              /\ OpenSnapshot(a, s, q)
              /\ status[s] \notin {"pending", "complete", "discarded", "pruned"}
        \/ \E s \in Snapshots : ApplySnapshot(a, s, q) /\ status[s] = "pending"
    BY <1>2, MessageCases
       DEF ingestVars, snapshotVars, Refuse, KeepSequence, StorePage,
           ApplyEvents
  <2> QED
    BY <1>1, <2>1, <2>2, <2>3
<1>3. ASSUME NEW d \in demands, DemandReconcile(d) PROVE DeadStaysDeadStep
  BY <1>3 DEF DemandReconcile, DeadStaysDeadStep
<1>4. CASE DiscardExpiredPending \/ CapPending
  BY <1>4 DEF DiscardExpiredPending, CapPending, Older, DeadStaysDeadStep
<1>5. CASE PruneHistory
  BY <1>5 DEF PruneHistory, Prunable, DeadStaysDeadStep
<1> QED
  BY <1>1, <1>2, <1>3, <1>4, <1>5
     DEF IngestNext, Enrolled, Enroll, LoseDemand, PassTtl, Maintenance,
         DrainDeadStaging, BoundChangeEvents, snapshotVars

\* A superseded, torn or expired snapshot never comes back.
THEOREM DeadSnapshotsStayDead == IngestSpec => [][DeadStaysDeadStep]_ingestVars
BY WriterInvariant, DeadNext, PTL DEF IngestSpec

\* No ended attempt and no number that was passed comes back, whatever
\* messages arrive in whatever order.
THEOREM NothingEverComesBack == IngestSpec => NothingComesBack
<1>1. WriterInv /\ [IngestNext]_ingestVars
        => [DeadStaysDeadStep /\ MonotoneStep]_ingestVars
  BY DeadNext, MonotoneNext
<1> QED
  BY <1>1, WriterInvariant, PTL DEF IngestSpec, NothingComesBack

----------------------------------------------------------------------------
(* The change feed.                                                        *)

\* A batch of events writes the change that its last event says.
LEMMA FeedEvents ==
    ASSUME TypeOK, FeedAgrees, NEW a, NEW b, NEW q, ApplyEvents(a, b, q)
    PROVE  FeedAgrees'
<1> SUFFICES ASSUME NEW u \in Uids, last_change'[u] # "none"
             PROVE  /\ lifecycle'[u] # "absent"
                    /\ (last_change'[u] = "missing") <=> (lifecycle'[u] = "missing")
  BY DEF FeedAgrees
<1>1. /\ lifecycle'[u] = LifecycleAfter(b, u)
      /\ last_change'[u] = ChangeAfter(b, u)
  BY DEF ApplyEvents
<1>2. last_change[u] # "none" =>
         /\ lifecycle[u] # "absent"
         /\ (last_change[u] = "missing") <=> (lifecycle[u] = "missing")
  BY DEF FeedAgrees
<1> QED
  BY <1>1, <1>2 DEF LifecycleAfter, ChangeAfter

\* Every step leaves the newest change in step with the lifecycle.
LEMMA FeedNext ==
    WriterInv /\ FeedAgrees /\ [IngestNext]_ingestVars => FeedAgrees'
<1> SUFFICES ASSUME WriterInv, FeedAgrees, [IngestNext]_ingestVars
             PROVE  FeedAgrees'
  OBVIOUS
<1> USE DEF WriterInv
<1>1. CASE UNCHANGED projection
  BY <1>1 DEF projection, shownRows, FeedAgrees
<1>2. ASSUME NEW a \in Agents, NEW q \in SequenceNumbers, Message(a, q)
      PROVE  FeedAgrees'
  <2>1. ASSUME NEW s \in Snapshots, ApplySnapshot(a, s, q) PROVE FeedAgrees'
    BY <2>1 DEF ApplySnapshot, ApplyRows, LifecycleIfApplied,
                ChangeIfApplied, FeedAgrees, TypeOK
  <2> QED
    BY <1>1, <1>2, <2>1, FeedEvents, MessageCases
       DEF ingestVars, Refuse, KeepSequence, OpenSnapshot, Supersede,
           StorePage
<1>3. CASE BoundChangeEvents
  BY <1>3 DEF BoundChangeEvents, shownRows, FeedAgrees
<1> QED
  BY <1>1, <1>2, <1>3
     DEF IngestNext, Enrolled, Enroll, DemandReconcile, LoseDemand, PassTtl,
         Maintenance, DiscardExpiredPending, CapPending, DrainDeadStaging,
         PruneHistory, Prunable, ingestVars

\* The newest change of a resource always says what its row says.
THEOREM FeedIsTruthful == IngestSpec => []FeedAgrees
<1>1. IngestInit => FeedAgrees
  BY DEF IngestInit, FeedAgrees
<1> QED
  BY <1>1, WriterInvariant, FeedNext, PTL DEF IngestSpec

----------------------------------------------------------------------------
(* The counters of a snapshot row against its pages and staged rows.       *)

\* The page rows of s: as many as were counted, no number twice.
PagesCounted(s) ==
    /\ IsFiniteSet(pages[s])
    /\ received_pages[s] = Cardinality(pages[s])
    /\ \A p, r \in pages[s] : p.number = r.number => p = r

\* The staged rows of s: never more than were counted.
RowsCounted(s) ==
    /\ IsFiniteSet(Staged(s))
    /\ Cardinality(Staged(s)) <= resource_count[s]

\* A snapshot without a row has nothing hanging off it.
Untouched(s) ==
    /\ pages[s] = {}
    /\ Staged(s) = {}
    /\ received_pages[s] = 0
    /\ resource_count[s] = 0

(* CountersAgree is not inductive by itself: a begin opens a row and must  *)
(* find nothing left under its uid, and a cardinality says something only  *)
(* of a finite set.                                                        *)
CountsInv ==
    \A s \in Snapshots :
        /\ status[s] = "absent" => Untouched(s)
        /\ status[s] = "pending" => PagesCounted(s) /\ RowsCounted(s)

\* A page stages at most as many new uids as it has rows (ON CONFLICT DO
\* NOTHING: a uid staged before keeps its row).
LEMMA StagingBound ==
    ASSUME NEW rows \in [Uids -> Nat], NEW content \in Seq(Resource),
           IsFiniteSet({u \in Uids : rows[u] # 0})
    PROVE  LET after == {u \in Uids : StageRows(rows, content)[u] # 0}
           IN  /\ IsFiniteSet(after)
               /\ Cardinality(after) <=
                    Cardinality({u \in Uids : rows[u] # 0}) + Len(content)
<1> DEFINE before == {u \in Uids : rows[u] # 0}
           after  == {u \in Uids : StageRows(rows, content)[u] # 0}
           sent   == {content[i].uid : i \in 1..Len(content)}
<1>1. Len(content) \in Nat
  OBVIOUS
<1>2. IsFiniteSet(1..Len(content)) /\ Cardinality(1..Len(content)) = Len(content)
  <2>1. 1 \in Int /\ Len(content) \in Int
    BY <1>1
  <2>2. /\ IsFiniteSet(1..Len(content))
        /\ Cardinality(1..Len(content)) =
             IF 1 > Len(content) THEN 0 ELSE Len(content) - 1 + 1
    BY <2>1, FS_Interval
  <2> QED
    BY <1>1, <2>2
<1>3. IsFiniteSet(sent) /\ Cardinality(sent) <= Len(content)
  <2> DEFINE uidAt == [i \in 1..Len(content) |-> content[i].uid]
  <2>1. uidAt \in Surjection(1..Len(content), sent)
    BY DEF Surjection
  <2> HIDE DEF uidAt, sent
  <2>2. /\ IsFiniteSet(sent)
        /\ Cardinality(sent) <= Cardinality(1..Len(content))
    BY <1>2, <2>1, FS_Surjection
  <2> QED
    BY <1>2, <2>2
<1>4. after \subseteq before \cup sent
  <2> SUFFICES ASSUME NEW u \in after, u \notin before PROVE u \in sent
    OBVIOUS
  <2>1. rows[u] = 0 /\ StageRows(rows, content)[u] # 0
    OBVIOUS
  <2>2. \E i \in DOMAIN content : content[i].uid = u
    BY <2>1 DEF StageRows
  <2> QED
    BY <2>2
<1> HIDE DEF before, after, sent
<1>5. IsFiniteSet(before)
  BY DEF before
<1>6. /\ IsFiniteSet(before \cup sent)
      /\ Cardinality(before \cup sent)
           = Cardinality(before) + Cardinality(sent)
               - Cardinality(before \cap sent)
  BY <1>3, <1>5, FS_Union
<1>7. /\ IsFiniteSet(after)
      /\ Cardinality(after) <= Cardinality(before \cup sent)
  BY <1>4, <1>6, FS_Subset
<1>8. IsFiniteSet(before \cap sent)
  BY <1>5, FS_Intersection
<1>9. /\ Cardinality(before) \in Nat
      /\ Cardinality(sent) \in Nat
      /\ Cardinality(after) \in Nat
      /\ Cardinality(before \cap sent) \in Nat
  BY <1>3, <1>5, <1>7, <1>8, FS_CardinalityType
<1>10. Cardinality(after) <= Cardinality(before) + Len(content)
  BY <1>1, <1>3, <1>6, <1>7, <1>9
<1> QED
  BY <1>7, <1>10 DEF before, after

\* The steps that touch no page, no staged row and no counter, and neither
\* open a row nor bring one back, keep the counts.
LEMMA CountsFrame ==
    ASSUME CountsInv,
           UNCHANGED <<pages, staging, received_pages, resource_count>>,
           \A s \in Snapshots :
              /\ status'[s] = "absent" => status[s] = "absent"
              /\ status'[s] = "pending" => status[s] = "pending"
    PROVE  CountsInv'
BY DEF CountsInv, Untouched, PagesCounted, RowsCounted, Staged

\* A begin opens a row under a uid that nothing hangs off.
LEMMA CountsBegin ==
    ASSUME TypeOK, CountsInv, NEW a, NEW q, NEW s \in Snapshots,
           OpenSnapshot(a, s, q),
           status[s] \notin {"pending", "complete", "discarded", "pruned"}
    PROVE  CountsInv'
<1>1. status[s] = "absent"
  BY DEF TypeOK, Statuses
<1>2. Untouched(s)
  BY <1>1 DEF CountsInv
<1>3. UNCHANGED <<pages, staging, received_pages, resource_count>>
  BY DEF OpenSnapshot
<1>4. PagesCounted(s)' /\ RowsCounted(s)'
  <2>1. IsFiniteSet({}) /\ Cardinality({}) = 0
    BY FS_EmptySet
  <2> QED
    BY <1>2, <1>3, <2>1 DEF Untouched, PagesCounted, RowsCounted, Staged
<1>5. ASSUME NEW t \in Snapshots, t # s
      PROVE  /\ status'[t] = "absent" => Untouched(t)'
             /\ status'[t] = "pending" => PagesCounted(t)' /\ RowsCounted(t)'
  <2>1. status'[t] \in {"absent", "pending"} => status'[t] = status[t]
    BY <1>5 DEF OpenSnapshot, Supersede
  <2> QED
    BY <1>3, <2>1 DEF CountsInv, Untouched, PagesCounted, RowsCounted, Staged
<1>6. status'[s] = "pending"
  BY DEF OpenSnapshot, Supersede
<1> QED
  BY <1>4, <1>5, <1>6 DEF CountsInv

\* A page that is stored adds one row, one to the count, and to the staged
\* rows no more than the resources it carries.
LEMMA CountsPage ==
    ASSUME TypeOK, CountsInv, NEW a, NEW q, NEW s \in Snapshots,
           NEW n \in PageNos, NEW c \in PageContents,
           StorePage(a, s, n, c, q), status[s] = "pending",
           n \notin PageNumbers(s)
    PROVE  CountsInv'
<1> DEFINE page == [number |-> n, content |-> c]
<1>1. PagesCounted(s) /\ RowsCounted(s)
  BY DEF CountsInv
<1>2. /\ pages'[s] = pages[s] \cup {page}
      /\ received_pages'[s] = received_pages[s] + 1
      /\ staging'[s] = StageRows(staging[s], c)
      /\ resource_count'[s] = resource_count[s] + Len(c)
  BY DEF StorePage, TypeOK
<1>3. page \notin pages[s]
  BY DEF PageNumbers
<1>4. PagesCounted(s)'
  <2> HIDE DEF page
  <2>1. /\ IsFiniteSet(pages[s] \cup {page})
        /\ Cardinality(pages[s] \cup {page}) = Cardinality(pages[s]) + 1
    BY <1>1, <1>3, FS_AddElement DEF PagesCounted
  <2>2. \A p, r \in pages[s] \cup {page} : p.number = r.number => p = r
    BY <1>1 DEF PagesCounted, PageNumbers, page
  <2> QED
    BY <1>1, <1>2, <2>1, <2>2 DEF PagesCounted
<1>5. RowsCounted(s)'
  <2>1. c \in Seq(Resource) /\ staging[s] \in [Uids -> Nat]
    BY StreamAssumption DEF TypeOK
  <2>2. IsFiniteSet({u \in Uids : staging[s][u] # 0})
    BY <1>1 DEF RowsCounted, Staged
  <2>3. /\ IsFiniteSet({u \in Uids : StageRows(staging[s], c)[u] # 0})
        /\ Cardinality({u \in Uids : StageRows(staging[s], c)[u] # 0}) <=
             Cardinality({u \in Uids : staging[s][u] # 0}) + Len(c)
    BY <2>1, <2>2, StagingBound
  <2>4. /\ Staged(s) = {u \in Uids : staging[s][u] # 0}
        /\ Staged(s)' = {u \in Uids : StageRows(staging[s], c)[u] # 0}
    BY <1>2 DEF Staged
  <2>5. /\ IsFiniteSet(Staged(s)')
        /\ Cardinality(Staged(s)') <= Cardinality(Staged(s)) + Len(c)
    BY <2>3, <2>4
  <2>6. /\ Cardinality(Staged(s)) \in Nat /\ Cardinality(Staged(s)') \in Nat
        /\ Len(c) \in Nat /\ resource_count[s] \in Nat
    BY <1>1, <2>1, <2>5, FS_CardinalityType DEF RowsCounted, TypeOK
  <2> QED
    BY <1>1, <1>2, <2>5, <2>6 DEF RowsCounted
<1>6. ASSUME NEW t \in Snapshots, t # s
      PROVE  /\ status'[t] = "absent" => Untouched(t)'
             /\ status'[t] = "pending" => PagesCounted(t)' /\ RowsCounted(t)'
  <2>1. /\ pages'[t] = pages[t]
        /\ staging'[t] = staging[t]
        /\ received_pages'[t] = received_pages[t]
        /\ resource_count'[t] = resource_count[t]
        /\ status'[t] = status[t]
    BY <1>6 DEF StorePage, TypeOK
  <2> QED
    BY <2>1 DEF CountsInv, Untouched, PagesCounted, RowsCounted, Staged
<1>7. status'[s] = "pending"
  BY DEF StorePage
<1> QED
  BY <1>4, <1>5, <1>6, <1>7 DEF CountsInv

\* A completed snapshot is not pending any more, and the others keep theirs.
LEMMA CountsComplete ==
    ASSUME TypeOK, CountsInv, NEW a, NEW q, NEW s \in Snapshots,
           ApplySnapshot(a, s, q)
    PROVE  CountsInv'
<1> SUFFICES ASSUME NEW t \in Snapshots, t # s
             PROVE  /\ status'[t] = "absent" => Untouched(t)'
                    /\ status'[t] = "pending" =>
                          PagesCounted(t)' /\ RowsCounted(t)'
  BY DEF CountsInv, ApplySnapshot, TypeOK
<1>1. /\ pages'[t] = pages[t]
      /\ staging'[t] = staging[t]
      /\ received_pages'[t] = received_pages[t]
      /\ resource_count'[t] = resource_count[t]
      /\ status'[t] = status[t]
  BY DEF ApplySnapshot, TypeOK
<1> QED
  BY <1>1 DEF CountsInv, Untouched, PagesCounted, RowsCounted, Staged

\* Maintenance removes rows of snapshots that can no longer apply only.
LEMMA CountsMaintenance ==
    ASSUME TypeOK, CountsInv, Maintenance
    PROVE  CountsInv'
<1>1. CASE DiscardExpiredPending \/ CapPending
  <2>1. \A s \in Snapshots :
           /\ status'[s] = "absent" => status[s] = "absent"
           /\ status'[s] = "pending" => status[s] = "pending"
    BY <1>1 DEF DiscardExpiredPending, CapPending
  <2> QED
    BY <1>1, <2>1, CountsFrame DEF DiscardExpiredPending, CapPending
<1>2. CASE DrainDeadStaging \/ PruneHistory
  <2> SUFFICES ASSUME NEW s \in Snapshots, status'[s] \in {"absent", "pending"}
               PROVE  /\ status'[s] = "absent" => Untouched(s)'
                      /\ status'[s] = "pending" =>
                            PagesCounted(s)' /\ RowsCounted(s)'
    BY DEF CountsInv
  <2>1. CASE DrainDeadStaging
    <3>1. /\ status'[s] = status[s] /\ pages'[s] = pages[s]
          /\ received_pages'[s] = received_pages[s]
          /\ resource_count'[s] = resource_count[s]
      BY <2>1 DEF DrainDeadStaging
    <3>2. staging'[s] = staging[s]
      BY <2>1, <3>1 DEF DrainDeadStaging
    <3> QED
      BY <3>1, <3>2 DEF CountsInv, Untouched, PagesCounted, RowsCounted, Staged
  <2>2. CASE PruneHistory
    <3> DEFINE old == Older(Prunable, HistoryLimit)
    <3>1. s \notin old
      BY <2>2 DEF PruneHistory
    <3>2. /\ status'[s] = status[s] /\ pages'[s] = pages[s]
          /\ staging'[s] = staging[s]
          /\ received_pages'[s] = received_pages[s]
          /\ resource_count'[s] = resource_count[s]
      BY <2>2, <3>1 DEF PruneHistory
    <3> QED
      BY <3>2 DEF CountsInv, Untouched, PagesCounted, RowsCounted, Staged
  <2> QED
    BY <1>2, <2>1, <2>2
<1>3. CASE BoundChangeEvents
  BY <1>3, CountsFrame DEF BoundChangeEvents, snapshotVars
<1> QED
  BY <1>1, <1>2, <1>3 DEF Maintenance

\* The counts are inductive, over the types.
LEMMA CountsNext == TypeOK /\ CountsInv /\ [IngestNext]_ingestVars => CountsInv'
<1> SUFFICES ASSUME TypeOK, CountsInv, [IngestNext]_ingestVars
             PROVE  CountsInv'
  OBVIOUS
<1>1. CASE UNCHANGED snapshotVars
  BY <1>1, CountsFrame DEF snapshotVars
<1>2. ASSUME NEW a \in Agents, NEW q \in SequenceNumbers, Message(a, q)
      PROVE  CountsInv'
  <2>1. \/ UNCHANGED snapshotVars
        \/ \E s \in Snapshots :
              /\ OpenSnapshot(a, s, q)
              /\ status[s] \notin {"pending", "complete", "discarded", "pruned"}
        \/ \E s \in Snapshots, n \in PageNos, c \in PageContents :
              /\ StorePage(a, s, n, c, q)
              /\ status[s] = "pending"
              /\ n \notin PageNumbers(s)
        \/ \E s \in Snapshots : ApplySnapshot(a, s, q)
    BY <1>2, MessageCases DEF ingestVars, Refuse, KeepSequence, ApplyEvents
  <2> QED
    BY <1>1, <2>1, CountsBegin, CountsPage, CountsComplete
<1>3. ASSUME NEW d \in demands, DemandReconcile(d) PROVE CountsInv'
  <2>1. \A s \in Snapshots :
           /\ status'[s] = "absent" => status[s] = "absent"
           /\ status'[s] = "pending" => status[s] = "pending"
    BY <1>3 DEF DemandReconcile
  <2> QED
    BY <1>3, <2>1, CountsFrame DEF DemandReconcile
<1>4. ASSUME NEW s \in Snapshots, PassTtl(s) PROVE CountsInv'
  BY <1>4, CountsFrame DEF PassTtl
<1>5. CASE Maintenance
  BY <1>5, CountsMaintenance
<1> QED
  BY <1>1, <1>2, <1>3, <1>4, <1>5
     DEF IngestNext, Enrolled, Enroll, LoseDemand, ingestVars

\* Nothing hangs off a snapshot without a row, and what hangs off a pending
\* one was counted.
LEMMA CountsInvariant == IngestSpec => []CountsInv
<1>1. IngestInit => CountsInv
  <2> SUFFICES ASSUME IngestInit, NEW s \in Snapshots
               PROVE  Untouched(s) /\ status[s] # "pending"
    BY DEF CountsInv
  <2> QED
    BY DEF IngestInit, Untouched, Staged
<1> QED
  BY <1>1, TypeCorrect, CountsNext, PTL DEF IngestSpec

\* The counters a complete is checked against agree with the rows they
\* count, under every message stream.
THEOREM CountersAlwaysAgree == IngestSpec => []CountersAgree
<1>1. CountsInv => CountersAgree
  BY DEF CountsInv, CountersAgree, PagesCounted, RowsCounted
<1> QED
  BY <1>1, CountsInvariant, PTL

----------------------------------------------------------------------------
(* What a snapshot is about to install is what its pages carried.          *)

\* A set of numbers that is not empty has a least.
LEMMA LeastExists ==
    ASSUME NEW S, S \subseteq Nat, S # {}
    PROVE  \E m \in S : \A n \in S : m <= n
<1> DEFINE R == {p \in Nat \X Nat : p[1] < p[2]}
<1>1. IsWellFoundedOn(R, Nat)
  <2>1. R = OpToRel(<, Nat)
    BY DEF OpToRel
  <2> QED
    BY <2>1, NatLessThanWellFounded
<1>2. PICK m \in S : \A n \in S : ~(<<n, m>> \in R)
  <2> HIDE DEF R
  <2> QED
    BY <1>1, WFMin
<1>3. ASSUME NEW n \in S PROVE m <= n
  <2>1. ~(n < m)
    BY <1>2
  <2> QED
    BY <2>1
<1> QED
  BY <1>3

\* Staging keeps the rows that are there, and takes from the page a row of
\* every other uid that is on it.
LEMMA StageRowsCarry ==
    ASSUME NEW rows \in [Uids -> Nat], NEW content \in Seq(Resource), NEW u \in Uids
    PROVE  LET after == StageRows(rows, content)[u] IN
           /\ rows[u] # 0 => after = rows[u]
           /\ rows[u] = 0 /\ after # 0 =>
                 \E i \in DOMAIN content : content[i] = [uid |-> u, rv |-> after]
           /\ \A i \in DOMAIN content : content[i].uid = u => after # 0
<1> DEFINE On == {i \in DOMAIN content : content[i].uid = u}
           first == {i \in DOMAIN content :
                         /\ content[i].uid = u
                         /\ \A j \in 1..(i - 1) : content[j].uid # u}
           after == StageRows(rows, content)[u]
<1>0. /\ DOMAIN content = 1..Len(content) /\ Len(content) \in Nat
      /\ \A i \in DOMAIN content : content[i] \in Resource
  OBVIOUS
<1>1. after = IF rows[u] # 0 \/ first = {} THEN rows[u]
              ELSE content[CHOOSE i \in first : TRUE].rv
  BY DEF StageRows
<1>2. On # {} => first # {}
  <2> SUFFICES ASSUME On # {} PROVE first # {}
    OBVIOUS
  <2>1. PICK m \in On : \A n \in On : m <= n
    <3>1. On \subseteq Nat
      BY <1>0
    <3> HIDE DEF On
    <3> QED
      BY <3>1, LeastExists
  <2>2. ASSUME NEW j \in 1..(m - 1) PROVE content[j].uid # u
    <3>1. j \in DOMAIN content /\ j < m
      BY <1>0, <2>1
    <3> QED
      BY <1>0, <2>1, <3>1
  <2>3. m \in first
    BY <2>1, <2>2
  <2> QED
    BY <2>3
<1>3. CASE rows[u] # 0
  BY <1>1, <1>3
<1>4. CASE rows[u] = 0 /\ first = {}
  BY <1>1, <1>2, <1>4
<1>5. CASE rows[u] = 0 /\ first # {}
  <2> DEFINE i == CHOOSE i \in first : TRUE
  <2>1. i \in first
    BY <1>5
  <2>2. after = content[i].rv
    BY <1>1, <1>5
  <2> HIDE DEF i, after
  <2>3. i \in DOMAIN content /\ content[i].uid = u /\ content[i] \in Resource
    BY <1>0, <2>1
  <2>4. content[i] = [uid |-> u, rv |-> after] /\ after # 0
    BY <2>2, <2>3 DEF Resource
  <2> QED
    BY <1>5, <2>3, <2>4 DEF after
<1> QED
  BY <1>3, <1>4, <1>5

\* The staged rows of s are rows of its stored pages, and all of these are
\* staged.
StagedFromPages(s) ==
    /\ \A u \in Uids : staging[s][u] # 0 =>
          \E p \in pages[s] : \E i \in DOMAIN p.content :
             p.content[i] = [uid |-> u, rv |-> staging[s][u]]
    /\ \A p \in pages[s] : \A i \in DOMAIN p.content :
          staging[s][p.content[i].uid] # 0

\* So it is for every snapshot that can still apply (_snapshot_page_txn
\* stages what it stores, and nothing drains a pending one).
StagingAgrees ==
    \A s \in Snapshots : status[s] = "pending" => StagedFromPages(s)

\* The steps that touch no page and no staged row, and neither open a row nor
\* bring one back.
LEMMA StagingFrame ==
    ASSUME StagingAgrees, UNCHANGED <<pages, staging>>,
           \A s \in Snapshots : status'[s] = "pending" => status[s] = "pending"
    PROVE  StagingAgrees'
BY DEF StagingAgrees, StagedFromPages

\* A begin opens a row under a uid that nothing hangs off.
LEMMA StagingBegin ==
    ASSUME TypeOK, CountsInv, StagingAgrees, NEW a, NEW q, NEW s \in Snapshots,
           OpenSnapshot(a, s, q),
           status[s] \notin {"pending", "complete", "discarded", "pruned"}
    PROVE  StagingAgrees'
<1>1. status[s] = "absent"
  BY DEF TypeOK, Statuses
<1>2. pages[s] = {} /\ Staged(s) = {}
  BY <1>1 DEF CountsInv, Untouched
<1>3. UNCHANGED <<pages, staging>>
  BY DEF OpenSnapshot
<1>4. StagedFromPages(s)'
  BY <1>2, <1>3 DEF StagedFromPages, Staged
<1>5. ASSUME NEW t \in Snapshots, t # s, status'[t] = "pending"
      PROVE  StagedFromPages(t)'
  <2>1. status[t] = "pending"
    BY <1>5 DEF OpenSnapshot, Supersede
  <2> QED
    BY <1>3, <2>1 DEF StagingAgrees, StagedFromPages
<1> QED
  BY <1>4, <1>5 DEF StagingAgrees

\* A page that is stored is staged.
LEMMA StagingPage ==
    ASSUME TypeOK, StagingAgrees, NEW a, NEW q, NEW s \in Snapshots,
           NEW n, NEW c \in Seq(Resource), StorePage(a, s, n, c, q), status[s] = "pending"
    PROVE  StagingAgrees'
<1> DEFINE page == [number |-> n, content |-> c]
           new == StageRows(staging[s], c)
<1>1. /\ pages'[s] = pages[s] \cup {page}
      /\ staging'[s] = new
      /\ UNCHANGED status
      /\ \A t \in Snapshots : t # s => pages'[t] = pages[t] /\ staging'[t] = staging[t]
  BY DEF StorePage, TypeOK
<1>2. staging[s] \in [Uids -> Nat] /\ pages[s] \subseteq Page
  BY DEF TypeOK
<1>3. ASSUME NEW u \in Uids
      PROVE  /\ staging[s][u] # 0 => new[u] = staging[s][u]
             /\ staging[s][u] = 0 /\ new[u] # 0 =>
                   \E i \in DOMAIN c : c[i] = [uid |-> u, rv |-> new[u]]
             /\ \A i \in DOMAIN c : c[i].uid = u => new[u] # 0
  BY <1>2, StageRowsCarry
<1>4. StagedFromPages(s)
  BY DEF StagingAgrees
<1>5. page.content = c
  OBVIOUS
<1> HIDE DEF new, page
<1>6. StagedFromPages(s)'
  <2>1. ASSUME NEW u \in Uids, new[u] # 0
        PROVE  \E p \in pages[s] \cup {page} : \E i \in DOMAIN p.content :
                  p.content[i] = [uid |-> u, rv |-> new[u]]
    BY <1>3, <1>4, <1>5, <2>1 DEF StagedFromPages
  <2>2. ASSUME NEW p \in pages[s] \cup {page}, NEW i \in DOMAIN p.content
        PROVE  new[p.content[i].uid] # 0
    <3>0. ASSUME NEW d \in Seq(Resource), NEW j \in DOMAIN d PROVE d[j].uid \in Uids
      <4>1. d[j] \in Resource
        OBVIOUS
      <4> QED
        BY <4>1 DEF Resource
    <3>1. CASE p = page
      <4>1. c[i].uid \in Uids
        BY <1>5, <3>0, <3>1
      <4> QED
        BY <1>3, <1>5, <3>1, <4>1
    <3>2. CASE p \in pages[s]
      <4>1. staging[s][p.content[i].uid] # 0
        BY <1>4, <3>2 DEF StagedFromPages
      <4>2. p.content \in Seq(Resource)
        BY <1>2, <3>2 DEF Page
      <4>3. p.content[i].uid \in Uids
        BY <3>0, <4>2
      <4> QED
        BY <1>3, <4>1, <4>3
    <3> QED
      BY <3>1, <3>2
  <2> QED
    BY <1>1, <2>1, <2>2 DEF StagedFromPages
<1>7. ASSUME NEW t \in Snapshots, t # s, status[t] = "pending"
      PROVE  StagedFromPages(t)'
  BY <1>1, <1>7 DEF StagingAgrees, StagedFromPages
<1> QED
  BY <1>1, <1>6, <1>7 DEF StagingAgrees

\* The agreement is inductive, over the types and the counts.
LEMMA StagingNext ==
    TypeOK /\ CountsInv /\ StagingAgrees /\ [IngestNext]_ingestVars => StagingAgrees'
<1> SUFFICES ASSUME TypeOK, CountsInv, StagingAgrees, [IngestNext]_ingestVars
             PROVE  StagingAgrees'
  OBVIOUS
<1>1. CASE UNCHANGED snapshotVars
  BY <1>1, StagingFrame DEF snapshotVars
<1>2. ASSUME NEW a \in Agents, NEW q \in SequenceNumbers, Message(a, q)
      PROVE  StagingAgrees'
  <2>1. ASSUME NEW s \in Snapshots, ApplySnapshot(a, s, q) PROVE StagingAgrees'
    <3> SUFFICES ASSUME NEW t \in Snapshots, status'[t] = "pending"
                 PROVE  StagedFromPages(t)'
      BY DEF StagingAgrees
    <3>1. t # s
      BY <2>1 DEF ApplySnapshot, TypeOK
    <3>2. status'[t] = status[t] /\ pages'[t] = pages[t] /\ staging'[t] = staging[t]
      BY <2>1, <3>1 DEF ApplySnapshot, TypeOK
    <3> QED
      BY <3>2 DEF StagingAgrees, StagedFromPages
  <2>2. \/ UNCHANGED snapshotVars
        \/ \E s \in Snapshots :
              /\ OpenSnapshot(a, s, q)
              /\ status[s] \notin {"pending", "complete", "discarded", "pruned"}
        \/ \E s \in Snapshots, n \in PageNos, c \in PageContents :
              StorePage(a, s, n, c, q) /\ status[s] = "pending"
        \/ \E s \in Snapshots : ApplySnapshot(a, s, q)
    BY <1>2, MessageCases DEF ingestVars, Refuse, KeepSequence, ApplyEvents
  <2> QED
    BY <1>1, <2>1, <2>2, StagingBegin, StagingPage, StreamAssumption
<1>3. ASSUME NEW d \in demands, DemandReconcile(d) PROVE StagingAgrees'
  BY <1>3, StagingFrame DEF DemandReconcile
<1>4. ASSUME NEW s \in Snapshots, PassTtl(s) PROVE StagingAgrees'
  BY <1>4, StagingFrame DEF PassTtl
<1>5. CASE Maintenance
  <2>1. CASE DiscardExpiredPending \/ CapPending
    BY <2>1, StagingFrame DEF DiscardExpiredPending, CapPending
  <2>2. CASE DrainDeadStaging \/ PruneHistory
    <3> SUFFICES ASSUME NEW s \in Snapshots, status'[s] = "pending"
                 PROVE  StagedFromPages(s)'
      BY DEF StagingAgrees
    <3>1. CASE DrainDeadStaging
      <4>1. status'[s] = status[s] /\ pages'[s] = pages[s] /\ staging'[s] = staging[s]
        BY <3>1 DEF DrainDeadStaging
      <4> QED
        BY <4>1 DEF StagingAgrees, StagedFromPages
    <3>2. CASE PruneHistory
      <4> DEFINE old == Older(Prunable, HistoryLimit)
      <4>1. s \notin old
        BY <3>2 DEF PruneHistory
      <4>2. status'[s] = status[s] /\ pages'[s] = pages[s] /\ staging'[s] = staging[s]
        BY <3>2, <4>1 DEF PruneHistory
      <4> QED
        BY <4>2 DEF StagingAgrees, StagedFromPages
    <3> QED
      BY <2>2, <3>1, <3>2
  <2>3. CASE BoundChangeEvents
    BY <2>3, StagingFrame DEF BoundChangeEvents, snapshotVars
  <2> QED
    BY <1>5, <2>1, <2>2, <2>3 DEF Maintenance
<1> QED
  BY <1>1, <1>2, <1>3, <1>4, <1>5 DEF IngestNext, Enrolled, Enroll, LoseDemand, ingestVars

\* A snapshot that can still apply installs what its pages carried, nothing
\* else and nothing less, under every message stream.
THEOREM StagingAlwaysAgrees == IngestSpec => []StagingAgrees
<1>1. IngestInit => StagingAgrees
  BY DEF IngestInit, StagingAgrees
<1> QED
  BY <1>1, TypeCorrect, CountsInvariant, StagingNext, PTL DEF IngestSpec
=============================================================================
