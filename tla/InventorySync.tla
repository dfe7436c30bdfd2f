--------------------------- MODULE InventorySync ---------------------------
(***************************************************************************)
(* The inventory pipeline end to end: a Kubernetes cluster that changes,   *)
(* cluster agents that list, snapshot and watch it (apps/cluster-agent,    *)
(* engine.go over transport.go), a network that loses replies and delivers *)
(* requests late or twice, and the ingestion API (InventoryIngest).        *)
(*                                                                         *)
(* An agent has one inventory request outstanding at a time.  Posting a    *)
(* request puts it in `net`, where it stays: the transport's retries and   *)
(* stragglers of requests it has given up on are late deliveries of it.    *)
(* Whatever is not a 2xx answer (409, 403, 5xx, a timeout) ends the cycle. *)
(*                                                                         *)
(* Everything that goes wrong is paid for from a budget of MaxFaults.      *)
(***************************************************************************)
EXTENDS InventoryIngest, SequencesExt

CONSTANTS
    Kinds,           \* the collected GVRs, in collection order (a sequence)
    KindOf,          \* Uids -> kinds
    PageMax,         \* snapshotPageMax
    QueueCapacity,   \* queueCapacity
    MaxVersion,      \* bound: cluster changes
    MaxFaults        \* bound: faults of every sort

\* The bodies an agent posts, each with its sender and its number.
Requests ==
         [type : {"begin"}, agent : Agents, seq : Nat, snap : Snapshots]
    \cup [type : {"page"}, agent : Agents, seq : Nat, snap : Snapshots,
          number : Nat \ {0}, content : Seq(Resource)]
    \cup [type : {"complete"}, agent : Agents, seq : Nat, snap : Snapshots,
          totalPages : Nat, totalResources : Nat]
    \cup [type : {"events"}, agent : Agents, seq : Nat, events : Seq(Event)]

ASSUME SyncAssumption ==
    /\ None \notin Requests
    /\ Snapshots \subseteq Nat
    /\ PageMax \in Nat \ {0}
    /\ QueueCapacity \in Nat \ {0}
    /\ MaxFaults \in Nat
    /\ Kinds \in Seq(Range(Kinds))
    /\ IsInjective(Kinds)
    /\ \A u \in Uids : KindOf[u] \in Range(Kinds)

VARIABLES
    log,             \* the cluster's history: log[i] is the change at version i
    net,             \* requests ever sent
    issued,          \* number of snapshot uids generated so far
    faults,          \* faults so far
    sequence,        \* Engine.sequence, volatile
    stored,          \* the sequence file, written after an ACK
    session,         \* what a sync cycle holds on its stack
    request,         \* the outstanding request of an agent, or None
    answer           \* its answer: "none" yet, "ok" (2xx) or "failed"

agentSide == <<sequence, stored, session, request, answer>>
syncVars  == <<ingestVars, log, net, issued, faults, agentSide>>

----------------------------------------------------------------------------
(* The cluster: an external system, seen as a log of changes.  A uid names *)
(* one incarnation of an object, so a deleted uid never returns.           *)

ChangesOf(u, v) == {i \in 1..v : log[i].uid = u}

\* The resource version of u at version v of the cluster, 0 if not there.
VersionAt(u, v) ==
    IF ChangesOf(u, v) = {} THEN 0
    ELSE LET i == Max(ChangesOf(u, v))
         IN  IF log[i].deleted THEN 0 ELSE i

Now == Len(log)

ClusterChange(u, deleted) ==
    /\ Now < MaxVersion
    /\ ~\E i \in 1..Now : log[i].uid = u /\ log[i].deleted
    /\ deleted => VersionAt(u, Now) # 0
    /\ log' = Append(log, [uid |-> u, deleted |-> deleted])
    /\ UNCHANGED <<ingestVars, net, issued, faults, agentSide>>

----------------------------------------------------------------------------
(* The agent.                                                              *)

Idle == [phase |-> "idle"]

SyncInit ==
    /\ IngestInit
    /\ log = <<>>
    /\ net = {}
    /\ issued = 0
    /\ faults = 0
    /\ sequence = [a \in Agents |-> 0]
    /\ stored = [a \in Agents |-> 0]
    /\ session = [a \in Agents |-> Idle]
    /\ request = [a \in Agents |-> None]
    /\ answer = [a \in Agents |-> "none"]

\* Engine.base: the body of a request with the agent and its next number.
Numbered(a, m) ==
    [f \in DOMAIN m \cup {"agent", "seq"} |->
        CASE f = "agent" -> a
          [] f = "seq"   -> sequence[a] + 1
          [] OTHER       -> m[f]]

\* Engine.post: one request out, under the next sequence number.
Post(a, m) ==
    /\ request[a] = None
    /\ sequence' = [sequence EXCEPT ![a] = @ + 1]
    /\ request' = [request EXCEPT ![a] = Numbered(a, m)]
    /\ net' = net \cup {Numbered(a, m)}
    /\ answer' = [answer EXCEPT ![a] = "none"]

\* syncCycle: a new queue, a new snapshot uid, and the begin.
StartCycle(a) ==
    /\ inventory_state[a] # "unenrolled"
    /\ session[a].phase = "idle"
    /\ issued + 1 \in Snapshots
    /\ issued' = issued + 1
    /\ Post(a, [type |-> "begin", snap |-> issued + 1])
    /\ session' = [session EXCEPT ![a] =
                      [phase |-> "snapshot", snap |-> issued + 1,
                       listed |-> 0, buffer |-> <<>>, pages |-> 0, total |-> 0,
                       versions |-> [k \in Range(Kinds) |-> 0]]]
    /\ UNCHANGED <<ingestVars, log, faults, stored>>

\* listGVR of the next kind: one consistent list, whose version is where the
\* watch will resume.  It starts once the previous list is emitted.
ListKind(a) ==
    LET k     == Kinds[session[a].listed + 1]
        items == {u \in Uids : KindOf[u] = k /\ VersionAt(u, Now) # 0}
    IN
    /\ session[a].phase = "snapshot"
    /\ request[a] = None
    /\ session[a].listed < Len(Kinds)
    /\ Len(session[a].buffer) < PageMax
    /\ session' = [session EXCEPT
          ![a].listed = @ + 1,
          ![a].versions[k] = Now,
          ![a].buffer = @ \o SetToSeq({[uid |-> u, rv |-> VersionAt(u, Now)] :
                                          u \in items})]
    /\ UNCHANGED <<ingestVars, log, net, issued, faults, sequence, stored,
                   request, answer>>

\* flush: a full page during the lists, or what is left after the last one.
PostPage(a) ==
    LET n == Min({PageMax, Len(session[a].buffer)}) IN
    /\ session[a].phase = "snapshot"
    /\ n > 0
    /\ n = PageMax \/ session[a].listed = Len(Kinds)
    /\ Post(a, [type |-> "page", snap |-> session[a].snap,
                number |-> session[a].pages + 1,
                content |-> SubSeq(session[a].buffer, 1, n)])
    /\ session' = [session EXCEPT
                      ![a].buffer = SubSeq(@, n + 1, Len(@)),
                      ![a].pages = @ + 1,
                      ![a].total = @ + n]
    /\ UNCHANGED <<ingestVars, log, issued, faults, stored>>

\* Wrong variant: the last flush is left out.
AllListed(a) == session[a].listed = Len(Kinds)

AllEmitted(a) == session[a].listed = Len(Kinds) /\ session[a].buffer = <<>>

PostComplete(a) ==
    /\ session[a].phase = "snapshot"
    /\ AllEmitted(a)
    /\ Post(a, [type |-> "complete", snap |-> session[a].snap,
                totalPages |-> session[a].pages,
                totalResources |-> session[a].total])
    /\ session' = [session EXCEPT ![a].phase = "completing"]
    /\ UNCHANGED <<ingestVars, log, issued, faults, stored>>

\* watchGVR: the next change of the kind goes into the bounded queue.
NextChange(a, k) ==
    {i \in (session[a].versions[k] + 1)..Now :
        /\ KindOf[log[i].uid] = k
        /\ \A j \in (session[a].versions[k] + 1)..(i - 1) :
              KindOf[log[j].uid] # k}

WatchEvent(i) == [uid |-> log[i].uid, rv |-> i, deleted |-> log[i].deleted]

ReceiveChange(a, k) ==
    /\ session[a].phase = "watch"
    /\ Len(session[a].queue) < QueueCapacity
    /\ \E i \in NextChange(a, k) :
          session' = [session EXCEPT ![a].versions[k] = i,
                                     ![a].queue = Append(@, WatchEvent(i))]
    /\ UNCHANGED <<ingestVars, log, net, issued, faults, sequence, stored,
                   request, answer>>

\* EndCycle: any error of a cycle.  Run starts the next one after a backoff.
EndCycle(a) ==
    /\ session' = [session EXCEPT ![a] = Idle]
    /\ request' = [request EXCEPT ![a] = None]
    /\ answer' = [answer EXCEPT ![a] = "none"]
    /\ UNCHANGED <<ingestVars, log, net, issued, sequence, stored>>

Overflow(a, k) ==
    /\ session[a].phase = "watch"
    /\ Len(session[a].queue) = QueueCapacity
    /\ NextChange(a, k) # {}
    /\ EndCycle(a)
    /\ UNCHANGED faults

\* flushLoop: a tick (or a full batch) posts a prefix of the queue.
PostEvents(a) ==
    /\ session[a].phase = "watch"
    /\ session[a].queue # <<>>
    /\ \E n \in 1..Len(session[a].queue) :
          /\ Post(a, [type |-> "events",
                      events |-> SubSeq(session[a].queue, 1, n)])
          /\ session' = [session EXCEPT
                            ![a].queue = SubSeq(@, n + 1, Len(@))]
    /\ UNCHANGED <<ingestVars, log, issued, faults, stored>>

\* Wrong variant: the watch starts from now, not from the lists' versions.
WatchFromNow(a) == [k \in Range(Kinds) |-> Now]

\* Where the watches resume: the resource versions of the lists.
WatchFrom(a) == session[a].versions

\* A 2xx answer: the cycle goes on, and a completed snapshot turns into a
\* watch session.
Proceed(a) ==
    /\ answer[a] = "ok"
    /\ session' = IF session[a].phase = "completing"
                  THEN [session EXCEPT ![a] =
                           [phase |-> "watch", queue |-> <<>>,
                            versions |-> WatchFrom(a)]]
                  ELSE session
    /\ request' = [request EXCEPT ![a] = None]
    /\ answer' = [answer EXCEPT ![a] = "none"]
    /\ UNCHANGED <<ingestVars, log, net, issued, sequence>>

\* persistAck: the acknowledged sequence reaches the disk.
Acked(a) ==
    /\ Proceed(a)
    /\ stored' = [stored EXCEPT ![a] = request[a].seq]
    /\ UNCHANGED faults

\* A refusal answers once the demand it left behind is committed.
Rejected(a) ==
    /\ answer[a] = "failed"
    /\ ~\E d \in demands : d.agent = a
    /\ EndCycle(a)
    /\ UNCHANGED faults

----------------------------------------------------------------------------
(* The server's end of the network.                                        *)

Handle(m) ==
    CASE m.type = "begin"    -> SnapshotBegin(m.agent, m.snap, m.seq)
      [] m.type = "page"     -> SnapshotPage(m.agent, m.snap, m.number,
                                             m.content, m.seq)
      [] m.type = "complete" -> SnapshotComplete(m.agent, m.snap, m.totalPages,
                                                 m.totalResources, m.seq)
      [] m.type = "events"   -> WatchEvents(m.agent, m.events, m.seq)

\* Wrong variant: the agent takes a refused batch of events for delivered.
AcceptsAnyEvents(m) ==
    CASE m.type = "begin"    -> BeginResult(m.agent, m.snap, m.seq)
                                   \in {"duplicate", "stale", "accepted"}
      [] m.type = "page"     -> PageResult(m.agent, m.snap, m.number,
                                           m.content, m.seq)
                                   \in {"duplicate", "repeated", "accepted"}
      [] m.type = "complete" -> CompleteResult(m.agent, m.snap, m.totalPages,
                                               m.totalResources, m.seq)
                                   \in {"duplicate", "applied"}
      [] m.type = "events"   -> TRUE

Accepts(m) ==
    CASE m.type = "begin"    -> BeginResult(m.agent, m.snap, m.seq)
                                   \in {"duplicate", "stale", "accepted"}
      [] m.type = "page"     -> PageResult(m.agent, m.snap, m.number,
                                           m.content, m.seq)
                                   \in {"duplicate", "repeated", "accepted"}
      [] m.type = "complete" -> CompleteResult(m.agent, m.snap, m.totalPages,
                                               m.totalResources, m.seq)
                                   \in {"duplicate", "applied"}
      [] m.type = "events"   -> EventsResult(m.agent, m.seq)
                                   \in {"duplicate", "applied"}

\* The outstanding request reaches the API and its answer the agent.
Deliver(a) ==
    /\ request[a] # None
    /\ answer[a] = "none"
    /\ Handle(request[a])
    /\ answer' = [answer EXCEPT
                     ![a] = IF Accepts(request[a]) THEN "ok" ELSE "failed"]
    /\ UNCHANGED <<log, net, issued, faults, sequence, stored, session,
                   request>>

----------------------------------------------------------------------------
(* What goes wrong, within the budget.                                     *)

Fault == faults < MaxFaults /\ faults' = faults + 1

\* A straggler: a request given up on, or a copy of one already answered.
DeliverLate(m) ==
    /\ Fault
    /\ m \in net
    /\ request[m.agent] # m \/ answer[m.agent] # "none"
    /\ Handle(m)
    /\ UNCHANGED <<log, net, issued, agentSide>>

\* The answer is lost; the transport will retry the same request.
LoseAnswer(a) ==
    /\ Fault
    /\ answer[a] # "none"
    /\ answer' = [answer EXCEPT ![a] = "none"]
    /\ UNCHANGED <<ingestVars, log, net, issued, sequence, stored, session,
                   request>>

\* Five attempts failed, a list or watch failed, the watch closed, 410 Gone.
FailCycle(a) ==
    /\ Fault
    /\ session[a].phase # "idle"
    /\ EndCycle(a)

\* The process restarts: only the sequence file survives.
Restart(a) ==
    /\ Fault
    /\ session' = [session EXCEPT ![a] = Idle]
    /\ sequence' = [sequence EXCEPT ![a] = stored[a]]
    /\ request' = [request EXCEPT ![a] = None]
    /\ answer' = [answer EXCEPT ![a] = "none"]
    /\ UNCHANGED <<ingestVars, log, net, issued, stored>>

\* StoreSequence fails: a warning in the log, nothing else.
AckedNotStored(a) ==
    /\ Fault
    /\ Proceed(a)
    /\ UNCHANGED stored

\* A snapshot outlives its TTL; a demand dies with its API process.
Expire(s) ==
    /\ Fault
    /\ PassTtl(s)
    /\ UNCHANGED <<log, net, issued, agentSide>>

DropDemand(d) ==
    /\ Fault
    /\ LoseDemand(d)
    /\ UNCHANGED <<log, net, issued, agentSide>>

----------------------------------------------------------------------------
Other == UNCHANGED <<log, net, issued, faults, agentSide>>

AgentStep(a) ==
    \/ StartCycle(a)
    \/ ListKind(a)
    \/ PostPage(a)
    \/ PostComplete(a)
    \/ \E k \in Range(Kinds) : ReceiveChange(a, k) \/ Overflow(a, k)
    \/ PostEvents(a)
    \/ Acked(a)
    \/ Rejected(a)

ServerStep ==
    \/ \E a \in Agents : Deliver(a)
    \/ (\E d \in demands : DemandReconcile(d)) /\ Other

Takeover(a) == Enroll(a) /\ Other

Upkeep == Maintenance /\ Other

Faulty ==
    \/ \E m \in net : DeliverLate(m)
    \/ \E a \in Agents : \/ LoseAnswer(a)
                         \/ FailCycle(a)
                         \/ Restart(a)
                         \/ AckedNotStored(a)
    \/ \E s \in Snapshots : Expire(s)
    \/ \E d \in demands : DropDemand(d)

SyncNext ==
    \/ \E u \in Uids, deleted \in BOOLEAN : ClusterChange(u, deleted)
    \/ \E a \in Agents : Takeover(a) \/ AgentStep(a)
    \/ ServerStep
    \/ Upkeep
    \/ Faulty

SyncSpec == SyncInit /\ [][SyncNext]_syncVars

\* The goroutines of the agent and the workers of the API keep running.
FairSync ==
    /\ SyncSpec
    /\ \A a \in Agents : /\ WF_syncVars(Takeover(a))
                         /\ WF_syncVars(AgentStep(a))
                         /\ WF_syncVars(Deliver(a))
    /\ WF_syncVars(ServerStep)

----------------------------------------------------------------------------
(* Properties.                                                             *)

\* The projection of u is what the cluster held at version v.
ShowsVersion(u, v) ==
    /\ (lifecycle[u] = "active") <=> (VersionAt(u, v) # 0)
    /\ lifecycle[u] = "active" => resource_version[u] = VersionAt(u, v)

\* The shape of the agent's and the network's state.
SyncTypeOK ==
    /\ faults \in 0..MaxFaults
    /\ issued \in Nat
    /\ log \in Seq([uid : Uids, deleted : BOOLEAN])
    /\ net \subseteq Requests
    /\ \A a \in Agents :
          /\ stored[a] <= sequence[a]
          /\ request[a] \in net \cup {None}
          /\ answer[a] \in {"none", "ok", "failed"}
          /\ session[a].phase \in {"idle", "snapshot", "completing", "watch"}

\* ADR-0017: "The projection is always a consistent cut".  For every kind
\* the projection shows the cluster exactly as it was at ONE version, never a
\* mixture of two snapshots, of a snapshot and someone else's events, or of
\* events with a hole, whatever was retried, late, torn, lost or taken over.
ConsistentCut ==
    \A k \in Range(Kinds) :
        \E v \in 0..Now :
            \A u \in Uids : KindOf[u] = k => ShowsVersion(u, v)

\* "Data loss is surfaced as staleness, never hidden" (ADR-0017): an active
\* writer that is watching, has caught up with the cluster and has nothing
\* in flight shows the cluster as it is.  No list/watch gap, no acknowledged
\* batch that was not applied (engine.go's snapshot, watchAll, flushLoop).
NothingSilentlyLost ==
    \A a \in Agents :
        /\ a = active_agent
        /\ session[a].phase = "watch"
        /\ request[a] = None
        /\ session[a].queue = <<>>
        /\ \A k \in Range(Kinds) : NextChange(a, k) = {}
        => \A u \in Uids : ShowsVersion(u, Now)

\* "Deletes mark missing": a resource is shown as missing only when it is
\* really gone from the cluster; no stale or foreign snapshot makes a living
\* resource disappear (_apply_snapshot's absentees).
MissingIsGone ==
    \A u \in Uids : lifecycle[u] = "missing" => VersionAt(u, Now) = 0

\* The projection is at all times a true picture of the cluster, whole or
\* late but never torn, and never emptier than the cluster is.
TruePicture == SyncTypeOK /\ ConsistentCut /\ MissingIsGone

\* A straggler never takes a resource back: its version never decreases, and
\* a resource marked missing never comes back as a ghost.
ForwardStep ==
    \A u \in Uids :
        /\ resource_version'[u] >= resource_version[u]
        /\ lifecycle[u] = "missing" => lifecycle'[u] = "missing"
ProjectionGoesForward == [][ForwardStep]_syncVars

\* A begin whose snapshot uid was pruned can only be a retransmission: the
\* outcome InventoryIngest leaves out never arises.
NoReusedUid ==
    \A m \in net :
        m.type = "begin" => BeginResult(m.agent, m.snap, m.seq) # "unused"

\* Once the changes and the faults are over, the projection becomes the
\* cluster and stays it: every failure ends in a cycle that completes.
Converges == <>[](\A u \in Uids : ShowsVersion(u, Now))
============================================================================
