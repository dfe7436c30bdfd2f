----------------------------- MODULE SyncProofs -----------------------------
(***************************************************************************)
(* Proofs about the stream of messages in InventorySync, for any number of *)
(* agents, snapshots, kinds, resources, cluster changes and faults.        *)
(*                                                                         *)
(* BaseInv is the shape of messages, sessions and rows.  It makes the      *)
(* pipeline a behaviour of InventoryIngest under an arbitrary stream, so   *)
(* the pipeline has the ingestion API's invariants (IngestProofs).         *)
(* TrafficFacts and SequenceFacts say which of an agent's messages exist   *)
(* and which numbers they carry, whatever is late or sent twice.           *)
(***************************************************************************)
EXTENDS InventorySync, FiniteSetTheorems, WellFoundedInduction, TLAPS

----------------------------------------------------------------------------
(* The cluster's log.                                                      *)

\* Nothing happens to a uid after its deletion.
LogInv ==
    /\ log \in Seq([uid : Uids, deleted : BOOLEAN])
    /\ \A i, j \in 1..Now : log[i].deleted /\ log[j].uid = log[i].uid => j <= i

\* u was deleted by version v.
GoneBy(u, v) == \E i \in 1..v : log[i].uid = u /\ log[i].deleted

\* A set of numbers that is not empty has a least.
LEMMA LeastExists ==
    ASSUME NEW S, S \subseteq Nat, S # {}
    PROVE  \E m \in S : \A n \in S : m <= n
<1> DEFINE R == {p \in Nat \X Nat : p[1] < p[2]}
<1>1. IsWellFoundedOn(R, Nat)
  <2>1. R = OpToRel(<, Nat)
    BY DEF OpToRel
  <2> QED
    BY <2>1, NatLessThanWellFounded
<1>2. PICK m \in S : \A n \in S : ~(<<n, m>> \in R)
  <2> HIDE DEF R
  <2> QED
    BY <1>1, WFMin
<1>3. ASSUME NEW n \in S PROVE m <= n
  <2>1. ~(n < m)
    BY <1>2
  <2> QED
    BY <2>1
<1> QED
  BY <1>3

\* A bounded one has a largest, which Max finds.
LEMMA LargestIsMax ==
    ASSUME NEW N \in Nat, NEW S, S \subseteq 0..N, S # {}
    PROVE  Max(S) \in S /\ \A n \in S : n <= Max(S)
<1> DEFINE T == {k \in Nat : N - k \in S}
<1>1. T # {}
  <2>1. PICK n \in S : TRUE
    OBVIOUS
  <2>2. N - n \in Nat /\ N - (N - n) = n
    BY <2>1
  <2> QED
    BY <2>1, <2>2
<1>2. PICK k \in T : \A j \in T : k <= j
  <2> HIDE DEF T
  <2>1. T \subseteq Nat
    BY DEF T
  <2> QED
    BY <1>1, <2>1, LeastExists
<1>3. ASSUME NEW n \in S PROVE N - k >= n
  <2>1. n \in Nat /\ n <= N /\ N - n \in Nat /\ N - (N - n) = n
    OBVIOUS
  <2>2. N - n \in T
    BY <2>1
  <2> QED
    BY <1>2, <2>1, <2>2
<1>4. \E x \in S : \A y \in S : x >= y
  BY <1>3
<1>5. Max(S) \in S /\ \A y \in S : Max(S) >= y
  BY <1>4 DEF Max
<1> QED
  BY <1>5

\* The version of a resource is its last change, unless that is its deletion.
LEMMA VersionIs ==
    ASSUME NEW u, NEW v \in Nat
    PROVE  \/ VersionAt(u, v) = 0 /\ \A i \in 1..v : log[i].uid # u
           \/ \E i \in 1..v :
                 /\ log[i].uid = u
                 /\ \A j \in 1..v : log[j].uid = u => j <= i
                 /\ VersionAt(u, v) = IF log[i].deleted THEN 0 ELSE i
<1>1. CASE ChangesOf(u, v) = {}
  BY <1>1 DEF ChangesOf, VersionAt
<1>2. CASE ChangesOf(u, v) # {}
  <2> DEFINE i == Max(ChangesOf(u, v))
  <2>1. ChangesOf(u, v) \subseteq 0..v
    BY DEF ChangesOf
  <2>2. i \in ChangesOf(u, v) /\ \A n \in ChangesOf(u, v) : n <= i
    BY <1>2, <2>1, LargestIsMax
  <2>3. VersionAt(u, v) = IF log[i].deleted THEN 0 ELSE i
    BY <1>2 DEF VersionAt
  <2> HIDE DEF i
  <2> QED
    BY <2>2, <2>3 DEF ChangesOf
<1> QED
  BY <1>1, <1>2

\* Conversely, the last change is the version.
LEMMA VersionOf ==
    ASSUME NEW u, NEW v \in Nat, NEW i \in 1..v, log[i].uid = u,
           \A j \in 1..v : log[j].uid = u => j <= i
    PROVE  VersionAt(u, v) = IF log[i].deleted THEN 0 ELSE i
<1>1. PICK x \in 1..v :
         /\ log[x].uid = u
         /\ \A j \in 1..v : log[j].uid = u => j <= x
         /\ VersionAt(u, v) = IF log[x].deleted THEN 0 ELSE x
  BY VersionIs
<1>2. x = i
  BY <1>1
<1> QED
  BY <1>1, <1>2

\* Nothing happened to u between two versions.
LEMMA VersionStays ==
    ASSUME NEW u, NEW v \in Nat, NEW w \in Nat, v <= w,
           \A i \in (v + 1)..w : log[i].uid # u
    PROVE  VersionAt(u, w) = VersionAt(u, v)
<1>1. ChangesOf(u, w) = ChangesOf(u, v)
  <2>1. \A i \in 1..w : i \in 1..v \/ i \in (v + 1)..w
    OBVIOUS
  <2>2. \A i \in 1..v : i \in 1..w
    OBVIOUS
  <2> QED
    BY <2>1, <2>2 DEF ChangesOf
<1> QED
  BY <1>1 DEF VersionAt

\* A version is a number that is not in the future.
LEMMA VersionBound ==
    ASSUME NEW u, NEW v \in Nat
    PROVE  VersionAt(u, v) \in 0..v
BY VersionIs

\* A version that is there is a change of that resource.
LEMMA VersionIsChange ==
    ASSUME NEW u, NEW v \in Nat, VersionAt(u, v) # 0
    PROVE  /\ VersionAt(u, v) \in 1..v
           /\ log[VersionAt(u, v)].uid = u
           /\ ~log[VersionAt(u, v)].deleted
BY VersionIs

\* Whoever was deleted is not there.
LEMMA GoneIsGone ==
    ASSUME LogInv, NEW u, NEW v \in Nat, NEW w \in 0..Now, v <= w, GoneBy(u, v)
    PROVE  VersionAt(u, w) = 0
<1>1. PICK i \in 1..v : log[i].uid = u /\ log[i].deleted
  BY DEF GoneBy
<1>2. i \in 1..w
  OBVIOUS
<1>2a. Now \in Nat
  BY DEF LogInv, Now
<1>3. \A j \in 1..w : log[j].uid = u => j <= i
  BY <1>1, <1>2, <1>2a DEF LogInv
<1> QED
  BY <1>1, <1>2, <1>3, VersionOf

\* It stays deleted.
LEMMA GoneStays ==
    ASSUME NEW u, NEW v \in Nat, NEW w \in Nat, v <= w, GoneBy(u, v)
    PROVE  GoneBy(u, w)
BY DEF GoneBy

----------------------------------------------------------------------------
(* The log only grows, and its past is fixed.                              *)

\* What every step leaves of the cluster's past.
Past ==
    /\ Now \in Nat /\ Now' \in Nat
    /\ Now <= Now'
    /\ \A i \in 1..Now : log'[i] = log[i]

\* What was, stays so.
LEMMA PastVersions ==
    ASSUME Past, NEW u, NEW v \in 0..Now
    PROVE  /\ VersionAt(u, v)' = VersionAt(u, v)
           /\ GoneBy(u, v)' <=> GoneBy(u, v)
<1>1. \A i \in 1..v : log'[i] = log[i]
  BY DEF Past
<1>2. {i \in 1..v : log'[i].uid = u} = {i \in 1..v : log[i].uid = u}
  BY <1>1
<1>3. VersionAt(u, v)' = VersionAt(u, v)
  <2> DEFINE S == {i \in 1..v : log[i].uid = u}
             T == {i \in 1..v : log'[i].uid = u}
  <2>1. CASE S = {}
    BY <1>2, <2>1 DEF VersionAt, ChangesOf
  <2>2. CASE S # {}
    <3>1. S \subseteq 0..v
      OBVIOUS
    <3>1a. v \in Nat
      BY DEF Past
    <3> HIDE DEF S
    <3>2. Max(S) \in S
      BY <2>2, <3>1, <3>1a, LargestIsMax
    <3>3. Max(S) \in 1..v
      BY <3>2 DEF S
    <3>4. VersionAt(u, v) = IF log[Max(S)].deleted THEN 0 ELSE Max(S)
      BY <2>2 DEF VersionAt, ChangesOf, S
    <3>5. VersionAt(u, v)' = IF log'[Max(T)].deleted THEN 0 ELSE Max(T)
      BY <1>2, <2>2 DEF VersionAt, ChangesOf, S
    <3> HIDE DEF T
    <3>6. T = S
      BY <1>2 DEF S, T
    <3> QED
      BY <1>1, <3>3, <3>4, <3>5, <3>6
  <2> QED
    BY <2>1, <2>2
<1>4. GoneBy(u, v)' <=> GoneBy(u, v)
  BY <1>1 DEF GoneBy
<1> QED
  BY <1>3, <1>4

\* A step that leaves the log alone.
LEMMA PastSame == ASSUME LogInv, UNCHANGED log PROVE Past
BY DEF LogInv, Past, Now

\* A change of the cluster.
LEMMA PastGrows ==
    ASSUME LogInv, NEW u \in Uids, NEW deleted \in BOOLEAN, ClusterChange(u, deleted)
    PROVE  /\ Past /\ LogInv'
           /\ Now' = Now + 1
<1>1. log' = Append(log, [uid |-> u, deleted |-> deleted])
  BY DEF ClusterChange
<1>2. /\ Len(log) \in Nat /\ Len(log') = Len(log) + 1
      /\ log' \in Seq([uid : Uids, deleted : BOOLEAN])
      /\ \A i \in 1..Len(log) : log'[i] = log[i]
      /\ log'[Len(log) + 1] = [uid |-> u, deleted |-> deleted]
  BY <1>1 DEF LogInv
<1>3. \A i \in 1..Now : ~(log[i].uid = u /\ log[i].deleted)
  BY DEF ClusterChange
<1>4. \A i, j \in 1..(Now') : log'[i].deleted /\ log'[j].uid = log'[i].uid => j <= i
  <2> SUFFICES ASSUME NEW i \in 1..(Now + 1), NEW j \in 1..(Now + 1),
                      log'[i].deleted, log'[j].uid = log'[i].uid
               PROVE  j <= i
    BY <1>2 DEF Now
  <2>1. CASE i = Now + 1
    BY <1>2, <2>1 DEF Now
  <2>2. CASE i \in 1..Now /\ j \in 1..Now
    BY <1>2, <2>2 DEF Now, LogInv
  <2>3. CASE i \in 1..Now /\ j = Now + 1
    BY <1>2, <1>3, <2>3 DEF Now
  <2> QED
    BY <1>2, <2>1, <2>2, <2>3 DEF Now
<1> QED
  BY <1>2, <1>4 DEF Past, LogInv, Now

----------------------------------------------------------------------------
(* Messages, sessions and sequence numbers.                                *)

\* Every message has the shape of its type, and its snapshot was issued.
WellFormed(m) == m \in Requests /\ (m.type # "events" => m.snap <= issued)

Collecting ==
    [phase : {"snapshot", "completing"}, snap : Snapshots, listed : 0..Len(Kinds),
     buffer : Seq(Resource), pages : Nat, total : Nat, versions : [Range(Kinds) -> Nat]]
Watching ==
    [phase : {"watch"}, queue : Seq(Event), versions : [Range(Kinds) -> Nat]]

Collects(a) == session[a].phase \in {"snapshot", "completing"}
Watches(a) == session[a].phase = "watch"

\* What an agent holds, and how it agrees with what it asked last.
Shape(a) ==
    /\ inventory_state[a] = "unenrolled" => session[a] = Idle
    /\ Collects(a) => session[a].snap <= issued
    /\ request[a] # None =>
          /\ request[a].agent = a /\ request[a].seq = sequence[a]
          /\ session[a].phase # "idle"
    /\ session[a].phase = "snapshot" /\ request[a] # None =>
          /\ request[a].type \in {"begin", "page"}
          /\ request[a].snap = session[a].snap
          /\ request[a].type = "begin" =>
                session[a].listed = 0 /\ session[a].buffer = <<>> /\ session[a].pages = 0
    /\ session[a].phase = "completing" =>
          /\ request[a] # None
          /\ request[a].type = "complete" /\ request[a].snap = session[a].snap
    /\ Watches(a) /\ request[a] # None => request[a].type = "events"

SessionFacts ==
    /\ session \in [Agents -> {Idle} \cup Collecting \cup Watching]
    /\ \A a \in Agents : Shape(a)

\* A begin was answered: the sequence has passed it, so it can open no more.
Begun(s) == \A m \in net : m.type = "begin" /\ m.snap = s => m.seq <= last_sequence[m.agent]

BeganBy(s, a) == \E m \in net : m.type = "begin" /\ m.snap = s /\ m.agent = a

\* A page and a complete follow the begin of their snapshot, by its agent.
BegunFirst ==
    \A m \in net : m.type \in {"page", "complete"} => Begun(m.snap) /\ BeganBy(m.snap, m.agent)

\* A page number of a snapshot names one page, and a complete counts them all.
PagesAgree ==
    /\ \A m, n \in net : m.type = "page" /\ n.type = "page" /\ m.snap = n.snap
                            /\ m.number = n.number => m.content = n.content
    /\ \A m, n \in net : m.type = "page" /\ n.type = "complete" /\ m.snap = n.snap
                            => m.number <= n.totalPages

\* What the rows of the API hold was sent.
RowsSent ==
    /\ \A s \in Snapshots : status[s] = "complete" =>
          \E m \in net : m.type = "complete" /\ m.snap = s /\ m.seq <= last_sequence[m.agent]
    /\ \A s \in Snapshots : \A p \in pages[s] :
          \E m \in net : m.type = "page" /\ m.snap = s /\ m.number = p.number
                            /\ m.content = p.content

\* What was sent of the snapshot that an agent is at.
Sent(a) ==
    LET s == session[a].snap IN
    /\ BeganBy(s, a)
    /\ request[a] = None \/ request[a].type # "begin" => Begun(s)
    /\ \A m \in net : m.type = "page" /\ m.snap = s => m.number <= session[a].pages
    /\ \A m \in net : m.type = "complete" /\ m.snap = s =>
          session[a].phase = "completing" /\ m = request[a]

TrafficFacts ==
    /\ BegunFirst /\ PagesAgree /\ RowsSent
    /\ \A a \in Agents : Collects(a) => Sent(a)

\* An agent's numbers against the number the API has reached.
Numbers(a) ==
    /\ stored[a] <= sequence[a]
    /\ stored[a] <= last_sequence[a]
    /\ answer[a] = "ok" => request[a].seq <= last_sequence[a]
    /\ session[a].phase # "idle" /\ request[a] = None => sequence[a] <= last_sequence[a]

SequenceFacts ==
    /\ \A a \in Agents : Numbers(a)
    /\ \A m \in net : m.type # "begin" => m.seq <= last_sequence[m.agent] + 1

\* The API has all of the agent, and no gap.
Fresh(a) == inventory_state[a] = "fresh"

\* The projection has its types.
ProjectionTypes ==
    /\ lifecycle \in [Uids -> {"absent", "active", "missing"}]
    /\ resource_version \in [Uids -> Nat]

----------------------------------------------------------------------------
(* InventorySync: what a pruned snapshot's begin can still do.             *)

\* The agents' counters are numbers, and what is answered was asked.
AgentFacts ==
    /\ issued \in Nat
    /\ sequence \in [Agents -> Nat]
    /\ stored \in [Agents -> Nat]
    /\ request \in [Agents -> net \cup {None}]
    /\ answer \in [Agents -> {"none", "ok", "failed"}]
    /\ \A a \in Agents : answer[a] # "none" => request[a] # None

\* A message names its agent and its number, and a snapshot is begun by one
\* message only.
NetFacts ==
    /\ \A m \in net :
          /\ m.agent \in Agents /\ m.seq \in Nat
          /\ m.type \in {"begin", "page", "complete", "events"}
          /\ m.type = "begin" => m.snap \in Snapshots /\ m.snap <= issued
    /\ \A m, n \in net :
          m.type = "begin" /\ n.type = "begin" /\ m.snap = n.snap => m = n

(* A snapshot gets its row by the begin that names it, and an agent's      *)
(* sequence never falls behind a begin that was accepted.  Without this a  *)
(* straggler could open a pruned snapshot a second time.  Only snapshots   *)
(* that were issued have, or had, a row, and a demand names only such.     *)
RowFacts ==
    /\ last_sequence \in [Agents -> Nat]
    /\ status \in [Snapshots -> Statuses]
    /\ \A m \in net : m.type = "begin" /\ status[m.snap] # "absent" =>
          m.seq <= last_sequence[m.agent]
    /\ \A s \in Snapshots : status[s] # "absent" => s <= issued
    /\ \A d \in demands : d.discard \in Snapshots => status[d.discard] # "absent"

BeginInv == AgentFacts /\ NetFacts /\ RowFacts

\* A request is its body, with the agent and the number.
LEMMA RequestFields ==
    ASSUME NEW m, NEW a, "agent" \notin DOMAIN m, "seq" \notin DOMAIN m
    PROVE  /\ Numbered(a, m).agent = a
           /\ Numbered(a, m).seq = sequence[a] + 1
           /\ \A f \in DOMAIN m : Numbered(a, m)[f] = m[f]
BY DEF Numbered

\* Posting a request that is no begin, or the begin of a new snapshot.
LEMMA PostKeeps ==
    ASSUME BeginInv, NEW a \in Agents, NEW m, Post(a, m), UNCHANGED <<ingestVars, stored>>,
           "agent" \notin DOMAIN m, "seq" \notin DOMAIN m, "type" \in DOMAIN m,
           m.type \in {"begin", "page", "complete", "events"},
           \/ m.type # "begin" /\ UNCHANGED issued
           \/ /\ m.type = "begin" /\ "snap" \in DOMAIN m
              /\ m.snap = issued + 1 /\ m.snap \in Snapshots
              /\ issued' = issued + 1
    PROVE  BeginInv'
<1> DEFINE r == Numbered(a, m)
<1>1. /\ r.agent = a /\ r.seq = sequence[a] + 1 /\ r.type = m.type
      /\ "snap" \in DOMAIN m => r.snap = m.snap
  BY RequestFields
<1>2. /\ net' = net \cup {r}
      /\ sequence' = [sequence EXCEPT ![a] = @ + 1]
      /\ request' = [request EXCEPT ![a] = r]
      /\ answer' = [answer EXCEPT ![a] = "none"]
  BY DEF Post
<1> HIDE DEF r
<1>3. AgentFacts'
  BY <1>2 DEF BeginInv, AgentFacts
<1>4. issued \in Nat /\ sequence[a] \in Nat /\ issued' \in Nat /\ issued <= issued'
  BY DEF BeginInv, AgentFacts
<1>5. NetFacts'
  <2>1. ASSUME NEW n \in net'
        PROVE  /\ n.agent \in Agents /\ n.seq \in Nat
               /\ n.type \in {"begin", "page", "complete", "events"}
               /\ n.type = "begin" => n.snap \in Snapshots /\ n.snap <= issued'
    <3>1. CASE n = r
      BY <1>1, <1>4, <3>1
    <3>2. CASE n \in net
      <4>1. n.type = "begin" => n.snap \in Snapshots /\ n.snap <= issued
        BY <3>2 DEF BeginInv, NetFacts
      <4>2. n.type = "begin" => n.snap \in Nat
        BY <4>1, SyncAssumption
      <4> QED
        BY <1>4, <3>2, <4>1, <4>2 DEF BeginInv, NetFacts
    <3> QED
      BY <1>2, <3>1, <3>2
  <2>2. ASSUME NEW n \in net, n.type = "begin", r.type = "begin"
        PROVE  n.snap # r.snap
    <3>1. n.snap \in Nat /\ n.snap <= issued
      BY <2>2, SyncAssumption DEF BeginInv, NetFacts
    <3> QED
      BY <1>1, <1>4, <2>2, <3>1
  <2> QED
    BY <1>2, <2>1, <2>2 DEF BeginInv, NetFacts
<1>6. RowFacts'
  <2>1. UNCHANGED <<status, last_sequence, demands>>
    BY DEF ingestVars, snapshotVars, agentVars
  <2>2. r.type = "begin" => status[r.snap] = "absent"
    <3> SUFFICES ASSUME r.type = "begin", status[r.snap] # "absent" PROVE FALSE
      OBVIOUS
    <3>1. r.snap \in Snapshots /\ r.snap = issued + 1
      BY <1>1
    <3>2. r.snap <= issued
      BY <3>1 DEF BeginInv, RowFacts
    <3> QED
      BY <1>4, <3>1, <3>2
  <2>3. \A s \in Snapshots : status[s] # "absent" => s <= issued'
    <3> SUFFICES ASSUME NEW s \in Snapshots, status[s] # "absent" PROVE s <= issued'
      OBVIOUS
    <3>1. s \in Nat /\ s <= issued
      BY SyncAssumption DEF BeginInv, RowFacts
    <3> QED
      BY <1>4, <3>1
  <2> QED
    BY <1>2, <2>1, <2>2, <2>3 DEF BeginInv, RowFacts
<1> QED
  BY <1>3, <1>5, <1>6 DEF BeginInv

\* Stopping, and starting over, forgets what was asked and no more.
LEMMA StopKeeps ==
    ASSUME BeginInv, NEW a \in Agents, UNCHANGED <<ingestVars, net, issued>>,
           request' = [request EXCEPT ![a] = None],
           answer' = [answer EXCEPT ![a] = "none"],
           sequence' \in [Agents -> Nat], stored' \in [Agents -> Nat]
    PROVE  BeginInv'
<1>1. AgentFacts'
  BY DEF BeginInv, AgentFacts
<1> QED
  BY <1>1 DEF BeginInv, NetFacts, RowFacts, ingestVars, snapshotVars, agentVars

\* The steps that leave requests, counters and the API's tables alone.
LEMMA BeginFrame ==
    ASSUME BeginInv,
           UNCHANGED <<net, issued, sequence, stored, request, answer, last_sequence,
                       status, demands>>
    PROVE  BeginInv'
BY DEF BeginInv, AgentFacts, NetFacts, RowFacts

\* The steps of the API that open no row: rows stay what they were or end,
\* sequences go up, and a new demand names a row.
LEMMA RowsOnlyEnd ==
    ASSUME RowFacts, UNCHANGED <<net, issued>>,
           last_sequence' \in [Agents -> Nat],
           \A a \in Agents : last_sequence[a] <= last_sequence'[a],
           status' \in [Snapshots -> Statuses],
           \A s \in Snapshots : status'[s] = "absent" <=> status[s] = "absent",
           \A d \in demands' \ demands :
              d.discard \in Snapshots => status[d.discard] # "absent",
           NetFacts
    PROVE  RowFacts'
<1>1. \A m \in net : m.type = "begin" /\ status'[m.snap] # "absent" =>
         m.seq <= last_sequence'[m.agent]
  <2> SUFFICES ASSUME NEW m \in net, m.type = "begin", status'[m.snap] # "absent"
               PROVE  m.seq <= last_sequence'[m.agent]
    OBVIOUS
  <2>1. m.snap \in Snapshots /\ m.agent \in Agents /\ m.seq \in Nat
    BY DEF NetFacts
  <2>2. m.seq <= last_sequence[m.agent]
    BY <2>1 DEF RowFacts
  <2>3. last_sequence[m.agent] \in Nat /\ last_sequence'[m.agent] \in Nat
    BY <2>1 DEF RowFacts
  <2> QED
    BY <2>1, <2>2, <2>3
<1>2. \A d \in demands' : d.discard \in Snapshots => status'[d.discard] # "absent"
  BY DEF RowFacts
<1>3. \A s \in Snapshots : status'[s] # "absent" => s <= issued'
  BY DEF RowFacts
<1> QED
  BY <1>1, <1>2, <1>3 DEF RowFacts

\* A message the API handles.
LEMMA HandledRows ==
    ASSUME AgentFacts, NetFacts, RowFacts, NEW m \in net, Handle(m), UNCHANGED <<net, issued>>
    PROVE  RowFacts'
<1> DEFINE a == m.agent  s == m.snap  q == m.seq
<1>0. a \in Agents /\ q \in Nat
      /\ m.type \in {"begin", "page", "complete", "events"}
  BY DEF NetFacts
<1>1. last_sequence \in [Agents -> Nat] /\ status \in [Snapshots -> Statuses]
  BY DEF RowFacts
<1>2. CASE UNCHANGED <<last_sequence, status, demands>>
  BY <1>2 DEF RowFacts
<1>3. ASSUME NEW d, Refuse(a, d), d \in Snapshots => status[d] # "absent"
      PROVE  RowFacts'
  <2>1. /\ UNCHANGED <<last_sequence, status>>
        /\ demands' = demands \cup {[agent |-> a, discard |-> d]}
    BY <1>3 DEF Refuse, snapshotVars, agentVars
  <2> QED
    BY <1>3, <2>1 DEF RowFacts
<1>4. ASSUME AdvanceSequence(a, q), SequenceGate(a, q) = "apply", UNCHANGED demands,
             status' \in [Snapshots -> Statuses],
             \A t \in Snapshots : status'[t] = "absent" <=> status[t] = "absent"
      PROVE  RowFacts'
  <2>1. q = last_sequence[a] + 1
    BY <1>0, <1>1, <1>4 DEF SequenceGate
  <2>2. /\ last_sequence' \in [Agents -> Nat]
        /\ \A b \in Agents : last_sequence[b] <= last_sequence'[b]
    BY <1>0, <1>1, <1>4, <2>1 DEF AdvanceSequence
  <2> HIDE DEF a, q
  <2> QED
    BY <1>4, <2>2, RowsOnlyEnd
<1>5. CASE m.type = "begin"
  <2>1. SnapshotBegin(a, s, q) /\ s \in Snapshots
    BY <1>5 DEF Handle, NetFacts
  <2>2. CASE NoEffect
    BY <1>2, <2>2 DEF NoEffect, ingestVars, snapshotVars, agentVars
  <2>3. CASE OpenSnapshot(a, s, q) /\ BeginResult(a, s, q) = "accepted"
    <3>1. /\ status[s] \notin {"pending", "complete", "discarded", "pruned"}
          /\ ~(q <= last_sequence[a])
      BY <2>3 DEF BeginResult
    <3>2. /\ last_sequence' = [last_sequence EXCEPT ![a] = q]
          /\ status' = Supersede(s)
          /\ UNCHANGED demands
      BY <2>3 DEF OpenSnapshot, AdvanceSequence
    <3>3. /\ last_sequence' \in [Agents -> Nat]
          /\ \A b \in Agents : last_sequence[b] <= last_sequence'[b]
      BY <1>0, <1>1, <3>1, <3>2
    <3>4. /\ status' \in [Snapshots -> Statuses]
          /\ \A t \in Snapshots : t # s => (status'[t] = "absent" <=> status[t] = "absent")
          /\ status'[s] = "pending"
      BY <1>1, <2>1, <3>2 DEF Supersede, Statuses
    <3>5. \A n \in net : n.type = "begin" /\ status'[n.snap] # "absent" =>
             n.seq <= last_sequence'[n.agent]
      <4> SUFFICES ASSUME NEW n \in net, n.type = "begin", status'[n.snap] # "absent"
                   PROVE  n.seq <= last_sequence'[n.agent]
        OBVIOUS
      <4>1. n.snap \in Snapshots /\ n.agent \in Agents /\ n.seq \in Nat
        BY DEF NetFacts
      <4>2. CASE n.snap = s
        <5>1. n = m
          BY <1>5, <4>2 DEF NetFacts
        <5> QED
          BY <1>0, <1>1, <3>2, <5>1
      <4>3. CASE n.snap # s
        <5>1. n.seq <= last_sequence[n.agent]
          BY <3>4, <4>1, <4>3 DEF RowFacts
        <5>2. last_sequence[n.agent] \in Nat /\ last_sequence'[n.agent] \in Nat
          BY <1>1, <3>3, <4>1
        <5> QED
          BY <3>3, <4>1, <5>1, <5>2
      <4> QED
        BY <4>2, <4>3
    <3>6. \A d \in demands' : d.discard \in Snapshots => status'[d.discard] # "absent"
      BY <3>2, <3>4 DEF RowFacts
    <3>7. s <= issued
      BY <1>5 DEF NetFacts
    <3> QED
      BY <3>3, <3>4, <3>5, <3>6, <3>7 DEF RowFacts
  <2> QED
    BY <2>1, <2>2, <2>3 DEF SnapshotBegin
<1>6. CASE m.type = "page"
  <2>1. SnapshotPage(a, s, m.number, m.content, q)
    BY <1>6 DEF Handle
  <2>2. CASE NoEffect
    BY <1>2, <2>2 DEF NoEffect, ingestVars, snapshotVars, agentVars
  <2>3. CASE Refuse(a, None)
    BY <1>3, <2>3, IngestAssumption
  <2>4. CASE Refuse(a, s) /\ PageResult(a, s, m.number, m.content, q) = "torn"
    <3>1. status[s] # "absent"
      BY <2>4 DEF PageResult
    <3> QED
      BY <1>3, <2>4, <3>1
  <2>5. CASE KeepSequence(a, q) /\ PageResult(a, s, m.number, m.content, q) = "repeated"
    <3>1. SequenceGate(a, q) = "apply"
      BY <2>5 DEF PageResult, SequenceGate
    <3> QED
      BY <1>1, <1>4, <2>5, <3>1 DEF KeepSequence, snapshotVars
  <2>6. CASE /\ StorePage(a, s, m.number, m.content, q)
             /\ PageResult(a, s, m.number, m.content, q) = "accepted"
    <3>1. SequenceGate(a, q) = "apply"
      BY <2>6 DEF PageResult, SequenceGate
    <3> QED
      BY <1>1, <1>4, <2>6, <3>1 DEF StorePage
  <2> QED
    BY <2>1, <2>2, <2>3, <2>4, <2>5, <2>6 DEF SnapshotPage
<1>7. CASE m.type = "complete"
  <2>1. SnapshotComplete(a, s, m.totalPages, m.totalResources, q)
    BY <1>7 DEF Handle
  <2>2. CASE NoEffect
    BY <1>2, <2>2 DEF NoEffect, ingestVars, snapshotVars, agentVars
  <2>3. CASE Refuse(a, None)
    BY <1>3, <2>3, IngestAssumption
  <2>4. CASE /\ Refuse(a, s)
             /\ CompleteResult(a, s, m.totalPages, m.totalResources, q) = "torn"
    <3>1. status[s] # "absent"
      BY <2>4 DEF CompleteResult, SequenceGate
    <3> QED
      BY <1>3, <2>4, <3>1
  <2>5. CASE /\ ApplySnapshot(a, s, q)
             /\ CompleteResult(a, s, m.totalPages, m.totalResources, q) = "applied"
    <3>1. SequenceGate(a, q) = "apply" /\ status[s] = "pending"
      BY <2>5 DEF CompleteResult, SequenceGate
    <3>2. /\ status' = [status EXCEPT ![s] = "complete"]
          /\ AdvanceSequence(a, q) /\ UNCHANGED demands
      BY <2>5 DEF ApplySnapshot
    <3>3. /\ status' \in [Snapshots -> Statuses]
          /\ \A t \in Snapshots : status'[t] = "absent" <=> status[t] = "absent"
      BY <1>1, <3>1, <3>2 DEF Statuses
    <3> QED
      BY <1>4, <3>1, <3>2, <3>3
  <2> QED
    BY <2>1, <2>2, <2>3, <2>4, <2>5 DEF SnapshotComplete
<1>8. CASE m.type = "events"
  <2>1. WatchEvents(a, m.events, q)
    BY <1>8 DEF Handle
  <2>2. CASE NoEffect
    BY <1>2, <2>2 DEF NoEffect, ingestVars, snapshotVars, agentVars
  <2>3. CASE Refuse(a, None)
    BY <1>3, <2>3, IngestAssumption
  <2>4. CASE ApplyEvents(a, m.events, q) /\ EventsResult(a, q) = "applied"
    <3>1. SequenceGate(a, q) = "apply"
      BY <2>4 DEF EventsResult, SequenceGate
    <3> QED
      BY <1>1, <1>4, <2>4, <3>1 DEF ApplyEvents, snapshotVars
  <2> QED
    BY <2>1, <2>2, <2>3, <2>4 DEF WatchEvents
<1> QED
  BY <1>0, <1>5, <1>6, <1>7, <1>8

\* Maintenance and a committed demand end rows, and open none.
LEMMA UpkeepRows ==
    ASSUME NetFacts, RowFacts, UNCHANGED <<net, issued>>,
           Maintenance \/ \E d \in demands : DemandReconcile(d)
    PROVE  RowFacts'
<1>1. status \in [Snapshots -> Statuses] /\ last_sequence \in [Agents -> Nat]
  BY DEF RowFacts
<1>2. \A a \in Agents : last_sequence[a] <= last_sequence[a]
  BY <1>1
<1>3. CASE Maintenance
  <2>1. UNCHANGED <<last_sequence, demands>>
    BY <1>3 DEF Maintenance, DiscardExpiredPending, CapPending, DrainDeadStaging,
                PruneHistory, BoundChangeEvents, agentVars
  <2>2. /\ status' \in [Snapshots -> Statuses]
        /\ \A s \in Snapshots : status'[s] = "absent" <=> status[s] = "absent"
    <3>1. CASE DiscardExpiredPending
      BY <1>1, <3>1 DEF DiscardExpiredPending, Statuses
    <3>2. CASE CapPending
      BY <1>1, <3>2 DEF CapPending, Older, Statuses
    <3>3. CASE DrainDeadStaging
      BY <1>1, <3>3 DEF DrainDeadStaging
    <3>4. CASE PruneHistory
      <4> DEFINE old == Older(Prunable, HistoryLimit)
      <4>1. \A s \in old : status[s] \in {"complete", "discarded"}
        BY DEF Older, Prunable
      <4>2. status' = [s \in Snapshots |-> IF s \in old THEN "pruned" ELSE status[s]]
        BY <3>4 DEF PruneHistory
      <4> HIDE DEF old
      <4> QED
        BY <1>1, <4>1, <4>2 DEF Statuses
    <3>5. CASE BoundChangeEvents
      BY <1>1, <3>5 DEF BoundChangeEvents, snapshotVars
    <3> QED
      BY <1>3, <3>1, <3>2, <3>3, <3>4, <3>5 DEF Maintenance
  <2> QED
    BY <1>1, <1>2, <2>1, <2>2, RowsOnlyEnd
<1>4. ASSUME NEW d \in demands, DemandReconcile(d) PROVE RowFacts'
  <2>1. /\ UNCHANGED last_sequence /\ demands' \subseteq demands
        /\ status' = [s \in Snapshots |-> IF s = d.discard /\ status[s] # "pruned"
                                          THEN "discarded" ELSE status[s]]
    BY <1>4 DEF DemandReconcile
  <2>2. d.discard \in Snapshots => status[d.discard] # "absent"
    BY DEF RowFacts
  <2>3. /\ status' \in [Snapshots -> Statuses]
        /\ \A s \in Snapshots : status'[s] = "absent" <=> status[s] = "absent"
    BY <1>1, <2>1, <2>2 DEF Statuses
  <2> QED
    BY <1>1, <1>2, <2>1, <2>3, RowsOnlyEnd
<1> QED
  BY <1>3, <1>4

\* What happens to the agents, the network and the API keeps the facts.
LEMMA BeginNext == BeginInv /\ [SyncNext]_syncVars => BeginInv'
<1> SUFFICES ASSUME BeginInv, [SyncNext]_syncVars PROVE BeginInv'
  OBVIOUS
<1>0. /\ AgentFacts /\ NetFacts /\ RowFacts
      /\ sequence \in [Agents -> Nat] /\ stored \in [Agents -> Nat]
  BY DEF BeginInv, AgentFacts
<1>1. CASE UNCHANGED <<ingestVars, net, issued, sequence, stored, request, answer>>
  BY <1>1, BeginFrame DEF ingestVars, snapshotVars, agentVars
<1>2. ASSUME NEW u, NEW deleted, ClusterChange(u, deleted) PROVE BeginInv'
  BY <1>1, <1>2 DEF ClusterChange, agentSide
<1>3. ASSUME NEW a \in Agents, Takeover(a) PROVE BeginInv'
  BY <1>3, BeginFrame DEF Takeover, Enroll, Other, agentSide, snapshotVars
<1>4. ASSUME NEW a \in Agents, StartCycle(a) PROVE BeginInv'
  <2> DEFINE m == [type |-> "begin", snap |-> issued + 1]
  <2>1. /\ Post(a, m) /\ UNCHANGED <<ingestVars, stored>>
        /\ issued' = issued + 1 /\ issued + 1 \in Snapshots
    BY <1>4 DEF StartCycle
  <2>2. /\ "agent" \notin DOMAIN m /\ "seq" \notin DOMAIN m
        /\ "type" \in DOMAIN m /\ "snap" \in DOMAIN m
        /\ m.type = "begin" /\ m.snap = issued + 1
    OBVIOUS
  <2> HIDE DEF m
  <2> QED
    BY <2>1, <2>2, PostKeeps
<1>5. ASSUME NEW a \in Agents, ListKind(a) PROVE BeginInv'
  BY <1>1, <1>5 DEF ListKind
<1>6. ASSUME NEW a \in Agents, PostPage(a) PROVE BeginInv'
  <2>1. PICK n : /\ Post(a, [type |-> "page", snap |-> session[a].snap,
                             number |-> session[a].pages + 1,
                             content |-> SubSeq(session[a].buffer, 1, n)])
                 /\ UNCHANGED <<ingestVars, issued, stored>>
    BY <1>6 DEF PostPage
  <2> DEFINE m == [type |-> "page", snap |-> session[a].snap,
                   number |-> session[a].pages + 1,
                   content |-> SubSeq(session[a].buffer, 1, n)]
  <2>2. /\ "agent" \notin DOMAIN m /\ "seq" \notin DOMAIN m
        /\ "type" \in DOMAIN m /\ m.type = "page"
    OBVIOUS
  <2>3. Post(a, m)
    BY <2>1
  <2> HIDE DEF m
  <2> QED
    BY <2>1, <2>2, <2>3, PostKeeps
<1>7. ASSUME NEW a \in Agents, PostComplete(a) PROVE BeginInv'
  <2> DEFINE m == [type |-> "complete", snap |-> session[a].snap,
                   totalPages |-> session[a].pages,
                   totalResources |-> session[a].total]
  <2>1. Post(a, m) /\ UNCHANGED <<ingestVars, issued, stored>>
    BY <1>7 DEF PostComplete
  <2>2. /\ "agent" \notin DOMAIN m /\ "seq" \notin DOMAIN m
        /\ "type" \in DOMAIN m /\ m.type = "complete"
    OBVIOUS
  <2> HIDE DEF m
  <2> QED
    BY <2>1, <2>2, PostKeeps
<1>8. ASSUME NEW a \in Agents, NEW k, ReceiveChange(a, k) PROVE BeginInv'
  BY <1>1, <1>8 DEF ReceiveChange
<1>9. ASSUME NEW a \in Agents, EndCycle(a) PROVE BeginInv'
  BY <1>0, <1>9, StopKeeps DEF EndCycle
<1>10. ASSUME NEW a \in Agents, PostEvents(a) PROVE BeginInv'
  <2>1. PICK n : /\ Post(a, [type |-> "events",
                             events |-> SubSeq(session[a].queue, 1, n)])
                 /\ UNCHANGED <<ingestVars, issued, stored>>
    BY <1>10 DEF PostEvents
  <2> DEFINE m == [type |-> "events", events |-> SubSeq(session[a].queue, 1, n)]
  <2>2. /\ "agent" \notin DOMAIN m /\ "seq" \notin DOMAIN m
        /\ "type" \in DOMAIN m /\ m.type = "events"
    OBVIOUS
  <2>3. Post(a, m)
    BY <2>1
  <2> HIDE DEF m
  <2> QED
    BY <2>1, <2>2, <2>3, PostKeeps
<1>11. ASSUME NEW a \in Agents, Acked(a) \/ AckedNotStored(a) PROVE BeginInv'
  <2>1. request[a] \in net
    BY <1>0, <1>11 DEF Acked, AckedNotStored, Proceed, AgentFacts
  <2>2. request[a].seq \in Nat
    BY <1>0, <2>1 DEF NetFacts
  <2>3. stored' \in [Agents -> Nat]
    BY <1>0, <1>11, <2>2 DEF Acked, AckedNotStored
  <2>4. /\ UNCHANGED <<ingestVars, net, issued, sequence>>
        /\ request' = [request EXCEPT ![a] = None]
        /\ answer' = [answer EXCEPT ![a] = "none"]
    BY <1>11 DEF Acked, AckedNotStored, Proceed
  <2> QED
    BY <1>0, <2>3, <2>4, StopKeeps
<1>12. ASSUME NEW m \in net, Handle(m), UNCHANGED <<net, issued, sequence, stored>>,
              AgentFacts'
       PROVE  BeginInv'
  <2>1. RowFacts'
    BY <1>0, <1>12, HandledRows
  <2>2. NetFacts'
    BY <1>0, <1>12 DEF NetFacts
  <2> QED
    BY <1>12, <2>1, <2>2 DEF BeginInv
<1>13. ASSUME NEW a \in Agents, Deliver(a) PROVE BeginInv'
  <2>1. request[a] \in net
    BY <1>0, <1>13 DEF Deliver, AgentFacts
  <2>2. AgentFacts'
    BY <1>0, <1>13 DEF Deliver, AgentFacts
  <2> QED
    BY <1>12, <1>13, <2>1, <2>2 DEF Deliver
<1>14. ASSUME NEW m \in net, DeliverLate(m) PROVE BeginInv'
  <2>1. AgentFacts'
    BY <1>0, <1>14 DEF DeliverLate, AgentFacts, agentSide
  <2> QED
    BY <1>12, <1>14, <2>1 DEF DeliverLate, agentSide
<1>15. CASE /\ Maintenance \/ \E d \in demands : DemandReconcile(d)
            /\ Other
  <2>1. UNCHANGED <<net, issued, sequence, stored, request, answer>>
    BY <1>15 DEF Other, agentSide
  <2>2. RowFacts'
    BY <1>0, <1>15, <2>1, UpkeepRows
  <2>3. AgentFacts' /\ NetFacts'
    BY <1>0, <2>1 DEF AgentFacts, NetFacts
  <2> QED
    BY <2>2, <2>3 DEF BeginInv
<1>16. ASSUME NEW a \in Agents, LoseAnswer(a) PROVE BeginInv'
  <2>1. AgentFacts'
    BY <1>0, <1>16 DEF LoseAnswer, AgentFacts
  <2> QED
    BY <1>0, <1>16, <2>1 DEF LoseAnswer, BeginInv, NetFacts, RowFacts, ingestVars,
                             snapshotVars, agentVars
<1>17. ASSUME NEW a \in Agents, Restart(a) PROVE BeginInv'
  <2>1. sequence' \in [Agents -> Nat]
    BY <1>0, <1>17 DEF Restart
  <2> QED
    BY <1>0, <1>17, <2>1, StopKeeps DEF Restart
<1>18. ASSUME NEW s \in Snapshots, Expire(s) PROVE BeginInv'
  BY <1>18, BeginFrame DEF Expire, PassTtl, agentSide, agentVars
<1>19. ASSUME NEW d \in demands, DropDemand(d) PROVE BeginInv'
  BY <1>0, <1>19 DEF DropDemand, LoseDemand, agentSide, BeginInv, AgentFacts, NetFacts,
                     RowFacts, snapshotVars, agentVars
<1>20. CASE UNCHANGED syncVars
  BY <1>1, <1>20 DEF syncVars, agentSide
<1>21. ASSUME NEW a \in Agents, AgentStep(a) PROVE BeginInv'
  BY <1>4, <1>5, <1>6, <1>7, <1>8, <1>9, <1>10, <1>11, <1>21
     DEF AgentStep, Overflow, Rejected
<1>22. CASE Faulty
  BY <1>9, <1>11, <1>14, <1>16, <1>17, <1>18, <1>19, <1>22 DEF Faulty, FailCycle
<1> QED
  BY <1>2, <1>3, <1>13, <1>15, <1>20, <1>21, <1>22 DEF SyncNext, ServerStep, Upkeep

\* A begin whose snapshot was pruned is a retransmission, whatever the
\* agents, the network and maintenance do: snapshot_begin never opens a row
\* under a uid that had one.
THEOREM PrunedUidsStayUnused == SyncSpec => []NoReusedUid
<1>1. SyncInit => BeginInv
  <2> SUFFICES ASSUME SyncInit PROVE BeginInv
    OBVIOUS
  <2>1. AgentFacts
    BY DEF SyncInit, AgentFacts
  <2>2. NetFacts /\ RowFacts
    BY DEF SyncInit, IngestInit, NetFacts, RowFacts, Statuses
  <2> QED
    BY <2>1, <2>2 DEF BeginInv
<1>2. BeginInv => NoReusedUid
  <2> SUFFICES ASSUME BeginInv, NEW m \in net, m.type = "begin",
                      BeginResult(m.agent, m.snap, m.seq) = "unused"
               PROVE  FALSE
    BY DEF NoReusedUid
  <2>1. status[m.snap] = "pruned" /\ ~(m.seq <= last_sequence[m.agent])
    BY DEF BeginResult
  <2> QED
    BY <2>1 DEF BeginInv, RowFacts
<1> QED
  BY <1>1, <1>2, BeginNext, PTL DEF SyncSpec

----------------------------------------------------------------------------
(* The kinds of steps.                                                     *)

\* A cycle ends, and perhaps the process with it.
Stops(a) ==
    /\ session' = [session EXCEPT ![a] = Idle]
    /\ request' = [request EXCEPT ![a] = None]
    /\ answer' = [answer EXCEPT ![a] = "none"]
    /\ sequence' = sequence \/ sequence' = [sequence EXCEPT ![a] = stored[a]]
    /\ UNCHANGED <<ingestVars, log, net, issued, stored>>

\* A 2xx answer is taken, and perhaps its number stored.
Proceeds(a) ==
    /\ Proceed(a)
    /\ stored' = stored \/ stored' = [stored EXCEPT ![a] = request[a].seq]

\* A message is handled, perhaps for the agent that waits for its answer.
Delivers(m) ==
    /\ Handle(m)
    /\ UNCHANGED <<log, net, issued, sequence, stored, session, request>>
    /\ \/ answer' = answer
       \/ \E a \in Agents :
             /\ request[a] = m
             /\ answer' = [answer EXCEPT ![a] = IF Accepts(m) THEN "ok" ELSE "failed"]

\* The API does something by itself, or nothing happens.
Rests ==
    /\ UNCHANGED <<log, net, issued, agentSide>>
    /\ \/ Maintenance
       \/ \E d \in demands : DemandReconcile(d) \/ LoseDemand(d)
       \/ \E s \in Snapshots : PassTtl(s)
       \/ UNCHANGED ingestVars

\* Every step is of one of these kinds.
LEMMA StepKinds ==
    ASSUME AgentFacts, [SyncNext]_syncVars
    PROVE  \/ \E u \in Uids, deleted \in BOOLEAN : ClusterChange(u, deleted)
           \/ \E a \in Agents :
                 \/ Takeover(a)
                 \/ StartCycle(a) \/ ListKind(a) \/ PostPage(a) \/ PostComplete(a)
                 \/ \E k \in Range(Kinds) : ReceiveChange(a, k)
                 \/ PostEvents(a) \/ Proceeds(a) \/ Stops(a) \/ LoseAnswer(a)
           \/ \E m \in net : Delivers(m)
           \/ Rests
<1>1. ASSUME NEW a \in Agents, AgentStep(a)
      PROVE  \/ StartCycle(a) \/ ListKind(a) \/ PostPage(a) \/ PostComplete(a)
             \/ \E k \in Range(Kinds) : ReceiveChange(a, k)
             \/ PostEvents(a) \/ Proceeds(a) \/ Stops(a)
  BY <1>1 DEF AgentStep, Overflow, Rejected, EndCycle, Stops, Acked, Proceeds
<1>2. ASSUME NEW a \in Agents, Deliver(a)
      PROVE  \E m \in net : Delivers(m)
  <2>1. request[a] \in net
    BY <1>2 DEF Deliver, AgentFacts
  <2>2. Delivers(request[a])
    BY <1>2 DEF Deliver, Delivers
  <2> QED
    BY <2>1, <2>2
<1>3. ASSUME NEW m \in net, DeliverLate(m) PROVE Delivers(m)
  BY <1>3 DEF DeliverLate, Delivers, agentSide
<1>4. CASE Faulty
  <2>1. ASSUME NEW a \in Agents, FailCycle(a) \/ Restart(a) PROVE Stops(a)
    BY <2>1 DEF FailCycle, EndCycle, Restart, Stops
  <2>2. ASSUME NEW a \in Agents, AckedNotStored(a) PROVE Proceeds(a)
    BY <2>2 DEF AckedNotStored, Proceeds
  <2>3. ASSUME NEW s \in Snapshots, Expire(s) PROVE Rests
    BY <2>3 DEF Expire, Rests, agentSide
  <2>4. ASSUME NEW d \in demands, DropDemand(d) PROVE Rests
    BY <2>4 DEF DropDemand, Rests, agentSide
  <2> QED
    BY <1>3, <1>4, <2>1, <2>2, <2>3, <2>4 DEF Faulty
<1>5. CASE ServerStep \/ Upkeep
  <2>1. ASSUME NEW d \in demands, DemandReconcile(d), Other PROVE Rests
    BY <2>1 DEF Other, Rests
  <2>2. ASSUME Maintenance, Other PROVE Rests
    BY <2>2 DEF Other, Rests
  <2> QED
    BY <1>2, <1>5, <2>1, <2>2 DEF ServerStep, Upkeep
<1>6. CASE UNCHANGED syncVars
  BY <1>6 DEF syncVars, Rests
<1> QED
  BY <1>1, <1>4, <1>5, <1>6 DEF SyncNext

----------------------------------------------------------------------------
(* Sessions, requests and messages.                                        *)

\* The rows of a list, in some order.
ListRows(k) ==
    {[uid |-> u, rv |-> VersionAt(u, Now)] :
        u \in {x \in Uids : KindOf[x] = k /\ VersionAt(x, Now) # 0}}

\* A list is finite: every row of it is a change of the cluster of its own.
LEMMA ListIsFinite ==
    ASSUME LogInv, NEW k
    PROVE  IsFiniteSet(ListRows(k))
<1> DEFINE S == ListRows(k)
           at == [r \in S |-> r.rv]
<1>0. Now \in Nat
  BY DEF LogInv, Now
<1>1. ASSUME NEW r \in S
      PROVE  r.rv \in 1..Now /\ r = [uid |-> log[r.rv].uid, rv |-> r.rv]
  <2>1. PICK u \in Uids : r = [uid |-> u, rv |-> VersionAt(u, Now)] /\ VersionAt(u, Now) # 0
    BY DEF ListRows
  <2> QED
    BY <1>0, <2>1, VersionIsChange
<1> HIDE DEF S
<1>2. at \in Injection(S, 1..Now)
  <2>1. \A x \in S, y \in S : at[x] = at[y] => x = y
    BY <1>1
  <2>2. at \in [S -> 1..Now]
    BY <1>1
  <2>3. IsInjective(at)
    BY <2>1 DEF IsInjective
  <2> HIDE DEF at
  <2> QED
    BY <2>2, <2>3 DEF Injection
<1>3. IsFiniteSet(1..Now)
  BY <1>0, FS_Interval
<1>4. IsFiniteSet(S)
  <2> HIDE DEF at
  <2> QED
    BY <1>2, <1>3, FS_Injection
<1> QED
  BY <1>4 DEF S

\* The elements of a finite set, one after the other.
LEMMA SetInOrder ==
    ASSUME NEW S, IsFiniteSet(S)
    PROVE  /\ SetToSeq(S) \in Seq(S)
           /\ \A x \in S : \E i \in DOMAIN SetToSeq(S) : SetToSeq(S)[i] = x
<1> DEFINE n == Cardinality(S)
           f == SetToSeq(S)
<1>1. n \in Nat /\ ExistsBijection(1..n, S)
  BY FS_CardinalityType
<1>2. \E g \in [1..n -> S] : IsInjective(g)
  BY <1>1 DEF ExistsBijection, Bijection, Injection
<1>3. f \in [1..n -> S] /\ IsInjective(f)
  BY <1>2 DEF SetToSeq
<1>4. IsFiniteSet(1..n) /\ Cardinality(1..n) = n
  <2>1. 1 \in Int /\ n \in Int
    BY <1>1
  <2>2. /\ IsFiniteSet(1..n)
        /\ Cardinality(1..n) = IF 1 > n THEN 0 ELSE n - 1 + 1
    BY <2>1, FS_Interval
  <2> HIDE DEF n
  <2> QED
    BY <1>1, <2>2
<1>5. f \in Injection(1..n, S)
  BY <1>3 DEF Injection
<1>6. f \in Surjection(1..n, S)
  <2> HIDE DEF f
  <2>1. Cardinality(1..n) = Cardinality(S)
    BY <1>4
  <2> QED
    BY <1>5, <2>1, FS_Injection
<1> HIDE DEF f, n
<1>7. f \in Seq(S) /\ DOMAIN f = 1..n
  BY <1>1, <1>3
<1>8. \A x \in S : \E i \in DOMAIN f : f[i] = x
  BY <1>6, <1>7 DEF Surjection
<1> QED
  BY <1>7, <1>8 DEF f

\* So a list arrives as a sequence of rows: each of them the present version
\* of a resource of its kind, and every such resource among them.
LEMMA ListArrives ==
    ASSUME LogInv, NEW k
    PROVE  LET rows == SetToSeq(ListRows(k)) IN
           /\ rows \in Seq(Resource)
           /\ \A i \in DOMAIN rows :
                 KindOf[rows[i].uid] = k /\ rows[i].rv = VersionAt(rows[i].uid, Now)
           /\ \A u \in Uids : KindOf[u] = k /\ VersionAt(u, Now) # 0 =>
                 \E i \in DOMAIN rows : rows[i].uid = u
<1> DEFINE rows == SetToSeq(ListRows(k))
<1>1. IsFiniteSet(ListRows(k))
  BY ListIsFinite
<1>2. /\ rows \in Seq(ListRows(k))
      /\ \A x \in ListRows(k) : \E i \in DOMAIN rows : rows[i] = x
  BY <1>1, SetInOrder
<1>3. ASSUME NEW r \in ListRows(k)
      PROVE  /\ r \in Resource
             /\ KindOf[r.uid] = k /\ r.rv = VersionAt(r.uid, Now)
  <2>1. PICK u \in Uids :
            /\ r = [uid |-> u, rv |-> VersionAt(u, Now)]
            /\ KindOf[u] = k /\ VersionAt(u, Now) # 0
    BY DEF ListRows
  <2>2. VersionAt(u, Now) \in Nat
    <3>1. Now \in Nat
      BY DEF LogInv, Now
    <3> QED
      BY <3>1, VersionBound
  <2> QED
    BY <2>1, <2>2 DEF Resource
<1> HIDE DEF rows
<1>4. rows \in Seq(Resource)
  BY <1>2, <1>3
<1>5. \A i \in DOMAIN rows : rows[i] \in ListRows(k)
  BY <1>2
<1>6. ASSUME NEW u \in Uids, KindOf[u] = k, VersionAt(u, Now) # 0
      PROVE  \E i \in DOMAIN rows : rows[i].uid = u
  <2>1. [uid |-> u, rv |-> VersionAt(u, Now)] \in ListRows(k)
    BY <1>6 DEF ListRows
  <2> QED
    BY <1>2, <2>1
<1> QED
  BY <1>3, <1>4, <1>5, <1>6 DEF rows

----------------------------------------------------------------------------
(* What a step does to the agent that takes it.                            *)

\* The agent a asks m.
Asks(a, m) ==
    /\ request[a] = None
    /\ m.agent = a /\ m.seq = sequence[a] + 1
    /\ net' = net \cup {m}
    /\ request' = [request EXCEPT ![a] = m]
    /\ sequence' = [sequence EXCEPT ![a] = sequence[a] + 1]
    /\ answer' = [answer EXCEPT ![a] = "none"]
    /\ UNCHANGED <<ingestVars, log, faults, stored>>

\* What the session holds is a record of its phase.
LEMMA SessionFields ==
    ASSUME SessionFacts, NEW a \in Agents
    PROVE  /\ session[a].phase \in {"idle", "snapshot", "completing", "watch"}
           /\ session[a].phase = "idle" => session[a] = Idle
           /\ Collects(a) => session[a] \in Collecting
           /\ Watches(a) => session[a] \in Watching
<1>1. session[a] \in {Idle} \cup Collecting \cup Watching
  BY DEF SessionFacts
<1>2. Idle.phase = "idle"
  BY DEF Idle
<1>3. \A x \in Collecting : x.phase \in {"snapshot", "completing"}
  BY DEF Collecting
<1>4. \A x \in Watching : x.phase = "watch"
  BY DEF Watching
<1> QED
  BY <1>1, <1>2, <1>3, <1>4 DEF Collects, Watches

\* A request has the fields of its type.
LEMMA RequestShape ==
    ASSUME NEW m \in Requests
    PROVE  /\ m.type \in {"begin", "page", "complete", "events"}
           /\ m.agent \in Agents /\ m.seq \in Nat
           /\ m.type # "events" => m.snap \in Snapshots
           /\ m.type = "page" => m.number \in Nat \ {0} /\ m.content \in Seq(Resource)
           /\ m.type = "complete" => m.totalPages \in Nat /\ m.totalResources \in Nat
           /\ m.type = "events" => m.events \in Seq(Event)
BY DEF Requests

\* A posted body is asked with its agent and its number.
LEMMA PostAsks ==
    ASSUME NEW a, NEW m, Post(a, m), UNCHANGED <<ingestVars, log, faults, stored>>,
           "agent" \notin DOMAIN m, "seq" \notin DOMAIN m
    PROVE  Asks(a, Numbered(a, m)) /\ \A f \in DOMAIN m : Numbered(a, m)[f] = m[f]
BY RequestFields DEF Asks, Post

\* A cycle starts with its begin and an empty session of a new snapshot.
LEMMA StartEffect ==
    ASSUME AgentFacts, NEW a \in Agents, StartCycle(a)
    PROVE  \E r \in Requests :
             /\ Asks(a, r) /\ r.type = "begin" /\ r.snap = issued + 1
             /\ issued + 1 \in Snapshots /\ issued' = issued + 1
             /\ session[a].phase = "idle" /\ inventory_state[a] # "unenrolled"
             /\ session' = [session EXCEPT ![a] =
                              [phase |-> "snapshot", snap |-> issued + 1, listed |-> 0,
                               buffer |-> <<>>, pages |-> 0, total |-> 0,
                               versions |-> [k \in Range(Kinds) |-> 0]]]
<1> DEFINE m == [type |-> "begin", snap |-> issued + 1]
           r == Numbered(a, m)
<1>1. Post(a, m) /\ UNCHANGED <<ingestVars, log, faults, stored>> /\ issued + 1 \in Snapshots
  BY DEF StartCycle
<1>2. "agent" \notin DOMAIN m /\ "seq" \notin DOMAIN m
  OBVIOUS
<1>3. m.type = "begin" /\ m.snap = issued + 1 /\ {"type", "snap"} \subseteq DOMAIN m
  OBVIOUS
<1>4. r \in Requests
  <2>1. sequence[a] + 1 \in Nat
    BY DEF AgentFacts
  <2>2. r \in [type : {"begin"}, agent : Agents, seq : Nat, snap : Snapshots]
    BY <1>1, <2>1 DEF Numbered
  <2> QED
    BY <2>2 DEF Requests
<1> HIDE DEF m
<1>5. Asks(a, r) /\ \A f \in DOMAIN m : r[f] = m[f]
  BY <1>1, <1>2, PostAsks
<1>6. r.type = "begin" /\ r.snap = issued + 1
  BY <1>3, <1>5
<1> HIDE DEF r
<1> QED
  BY <1>4, <1>5, <1>6 DEF StartCycle

\* The fields of a session, one by one, when some of them change.
LEMMA CollectingFields ==
    ASSUME NEW x \in Collecting
    PROVE  /\ x = [phase |-> x.phase, snap |-> x.snap, listed |-> x.listed,
                   buffer |-> x.buffer, pages |-> x.pages, total |-> x.total,
                   versions |-> x.versions]
           /\ x.phase \in {"snapshot", "completing"} /\ x.snap \in Snapshots
           /\ x.listed \in 0..Len(Kinds) /\ x.buffer \in Seq(Resource)
           /\ x.pages \in Nat /\ x.total \in Nat /\ x.versions \in [Range(Kinds) -> Nat]
BY DEF Collecting

\* The fields of a session that watches.
LEMMA WatchingFields ==
    ASSUME NEW x \in Watching
    PROVE  /\ x = [phase |-> "watch", queue |-> x.queue, versions |-> x.versions]
           /\ x.phase = "watch" /\ x.queue \in Seq(Event)
           /\ x.versions \in [Range(Kinds) -> Nat]
BY DEF Watching

\* A list adds its rows to the buffer and its version to the cut.
LEMMA ListEffect ==
    ASSUME SessionFacts, NEW a \in Agents, ListKind(a)
    PROVE  LET x == session[a]  k == Kinds[x.listed + 1] IN
           /\ x.phase = "snapshot" /\ request[a] = None
           /\ x.listed < Len(Kinds)
           /\ session' = [session EXCEPT ![a] =
                [phase |-> "snapshot", snap |-> x.snap, listed |-> x.listed + 1,
                 buffer |-> x.buffer \o SetToSeq(ListRows(k)), pages |-> x.pages,
                 total |-> x.total, versions |-> [x.versions EXCEPT ![k] = Now]]]
           /\ UNCHANGED <<ingestVars, log, net, issued, sequence, stored, request, answer>>
<1> DEFINE x == session[a]
           k == Kinds[x.listed + 1]
           rows == {[uid |-> u, rv |-> VersionAt(u, Now)] :
                      u \in {u \in Uids : KindOf[u] = k /\ VersionAt(u, Now) # 0}}
<1>1. x.phase = "snapshot" /\ x \in Collecting
  BY SessionFields DEF ListKind, Collects
<1>2. x = [phase |-> "snapshot", snap |-> x.snap, listed |-> x.listed,
           buffer |-> x.buffer, pages |-> x.pages, total |-> x.total,
           versions |-> x.versions]
  BY <1>1, CollectingFields
<1>3. rows = ListRows(k)
  BY DEF ListRows
<1>4. session' = [session EXCEPT ![a].listed = @ + 1, ![a].versions[k] = Now,
                                 ![a].buffer = @ \o SetToSeq(ListRows(k))]
  BY <1>3 DEF ListKind
<1>5. session' = [session EXCEPT ![a] =
                    [x EXCEPT !.listed = @ + 1, !.versions[k] = Now,
                              !.buffer = @ \o SetToSeq(ListRows(k))]]
  <2> DEFINE q == SetToSeq(ListRows(k))
             v == Now
  <2> HIDE DEF q, k, v
  <2>1. session' = [session EXCEPT ![a].listed = @ + 1, ![a].versions[k] = v,
                                 ![a].buffer = @ \o q]
    BY <1>4 DEF q, v
  <2>2. session' = [session EXCEPT ![a] =
                    [x EXCEPT !.listed = @ + 1, !.versions[k] = v,
                              !.buffer = @ \o q]]
    BY <2>1
  <2> QED
    BY <2>2 DEF q, v
<1>6. [x EXCEPT !.listed = @ + 1, !.versions[k] = Now, !.buffer = @ \o SetToSeq(ListRows(k))]
      = [phase |-> "snapshot", snap |-> x.snap, listed |-> x.listed + 1,
         buffer |-> x.buffer \o SetToSeq(ListRows(k)), pages |-> x.pages,
         total |-> x.total, versions |-> [x.versions EXCEPT ![k] = Now]]
  <2> DEFINE q == SetToSeq(ListRows(k))
             v == Now
  <2> HIDE DEF x, k, q, v
  <2> DEFINE y == [x EXCEPT !.listed = x.listed + 1]
             z == [y EXCEPT !.versions = [x.versions EXCEPT ![k] = v]]
  <2>1. [x EXCEPT !.listed = @ + 1, !.versions[k] = v, !.buffer = @ \o q]
      = [z EXCEPT !.buffer = x.buffer \o q]
    BY <1>2
  <2>2. y = [phase |-> "snapshot", snap |-> x.snap, listed |-> x.listed + 1,
             buffer |-> x.buffer, pages |-> x.pages,
             total |-> x.total, versions |-> x.versions]
    BY <1>2
  <2>3. z = [phase |-> "snapshot", snap |-> x.snap, listed |-> x.listed + 1,
             buffer |-> x.buffer, pages |-> x.pages, total |-> x.total,
             versions |-> [x.versions EXCEPT ![k] = v]]
    <3> HIDE DEF y
    <3> QED
      BY <2>2
  <2>4. [z EXCEPT !.buffer = x.buffer \o q]
      = [phase |-> "snapshot", snap |-> x.snap, listed |-> x.listed + 1,
         buffer |-> x.buffer \o q, pages |-> x.pages,
         total |-> x.total, versions |-> [x.versions EXCEPT ![k] = v]]
    <3> DEFINE b == x.buffer \o q
               w == [x.versions EXCEPT ![k] = v]
    <3>1. z = [phase |-> "snapshot", snap |-> x.snap, listed |-> x.listed + 1,
               buffer |-> x.buffer, pages |-> x.pages, total |-> x.total, versions |-> w]
      BY <2>3
    <3> HIDE DEF z, b, w
    <3>2. [z EXCEPT !.buffer = b]
        = [phase |-> "snapshot", snap |-> x.snap, listed |-> x.listed + 1,
           buffer |-> b, pages |-> x.pages, total |-> x.total, versions |-> w]
      BY <3>1
    <3> QED
      BY <3>2 DEF b, w
  <2> QED
    BY <2>1, <2>4 DEF q, v
<1> HIDE DEF x, k, rows
<1>7. session' = [session EXCEPT ![a] =
         [phase |-> "snapshot", snap |-> x.snap, listed |-> x.listed + 1,
         buffer |-> x.buffer \o SetToSeq(ListRows(k)), pages |-> x.pages,
         total |-> x.total, versions |-> [x.versions EXCEPT ![k] = Now]]]
  BY <1>5, <1>6
<1> QED
  BY <1>1, <1>7 DEF ListKind, x, k

\* The smaller of two numbers.
LEMMA SmallerOfTwo ==
    ASSUME NEW p \in Nat, NEW q \in Nat
    PROVE  Min({p, q}) \in {p, q} /\ Min({p, q}) <= p /\ Min({p, q}) <= q
<1>1. \E x \in {p, q} : \A y \in {p, q} : x <= y
  BY p <= q \/ q <= p
<1> QED
  BY <1>1 DEF Min

\* A page takes the first rows of the buffer.
LEMMA PageEffect ==
    ASSUME SyncAssumption, AgentFacts, SessionFacts, NEW a \in Agents, PostPage(a)
    PROVE  LET x == session[a] IN \E r \in Requests : \E n \in 1..Len(x.buffer) :
             /\ x.phase = "snapshot"
             /\ Asks(a, r) /\ r.type = "page" /\ r.snap = x.snap
             /\ r.number = x.pages + 1 /\ r.content = SubSeq(x.buffer, 1, n)
             /\ UNCHANGED issued
             /\ session' = [session EXCEPT ![a] =
                  [phase |-> "snapshot", snap |-> x.snap, listed |-> x.listed,
                   buffer |-> SubSeq(x.buffer, n + 1, Len(x.buffer)),
                   pages |-> x.pages + 1, total |-> x.total + n,
                   versions |-> x.versions]]
<1> DEFINE x == session[a]
           n == Min({PageMax, Len(x.buffer)})
           m == [type |-> "page", snap |-> x.snap, number |-> x.pages + 1,
                 content |-> SubSeq(x.buffer, 1, n)]
           rest == SubSeq(x.buffer, n + 1, Len(x.buffer))
<1>1. x.phase = "snapshot" /\ x \in Collecting
  BY SessionFields DEF PostPage, Collects
<1>2. /\ x = [phase |-> "snapshot", snap |-> x.snap, listed |-> x.listed,
              buffer |-> x.buffer, pages |-> x.pages, total |-> x.total,
              versions |-> x.versions]
      /\ x.buffer \in Seq(Resource)
  BY <1>1, CollectingFields
<1>3. n \in 1..Len(x.buffer)
  <2>1. Len(x.buffer) \in Nat /\ PageMax \in Nat
    BY <1>2 DEF SyncAssumption
  <2>2. n \in {PageMax, Len(x.buffer)} /\ n <= Len(x.buffer)
    BY <2>1, SmallerOfTwo
  <2>3. n > 0
    BY DEF PostPage
  <2> HIDE DEF n, x
  <2> QED
    BY <2>1, <2>2, <2>3
<1>4. Post(a, m) /\ UNCHANGED <<ingestVars, log, faults, stored>>
  BY DEF PostPage
<1>5. session' = [session EXCEPT ![a].buffer = SubSeq(@, n + 1, Len(@)),
                                 ![a].pages = @ + 1, ![a].total = @ + n]
  BY DEF PostPage
<1>6. session' = [session EXCEPT ![a] =
        [phase |-> "snapshot", snap |-> x.snap, listed |-> x.listed,
         buffer |-> rest, pages |-> x.pages + 1, total |-> x.total + n,
         versions |-> x.versions]]
  <2> HIDE DEF n
  <2>1. session' = [session EXCEPT ![a] =
                      [x EXCEPT !.buffer = SubSeq(@, n + 1, Len(@)),
                                !.pages = @ + 1, !.total = @ + n]]
    BY <1>5
  <2> DEFINE y == [x EXCEPT !.buffer = rest]
             z == [y EXCEPT !.pages = x.pages + 1]
  <2> HIDE DEF x
  <2>2. [x EXCEPT !.buffer = SubSeq(@, n + 1, Len(@)), !.pages = @ + 1, !.total = @ + n]
      = [z EXCEPT !.total = x.total + n]
    BY <1>2
  <2> HIDE DEF rest
  <2>3. y = [phase |-> "snapshot", snap |-> x.snap, listed |-> x.listed,
             buffer |-> rest, pages |-> x.pages, total |-> x.total,
             versions |-> x.versions]
    BY <1>2
  <2>4. z = [phase |-> "snapshot", snap |-> x.snap, listed |-> x.listed,
             buffer |-> rest, pages |-> x.pages + 1, total |-> x.total,
             versions |-> x.versions]
    <3> HIDE DEF y
    <3> QED
      BY <2>3
  <2>5. [z EXCEPT !.total = x.total + n]
      = [phase |-> "snapshot", snap |-> x.snap, listed |-> x.listed,
         buffer |-> rest, pages |-> x.pages + 1, total |-> x.total + n,
         versions |-> x.versions]
    <3> DEFINE p == x.pages + 1
               t == x.total + n
    <3>1. z = [phase |-> "snapshot", snap |-> x.snap, listed |-> x.listed,
               buffer |-> rest, pages |-> p, total |-> x.total, versions |-> x.versions]
      BY <2>4
    <3> HIDE DEF z, p, t
    <3>2. [z EXCEPT !.total = t]
        = [phase |-> "snapshot", snap |-> x.snap, listed |-> x.listed,
           buffer |-> rest, pages |-> p, total |-> t, versions |-> x.versions]
      BY <3>1
    <3> QED
      BY <3>2 DEF p, t
  <2> HIDE DEF y, z
  <2> QED
    BY <2>1, <2>2, <2>5
<1>7. "agent" \notin DOMAIN m /\ "seq" \notin DOMAIN m
  OBVIOUS
<1>8. /\ {"type", "snap", "number", "content"} \subseteq DOMAIN m
      /\ m.type = "page" /\ m.snap = x.snap /\ m.number = x.pages + 1
      /\ m.content = SubSeq(x.buffer, 1, n)
  OBVIOUS
<1> DEFINE r == Numbered(a, m)
<1>12. r \in Requests
  <2>1. sequence[a] + 1 \in Nat
    BY DEF AgentFacts
  <2>2. x.snap \in Snapshots /\ x.pages + 1 \in Nat \ {0} /\ SubSeq(x.buffer, 1, n) \in Seq(Resource)
    <3>1. x.snap \in Snapshots /\ x.pages \in Nat
      BY <1>1, CollectingFields
    <3>2. SubSeq(x.buffer, 1, n) \in Seq(Resource)
      <4> HIDE DEF n, x
      <4> QED
        BY <1>2, <1>3
    <3> HIDE DEF n, x
    <3> QED
      BY <3>1, <3>2
  <2> DEFINE p == x.pages + 1
             c == SubSeq(x.buffer, 1, n)
             s == x.snap
  <2>3. m = [type |-> "page", snap |-> s, number |-> p, content |-> c]
    OBVIOUS
  <2> HIDE DEF m, p, c, s, n, x
  <2>4. s \in Snapshots /\ p \in Nat \ {0} /\ c \in Seq(Resource)
    BY <2>2 DEF p, c, s
  <2>5. r \in [type : {"page"}, agent : Agents, seq : Nat, snap : Snapshots,
              number : Nat \ {0}, content : Seq(Resource)]
    BY <2>1, <2>3, <2>4 DEF Numbered
  <2> QED
    BY <2>5 DEF Requests
<1> HIDE DEF m, n, x
<1>9. Asks(a, r) /\ \A f \in DOMAIN m : r[f] = m[f]
  BY <1>4, <1>7, PostAsks
<1>10. /\ r.type = "page" /\ r.snap = x.snap /\ r.number = x.pages + 1
       /\ r.content = SubSeq(x.buffer, 1, n)
  BY <1>8, <1>9
<1>11. UNCHANGED issued
  BY DEF PostPage
<1> HIDE DEF r
<1> QED
  BY <1>1, <1>3, <1>6, <1>9, <1>10, <1>11, <1>12 DEF x

\* A complete names what the session counted.
LEMMA CompleteEffect ==
    ASSUME AgentFacts, SessionFacts, NEW a \in Agents, PostComplete(a)
    PROVE  LET x == session[a] IN \E r \in Requests :
             /\ x.phase = "snapshot" /\ AllEmitted(a)
             /\ Asks(a, r) /\ r.type = "complete" /\ r.snap = x.snap
             /\ r.totalPages = x.pages /\ r.totalResources = x.total
             /\ UNCHANGED issued
             /\ session' = [session EXCEPT ![a] =
                  [phase |-> "completing", snap |-> x.snap, listed |-> x.listed,
                   buffer |-> x.buffer, pages |-> x.pages, total |-> x.total,
                   versions |-> x.versions]]
<1> DEFINE x == session[a]
           m == [type |-> "complete", snap |-> x.snap, totalPages |-> x.pages,
                 totalResources |-> x.total]
<1>1. x.phase = "snapshot" /\ x \in Collecting
  BY SessionFields DEF PostComplete, Collects
<1>2. /\ x = [phase |-> "snapshot", snap |-> x.snap, listed |-> x.listed,
              buffer |-> x.buffer, pages |-> x.pages, total |-> x.total,
              versions |-> x.versions]
  BY <1>1, CollectingFields
<1>3. Post(a, m) /\ UNCHANGED <<ingestVars, log, faults, stored>>
  BY DEF PostComplete
<1>4. session' = [session EXCEPT ![a].phase = "completing"]
  BY DEF PostComplete
<1>5. session' = [session EXCEPT ![a] = [x EXCEPT !.phase = "completing"]]
  BY <1>4
<1>6. "agent" \notin DOMAIN m /\ "seq" \notin DOMAIN m
  OBVIOUS
<1>7. /\ {"type", "snap", "totalPages", "totalResources"} \subseteq DOMAIN m
      /\ m.type = "complete" /\ m.snap = x.snap /\ m.totalPages = x.pages
      /\ m.totalResources = x.total
  OBVIOUS
<1> DEFINE r == Numbered(a, m)
<1>12. r \in Requests
  <2>1. sequence[a] + 1 \in Nat
    BY DEF AgentFacts
  <2>2. x.snap \in Snapshots /\ x.pages \in Nat /\ x.total \in Nat
    BY <1>1, CollectingFields
  <2> HIDE DEF x
  <2>3. r \in [type : {"complete"}, agent : Agents, seq : Nat, snap : Snapshots,
              totalPages : Nat, totalResources : Nat]
    BY <2>1, <2>2 DEF Numbered
  <2> QED
    BY <2>3 DEF Requests
<1> HIDE DEF m, x
<1>8. [x EXCEPT !.phase = "completing"] =
         [phase |-> "completing", snap |-> x.snap, listed |-> x.listed,
          buffer |-> x.buffer, pages |-> x.pages, total |-> x.total,
          versions |-> x.versions]
  BY <1>2
<1>9. Asks(a, r) /\ \A f \in DOMAIN m : r[f] = m[f]
  BY <1>3, <1>6, PostAsks
<1>10. /\ r.type = "complete" /\ r.snap = x.snap /\ r.totalPages = x.pages
       /\ r.totalResources = x.total
  BY <1>7, <1>9
<1>11. UNCHANGED issued /\ AllEmitted(a)
  BY DEF PostComplete
<1> HIDE DEF r
<1> QED
  BY <1>1, <1>5, <1>8, <1>9, <1>10, <1>11, <1>12 DEF x

\* A change that is watched joins the queue and moves the version.
LEMMA ReceiveEffect ==
    ASSUME SessionFacts, NEW a \in Agents, NEW k, ReceiveChange(a, k)
    PROVE  LET x == session[a] IN \E i \in NextChange(a, k) :
             /\ x.phase = "watch"
             /\ session' = [session EXCEPT ![a] =
                  [phase |-> "watch", queue |-> Append(x.queue, WatchEvent(i)),
                   versions |-> [x.versions EXCEPT ![k] = i]]]
             /\ UNCHANGED <<ingestVars, log, net, issued, sequence, stored, request, answer>>
<1> DEFINE x == session[a]
<1>1. x.phase = "watch" /\ x \in Watching
  BY SessionFields DEF ReceiveChange, Watches
<1>2. x = [phase |-> "watch", queue |-> x.queue, versions |-> x.versions]
  BY <1>1, WatchingFields
<1>3. PICK i \in NextChange(a, k) :
         session' = [session EXCEPT ![a].versions[k] = i,
                                    ![a].queue = Append(@, WatchEvent(i))]
  BY DEF ReceiveChange
<1> DEFINE e == WatchEvent(i)
           y == [x EXCEPT !.versions = [x.versions EXCEPT ![k] = i]]
<1> HIDE DEF e
<1>4. session' = [session EXCEPT ![a] = [x EXCEPT !.versions[k] = i, !.queue = Append(@, e)]]
  BY <1>3 DEF e
<1> HIDE DEF x
<1>5. [x EXCEPT !.versions[k] = i, !.queue = Append(@, e)]
      = [y EXCEPT !.queue = Append(x.queue, e)]
  BY <1>2
<1>6. y = [phase |-> "watch", queue |-> x.queue, versions |-> [x.versions EXCEPT ![k] = i]]
  BY <1>2
<1>7. [y EXCEPT !.queue = Append(x.queue, e)]
      = [phase |-> "watch", queue |-> Append(x.queue, e),
         versions |-> [x.versions EXCEPT ![k] = i]]
  <2> DEFINE q == Append(x.queue, e)
             w == [x.versions EXCEPT ![k] = i]
  <2>1. y = [phase |-> "watch", queue |-> x.queue, versions |-> w]
    BY <1>6
  <2> HIDE DEF y, q, w
  <2>2. [y EXCEPT !.queue = q] = [phase |-> "watch", queue |-> q, versions |-> w]
    BY <2>1
  <2> QED
    BY <2>2 DEF q, w
<1> HIDE DEF y
<1>8. session' = [session EXCEPT ![a] =
         [phase |-> "watch", queue |-> Append(x.queue, WatchEvent(i)),
          versions |-> [x.versions EXCEPT ![k] = i]]]
  BY <1>4, <1>5, <1>7 DEF e
<1>9. UNCHANGED <<ingestVars, log, net, issued, sequence, stored, request, answer>>
  BY DEF ReceiveChange
<1> QED
  BY <1>1, <1>3, <1>8, <1>9 DEF x

\* A batch of events takes the first of the queue.
LEMMA EventsEffect ==
    ASSUME AgentFacts, SessionFacts, NEW a \in Agents, PostEvents(a)
    PROVE  LET x == session[a] IN \E r \in Requests : \E n \in 1..Len(x.queue) :
             /\ x.phase = "watch"
             /\ Asks(a, r) /\ r.type = "events" /\ r.events = SubSeq(x.queue, 1, n)
             /\ UNCHANGED issued
             /\ session' = [session EXCEPT ![a] =
                  [phase |-> "watch", queue |-> SubSeq(x.queue, n + 1, Len(x.queue)),
                   versions |-> x.versions]]
<1> DEFINE x == session[a]
<1>1. x.phase = "watch" /\ x \in Watching
  BY SessionFields DEF PostEvents, Watches
<1>2. x = [phase |-> "watch", queue |-> x.queue, versions |-> x.versions]
  BY <1>1, WatchingFields
<1>3. PICK n \in 1..Len(x.queue) :
         /\ Post(a, [type |-> "events", events |-> SubSeq(x.queue, 1, n)])
         /\ session' = [session EXCEPT ![a].queue = SubSeq(@, n + 1, Len(@))]
  BY DEF PostEvents
<1> DEFINE m == [type |-> "events", events |-> SubSeq(x.queue, 1, n)]
           rest == SubSeq(x.queue, n + 1, Len(x.queue))
<1>4. session' = [session EXCEPT ![a] = [x EXCEPT !.queue = rest]]
  BY <1>3
<1>5. "agent" \notin DOMAIN m /\ "seq" \notin DOMAIN m
  OBVIOUS
<1>6. /\ {"type", "events"} \subseteq DOMAIN m
      /\ m.type = "events" /\ m.events = SubSeq(x.queue, 1, n)
  OBVIOUS
<1>7. Post(a, m) /\ UNCHANGED <<ingestVars, log, faults, stored, issued>>
  BY <1>3 DEF PostEvents
<1> DEFINE r == Numbered(a, m)
<1>12. r \in Requests
  <2>1. sequence[a] + 1 \in Nat
    BY DEF AgentFacts
  <2> DEFINE c == SubSeq(x.queue, 1, n)
  <2>2. c \in Seq(Event)
    BY <1>1, WatchingFields
  <2>3. m = [type |-> "events", events |-> c]
    OBVIOUS
  <2> HIDE DEF m, c
  <2>4. r \in [type : {"events"}, agent : Agents, seq : Nat, events : Seq(Event)]
    BY <2>1, <2>2, <2>3 DEF Numbered
  <2> QED
    BY <2>4 DEF Requests
<1> HIDE DEF m, rest, x
<1>8. [x EXCEPT !.queue = rest] = [phase |-> "watch", queue |-> rest, versions |-> x.versions]
  BY <1>2
<1>9. Asks(a, r) /\ \A f \in DOMAIN m : r[f] = m[f]
  BY <1>5, <1>7, PostAsks
<1>10. r.type = "events" /\ r.events = SubSeq(x.queue, 1, n)
  BY <1>6, <1>9
<1> HIDE DEF r
<1> QED
  BY <1>1, <1>3, <1>4, <1>7, <1>8, <1>9, <1>10, <1>12 DEF x, rest

\* A completed snapshot becomes a watch session; otherwise the session stays.
LEMMA ProceedEffect ==
    ASSUME SessionFacts, NEW a \in Agents, Proceed(a)
    PROVE  LET x == session[a] IN
           /\ answer[a] = "ok"
           /\ IF x.phase = "completing"
              THEN session' = [session EXCEPT ![a] =
                     [phase |-> "watch", queue |-> <<>>, versions |-> x.versions]]
              ELSE UNCHANGED session
           /\ request' = [request EXCEPT ![a] = None]
           /\ answer' = [answer EXCEPT ![a] = "none"]
           /\ UNCHANGED <<ingestVars, log, net, issued, sequence>>
BY DEF Proceed, WatchFrom

----------------------------------------------------------------------------
(* The API under the agents' traffic is the API under arbitrary streams.   *)

\* Every message that agents could send, and any number.
Stream == INSTANCE IngestProofs WITH
    SequenceNumbers <- Nat, PageNos <- Nat \ {0}, PageContents <- Seq(Resource),
    Totals <- Nat, Batches <- Seq(Event)

\* Each message of the network has the shape of its type, and its sender is
\* enrolled.
Posted ==
    \A m \in net : WellFormed(m) /\ inventory_state[m.agent] # "unenrolled"

\* The instance counts as this module does.
LEMMA SameCardinality ==
    ASSUME NEW S
    PROVE  /\ Stream!Cardinality(S) = Cardinality(S)
           /\ Stream!IsFiniteSet(S) <=> IsFiniteSet(S)
BY DEF Stream!Cardinality, Cardinality, Stream!IsFiniteSet, IsFiniteSet

\* The instance's parameters are as it assumes.
LEMMA StreamAssumptions == Stream!IngestAssumption /\ Stream!StreamAssumption
BY IngestAssumption, SameCardinality DEF IngestAssumption, Stream!IngestAssumption, Stream!StreamAssumption,
       Resource, Stream!Resource, Event, Stream!Event

\* The instance's variables and types are this module's.
LEMMA SameVars ==
    /\ Stream!ingestVars = ingestVars
    /\ Stream!writerVars = writerVars /\ Stream!snapshotVars = snapshotVars
    /\ Stream!agentVars = agentVars /\ Stream!projection = projection
    /\ Stream!shownRows = shownRows /\ Stream!shownRows' = shownRows'
    /\ Stream!ingestVars' = ingestVars'
    /\ Stream!writerVars' = writerVars' /\ Stream!snapshotVars' = snapshotVars'
    /\ Stream!agentVars' = agentVars' /\ Stream!projection' = projection'
    /\ Stream!Resource = Resource /\ Stream!Event = Event
BY DEF Stream!ingestVars, ingestVars, Stream!writerVars, writerVars, Stream!snapshotVars,
       snapshotVars, Stream!agentVars, agentVars, Stream!projection, projection,
       Stream!shownRows, shownRows, Stream!Resource, Resource, Stream!Event, Event

\* Both start alike.
LEMMA SameInit == IngestInit => Stream!IngestInit
BY DEF IngestInit, Stream!IngestInit

\* A begin is handled alike by the instance.
LEMMA SameBegin ==
    ASSUME NEW a, NEW s, NEW q, SnapshotBegin(a, s, q)
    PROVE  Stream!SnapshotBegin(a, s, q)
BY DEF SnapshotBegin, Stream!SnapshotBegin, BeginResult, Stream!BeginResult, NoEffect,
       Stream!NoEffect, OpenSnapshot, Stream!OpenSnapshot, Supersede, Stream!Supersede,
       AdvanceSequence, Stream!AdvanceSequence, ingestVars, Stream!ingestVars, writerVars,
       Stream!writerVars, snapshotVars, Stream!snapshotVars, agentVars, Stream!agentVars,
       projection, Stream!projection,
       shownRows, Stream!shownRows

\* So is a page.
LEMMA SamePage ==
    ASSUME NEW a, NEW s, NEW n, NEW c, NEW q, SnapshotPage(a, s, n, c, q)
    PROVE  Stream!SnapshotPage(a, s, n, c, q)
BY DEF SnapshotPage, Stream!SnapshotPage, PageResult, Stream!PageResult, SequenceGate,
       Stream!SequenceGate, Refuse, Stream!Refuse, NoEffect, Stream!NoEffect,
       KeepSequence, Stream!KeepSequence, StorePage, Stream!StorePage, StageRows,
       Stream!StageRows, AdvanceSequence, Stream!AdvanceSequence, ingestVars,
       Stream!ingestVars, writerVars, Stream!writerVars, snapshotVars,
       Stream!snapshotVars, agentVars, Stream!agentVars, projection, Stream!projection,
       shownRows, Stream!shownRows

\* So is a complete.
LEMMA SameComplete ==
    ASSUME NEW a, NEW s, NEW p, NEW r, NEW q, SnapshotComplete(a, s, p, r, q)
    PROVE  Stream!SnapshotComplete(a, s, p, r, q)
<1>1. Stream!CompleteResult(a, s, p, r, q) = CompleteResult(a, s, p, r, q)
  BY SameCardinality DEF CompleteResult, Stream!CompleteResult, SequenceGate, Stream!SequenceGate,
         Continuous, Stream!Continuous, PageNumbers, Stream!PageNumbers, Staged,
         Stream!Staged
<1>2. ASSUME ApplySnapshot(a, s, q) PROVE Stream!ApplySnapshot(a, s, q)
  BY <1>2 DEF ApplySnapshot, Stream!ApplySnapshot, AdvanceSequence,
         Stream!AdvanceSequence, ApplyRows, Stream!ApplyRows, LifecycleIfApplied,
         Stream!LifecycleIfApplied, ChangeIfApplied, Stream!ChangeIfApplied, Staged,
         Stream!Staged
<1> QED
  BY <1>1, <1>2, SameVars DEF SnapshotComplete, Stream!SnapshotComplete, Refuse, Stream!Refuse,
         NoEffect, Stream!NoEffect

\* So is a batch of events.
LEMMA SameEvents ==
    ASSUME NEW a, NEW b, NEW q, WatchEvents(a, b, q)
    PROVE  Stream!WatchEvents(a, b, q)
<1>1. Stream!EventsResult(a, q) = EventsResult(a, q)
  BY DEF EventsResult, Stream!EventsResult, SequenceGate, Stream!SequenceGate
<1>2. ASSUME NEW es, NEW u
      PROVE  /\ Stream!LifecycleAfter(es, u) = LifecycleAfter(es, u)
             /\ Stream!VersionAfter(es, u) = VersionAfter(es, u)
             /\ Stream!LastUpsert(es, u) = LastUpsert(es, u)
             /\ Stream!EndsDeleted(es, u) <=> EndsDeleted(es, u)
  BY DEF LifecycleAfter, Stream!LifecycleAfter, EndsDeleted, Stream!EndsDeleted,
         LastUpsert, Stream!LastUpsert, VersionAfter, Stream!VersionAfter
<1>3. ASSUME NEW u PROVE Stream!ChangeAfter(b, u) = ChangeAfter(b, u)
  <2>1. Stream!LifecycleBeforeLastUpsert(b, u) = LifecycleBeforeLastUpsert(b, u)
    BY <1>2 DEF LifecycleBeforeLastUpsert, Stream!LifecycleBeforeLastUpsert
  <2> QED
    BY <1>2, <2>1 DEF ChangeAfter, Stream!ChangeAfter
<1>4. ASSUME ApplyEvents(a, b, q) PROVE Stream!ApplyEvents(a, b, q)
  BY <1>2, <1>3, <1>4, SameVars DEF ApplyEvents, Stream!ApplyEvents, AdvanceSequence,
         Stream!AdvanceSequence
<1> QED
  BY <1>1, <1>4, SameVars DEF WatchEvents, Stream!WatchEvents, Refuse, Stream!Refuse,
         NoEffect, Stream!NoEffect

\* So is what maintenance does.
LEMMA SameMaintenance == Maintenance => Stream!Maintenance
<1>1. ASSUME NEW S, NEW n PROVE Stream!Older(S, n) = Older(S, n)
  BY SameCardinality DEF Older, Stream!Older
<1>2. DiscardExpiredPending => Stream!DiscardExpiredPending
  BY SameVars DEF DiscardExpiredPending, Stream!DiscardExpiredPending
<1>3. CapPending => Stream!CapPending
  BY <1>1, SameVars DEF CapPending, Stream!CapPending
<1>4. DrainDeadStaging => Stream!DrainDeadStaging
  BY SameVars DEF DrainDeadStaging, Stream!DrainDeadStaging, Staged, Stream!Staged
<1>5. PruneHistory => Stream!PruneHistory
  <2>1. Stream!Prunable = Prunable
    BY DEF Prunable, Stream!Prunable
  <2> QED
    BY <1>1, <2>1, SameVars DEF PruneHistory, Stream!PruneHistory
<1>6. BoundChangeEvents => Stream!BoundChangeEvents
  BY SameVars DEF BoundChangeEvents, Stream!BoundChangeEvents
<1> QED
  BY <1>2, <1>3, <1>4, <1>5, <1>6 DEF Maintenance, Stream!Maintenance

\* So are enrolment, demands and the snapshot's lifetime.
LEMMA SameOthers ==
    /\ \A a : Enroll(a) => Stream!Enroll(a)
    /\ \A d : DemandReconcile(d) => Stream!DemandReconcile(d)
    /\ \A d : LoseDemand(d) => Stream!LoseDemand(d)
    /\ \A s : PassTtl(s) => Stream!PassTtl(s)
BY SameVars DEF Enroll, Stream!Enroll, DemandReconcile, Stream!DemandReconcile,
       LoseDemand, Stream!LoseDemand, PassTtl, Stream!PassTtl

\* A message of the network is one the stream may carry.
LEMMA HandledIsStream ==
    ASSUME Posted, NEW m \in net, Handle(m)
    PROVE  Stream!IngestNext
<1>1. /\ m.agent \in Agents /\ inventory_state[m.agent] # "unenrolled" /\ m.seq \in Nat
      /\ m.type \in {"begin", "page", "complete", "events"}
  BY RequestShape DEF Posted, WellFormed
<1>2. CASE m.type = "begin"
  <2>1. SnapshotBegin(m.agent, m.snap, m.seq) /\ m.snap \in Snapshots
    BY <1>2, RequestShape DEF Handle, Posted, WellFormed
  <2>2. Stream!SnapshotBegin(m.agent, m.snap, m.seq)
    BY <2>1, SameBegin
  <2> QED
    BY <1>1, <2>1, <2>2 DEF Stream!IngestNext, Stream!Message, Stream!Enrolled
<1>3. CASE m.type = "page"
  <2>1. /\ SnapshotPage(m.agent, m.snap, m.number, m.content, m.seq)
        /\ m.snap \in Snapshots /\ m.number \in Nat \ {0} /\ m.content \in Seq(Resource)
    BY <1>3, RequestShape DEF Handle, Posted, WellFormed
  <2>2. Stream!SnapshotPage(m.agent, m.snap, m.number, m.content, m.seq)
    BY <2>1, SamePage
  <2> QED
    BY <1>1, <2>1, <2>2 DEF Stream!IngestNext, Stream!Message, Stream!Enrolled
<1>4. CASE m.type = "complete"
  <2>1. /\ SnapshotComplete(m.agent, m.snap, m.totalPages, m.totalResources, m.seq)
        /\ m.snap \in Snapshots /\ m.totalPages \in Nat /\ m.totalResources \in Nat
    BY <1>4, RequestShape DEF Handle, Posted, WellFormed
  <2>2. Stream!SnapshotComplete(m.agent, m.snap, m.totalPages, m.totalResources, m.seq)
    BY <2>1, SameComplete
  <2> QED
    BY <1>1, <2>1, <2>2 DEF Stream!IngestNext, Stream!Message, Stream!Enrolled
<1>5. CASE m.type = "events"
  <2>1. /\ WatchEvents(m.agent, m.events, m.seq) /\ m.events \in Seq(Event)
    BY <1>5, RequestShape DEF Handle, Posted, WellFormed
  <2>2. Stream!WatchEvents(m.agent, m.events, m.seq)
    BY <2>1, SameEvents
  <2> QED
    BY <1>1, <2>1, <2>2 DEF Stream!IngestNext, Stream!Message, Stream!Enrolled
<1> QED
  BY <1>1, <1>2, <1>3, <1>4, <1>5

\* Every step of the pipeline is a step of the stream, or leaves the API alone.
LEMMA StepIsStream ==
    ASSUME AgentFacts, Posted, [SyncNext]_syncVars
    PROVE  [Stream!IngestNext]_(Stream!ingestVars)
<1>1. CASE UNCHANGED ingestVars
  BY <1>1, SameVars
<1>2. ASSUME NEW a \in Agents, Takeover(a) PROVE Stream!IngestNext
  <2>1. Stream!Enroll(a)
    BY <1>2, SameOthers DEF Takeover
  <2> QED
    BY <2>1 DEF Stream!IngestNext
<1>3. ASSUME NEW m \in net, Delivers(m) PROVE Stream!IngestNext
  BY <1>3, HandledIsStream DEF Delivers
<1>4. ASSUME Rests PROVE [Stream!IngestNext]_(Stream!ingestVars)
  BY <1>4, SameMaintenance, SameOthers, SameVars DEF Rests, Stream!IngestNext
<1>5. ASSUME NEW a \in Agents,
             \/ StartCycle(a) \/ ListKind(a) \/ PostPage(a) \/ PostComplete(a)
             \/ \E k \in Range(Kinds) : ReceiveChange(a, k)
             \/ PostEvents(a) \/ Proceeds(a) \/ Stops(a) \/ LoseAnswer(a)
      PROVE  UNCHANGED ingestVars
  BY <1>5 DEF StartCycle, ListKind, PostPage, PostComplete, ReceiveChange, PostEvents,
              Proceeds, Proceed, Stops, LoseAnswer
<1>6. ASSUME NEW u, NEW deleted, ClusterChange(u, deleted) PROVE UNCHANGED ingestVars
  BY <1>6 DEF ClusterChange
<1> QED
  BY <1>1, <1>2, <1>3, <1>4, <1>5, <1>6, StepKinds

----------------------------------------------------------------------------
(* What the API can make of a message.                                     *)

\* A begin opens its snapshot or changes nothing.
LEMMA BeginOutcome ==
    ASSUME NEW m, m.type = "begin", Handle(m)
    PROVE  \/ /\ UNCHANGED ingestVars
              /\ Accepts(m) => \/ status[m.snap] \in {"pending", "complete", "discarded"}
                               \/ m.seq <= last_sequence[m.agent]
              /\ Accepts(m) => m.agent = active_agent
           \/ /\ m.agent = active_agent
              /\ status[m.snap] \notin {"pending", "complete", "discarded", "pruned"}
              /\ ~(m.seq <= last_sequence[m.agent])
              /\ OpenSnapshot(m.agent, m.snap, m.seq)
<1>1. SnapshotBegin(m.agent, m.snap, m.seq)
  BY DEF Handle
<1>2. Accepts(m) <=> BeginResult(m.agent, m.snap, m.seq) \in {"duplicate", "stale", "accepted"}
  BY DEF Accepts
<1>3. CASE BeginResult(m.agent, m.snap, m.seq) = "accepted" /\ OpenSnapshot(m.agent, m.snap, m.seq)
  BY <1>3 DEF BeginResult
<1>4. CASE /\ BeginResult(m.agent, m.snap, m.seq) \in {"refused", "duplicate", "stale"}
           /\ UNCHANGED ingestVars
  BY <1>2, <1>4 DEF BeginResult
<1> QED
  BY <1>1, <1>3, <1>4 DEF SnapshotBegin, NoEffect

\* A page and a complete are looked at in the same order.
LEMMA PageOutcome ==
    ASSUME NEW m, m.type = "page", Handle(m), m.seq \in Nat,
           last_sequence[m.agent] \in Nat
    PROVE  \/ /\ UNCHANGED ingestVars
              /\ Accepts(m) => /\ m.agent = active_agent
                               /\ \/ status[m.snap] = "complete"
                                  \/ status[m.snap] = "pending" /\ m.seq <= last_sequence[m.agent]
           \/ ~Accepts(m) /\ \E d \in {None, m.snap} : Refuse(m.agent, d)
           \/ /\ m.agent = active_agent
              /\ status[m.snap] = "pending"
              /\ m.seq = last_sequence[m.agent] + 1
              /\ \/ KeepSequence(m.agent, m.seq)
                 \/ StorePage(m.agent, m.snap, m.number, m.content, m.seq)
<1> DEFINE r == PageResult(m.agent, m.snap, m.number, m.content, m.seq)
<1>1. SnapshotPage(m.agent, m.snap, m.number, m.content, m.seq)
  BY DEF Handle
<1>2. Accepts(m) <=> r \in {"duplicate", "repeated", "accepted"}
  BY DEF Accepts
<1>3. CASE r \in {"refused", "duplicate"} /\ UNCHANGED ingestVars
  <2>1. r = "duplicate" => /\ m.agent = active_agent
                           /\ \/ status[m.snap] = "complete"
                              \/ status[m.snap] = "pending" /\ m.seq <= last_sequence[m.agent]
    BY DEF PageResult, SequenceGate
  <2> HIDE DEF r
  <2> QED
    BY <1>2, <1>3, <2>1
<1>4. CASE r \in {"stale", "gap", "torn"} /\ \E d \in {None, m.snap} : Refuse(m.agent, d)
  <2> HIDE DEF r
  <2> QED
    BY <1>2, <1>4
<1>5. CASE /\ r \in {"repeated", "accepted"}
           /\ \/ KeepSequence(m.agent, m.seq)
              \/ StorePage(m.agent, m.snap, m.number, m.content, m.seq)
  <2>1. m.agent = active_agent /\ status[m.snap] = "pending"
        /\ SequenceGate(m.agent, m.seq) = "apply"
    BY <1>5 DEF PageResult, SequenceGate
  <2>2. m.seq = last_sequence[m.agent] + 1
    BY <2>1 DEF SequenceGate
  <2> HIDE DEF r
  <2> QED
    BY <1>5, <2>1, <2>2
<1> HIDE DEF r
<1> QED
  BY <1>1, <1>3, <1>4, <1>5 DEF SnapshotPage, NoEffect, r

\* A complete is applied, refused with a demand, or changes nothing.
LEMMA CompleteOutcome ==
    ASSUME NEW m, m.type = "complete", Handle(m), m.seq \in Nat,
           last_sequence[m.agent] \in Nat
    PROVE  \/ /\ UNCHANGED ingestVars
              /\ Accepts(m) => /\ m.agent = active_agent
                               /\ \/ status[m.snap] = "complete"
                                  \/ status[m.snap] = "pending" /\ m.seq <= last_sequence[m.agent]
           \/ ~Accepts(m) /\ \E d \in {None, m.snap} : Refuse(m.agent, d)
           \/ /\ m.agent = active_agent
              /\ status[m.snap] = "pending"
              /\ m.seq = last_sequence[m.agent] + 1
              /\ Continuous(m.snap, m.totalPages, m.totalResources)
              /\ ApplySnapshot(m.agent, m.snap, m.seq)
<1> DEFINE r == CompleteResult(m.agent, m.snap, m.totalPages, m.totalResources, m.seq)
<1>1. SnapshotComplete(m.agent, m.snap, m.totalPages, m.totalResources, m.seq)
  BY DEF Handle
<1>2. Accepts(m) <=> r \in {"duplicate", "applied"}
  BY DEF Accepts
<1>3. CASE r \in {"refused", "duplicate"} /\ UNCHANGED ingestVars
  <2>1. r = "duplicate" => /\ m.agent = active_agent
                           /\ \/ status[m.snap] = "complete"
                              \/ status[m.snap] = "pending" /\ m.seq <= last_sequence[m.agent]
    BY DEF CompleteResult, SequenceGate
  <2> HIDE DEF r
  <2> QED
    BY <1>2, <1>3, <2>1
<1>4. CASE r \in {"stale", "gap", "torn"} /\ \E d \in {None, m.snap} : Refuse(m.agent, d)
  <2> HIDE DEF r
  <2> QED
    BY <1>2, <1>4
<1>5. CASE r = "applied" /\ ApplySnapshot(m.agent, m.snap, m.seq)
  <2>1. m.agent = active_agent /\ status[m.snap] = "pending"
        /\ SequenceGate(m.agent, m.seq) = "apply"
        /\ Continuous(m.snap, m.totalPages, m.totalResources)
    BY <1>5 DEF CompleteResult, SequenceGate
  <2>2. m.seq = last_sequence[m.agent] + 1
    BY <2>1 DEF SequenceGate
  <2> HIDE DEF r
  <2> QED
    BY <1>5, <2>1, <2>2
<1> HIDE DEF r
<1> QED
  BY <1>1, <1>3, <1>4, <1>5 DEF SnapshotComplete, NoEffect, r

\* A batch is applied, refused with a demand, or changes nothing.
LEMMA EventsOutcome ==
    ASSUME NEW m, m.type = "events", Handle(m), m.seq \in Nat,
           last_sequence[m.agent] \in Nat
    PROVE  \/ /\ UNCHANGED ingestVars
              /\ Accepts(m) => /\ m.agent = active_agent
                               /\ m.seq <= last_sequence[m.agent]
           \/ ~Accepts(m) /\ Refuse(m.agent, None)
           \/ /\ m.agent = active_agent
              /\ Fresh(m.agent) /\ pending_snapshot = None
              /\ m.seq = last_sequence[m.agent] + 1
              /\ ApplyEvents(m.agent, m.events, m.seq)
<1> DEFINE r == EventsResult(m.agent, m.seq)
<1>1. WatchEvents(m.agent, m.events, m.seq)
  BY DEF Handle
<1>2. Accepts(m) <=> r \in {"duplicate", "applied"}
  BY DEF Accepts
<1>3. CASE r \in {"refused", "reconcile", "duplicate"} /\ UNCHANGED ingestVars
  <2>1. r = "duplicate" => m.agent = active_agent /\ m.seq <= last_sequence[m.agent]
    BY DEF EventsResult, SequenceGate
  <2> HIDE DEF r
  <2> QED
    BY <1>2, <1>3, <2>1
<1>4. CASE r = "gap" /\ Refuse(m.agent, None)
  <2> HIDE DEF r
  <2> QED
    BY <1>2, <1>4
<1>5. CASE r = "applied" /\ ApplyEvents(m.agent, m.events, m.seq)
  <2>1. m.agent = active_agent /\ Fresh(m.agent) /\ pending_snapshot = None
        /\ SequenceGate(m.agent, m.seq) = "apply"
    BY <1>5 DEF EventsResult, SequenceGate, Fresh
  <2>2. m.seq = last_sequence[m.agent] + 1
    BY <2>1 DEF SequenceGate
  <2> HIDE DEF r
  <2> QED
    BY <1>5, <2>1, <2>2
<1> HIDE DEF r
<1> QED
  BY <1>1, <1>3, <1>4, <1>5 DEF WatchEvents, NoEffect, r

----------------------------------------------------------------------------
(* The shape of sessions and messages is kept.                             *)

BaseInv ==
    /\ LogInv /\ BeginInv /\ SessionFacts /\ Posted
    /\ Stream!TypeOK /\ Stream!WriterInv /\ Stream!CountsInv /\ Stream!StagingAgrees

\* Everything that the lower layers say, in the names of this module.
LEMMA BaseTypes ==
    ASSUME BaseInv
    PROVE  /\ Now \in Nat
           /\ active_agent \in Agents \cup {None}
           /\ status \in [Snapshots -> Statuses]
           /\ pages \in [Snapshots -> SUBSET Page]
           /\ staging \in [Snapshots -> [Uids -> Nat]]
           /\ last_sequence \in [Agents -> Nat]
           /\ inventory_state \in [Agents -> InventoryStates]
           /\ ProjectionTypes
           /\ demands \subseteq [agent : Agents, discard : Snapshots \cup {None}]
<1>1. Now \in Nat
  BY DEF BaseInv, LogInv, Now
<1>2. Stream!TypeOK
  BY DEF BaseInv
<1> QED
  BY <1>1, <1>2 DEF Stream!TypeOK, Stream!Statuses, Statuses, Stream!Page, Page,
     Stream!Resource, Resource, Stream!InventoryStates, InventoryStates, ProjectionTypes

\* What is known of a message that was sent.
LEMMA BaseNet ==
    ASSUME BaseInv, NEW m \in net
    PROVE  /\ WellFormed(m) /\ inventory_state[m.agent] # "unenrolled"
           /\ m.agent \in Agents /\ m.seq \in Nat /\ last_sequence[m.agent] \in Nat
           /\ m.type \in {"begin", "page", "complete", "events"}
           /\ m.type # "events" => m.snap \in Snapshots /\ m.snap <= issued
           /\ m.type = "page" => m.number \in Nat \ {0} /\ m.content \in Seq(Resource)
           /\ m.type = "complete" => m.totalPages \in Nat /\ m.totalResources \in Nat
           /\ m.type = "events" => m.events \in Seq(Event)
<1>1. WellFormed(m) /\ inventory_state[m.agent] # "unenrolled"
  BY DEF BaseInv, Posted
<1> QED
  BY <1>1, BaseTypes, RequestShape DEF WellFormed

\* No message unenrols an agent.
LEMMA HandledStates ==
    ASSUME BaseInv, NEW m \in net, Handle(m), NEW b \in Agents
    PROVE  inventory_state'[b] = inventory_state[b] \/ inventory_state'[b] \in {"reconciling", "fresh"}
<1>0. /\ m.seq \in Nat /\ last_sequence[m.agent] \in Nat
      /\ m.type \in {"begin", "page", "complete", "events"}
      /\ inventory_state \in [Agents -> InventoryStates]
  BY BaseNet, BaseTypes
<1>1. \A d : Refuse(m.agent, d) => UNCHANGED inventory_state
  BY DEF Refuse, agentVars
<1>2. UNCHANGED ingestVars => UNCHANGED inventory_state
  BY DEF ingestVars, agentVars
<1>3. CASE m.type = "begin"
  BY <1>0, <1>2, <1>3, BeginOutcome DEF OpenSnapshot
<1>4. CASE m.type = "page"
  BY <1>0, <1>1, <1>2, <1>4, PageOutcome DEF KeepSequence, StorePage
<1>5. CASE m.type = "complete"
  BY <1>0, <1>1, <1>2, <1>5, CompleteOutcome DEF ApplySnapshot
<1>6. CASE m.type = "events"
  BY <1>0, <1>1, <1>2, <1>6, EventsOutcome DEF ApplyEvents
<1> QED
  BY <1>0, <1>3, <1>4, <1>5, <1>6

\* What the API does by itself leaves the shown rows, the sequences and the
\* writer alone; an agent's state may become "reconcile_required".
LEMMA RestsEffect ==
    ASSUME BaseInv, Rests
    PROVE  /\ UNCHANGED <<log, net, issued, agentSide, active_agent, last_sequence, shownRows>>
           /\ inventory_state' \in [Agents -> InventoryStates]
           /\ \A a \in Agents : \/ inventory_state'[a] = inventory_state[a]
                                \/ inventory_state'[a] = "reconcile_required"
           /\ \A s \in Snapshots :
                 /\ \/ status'[s] = status[s]
                    \/ status[s] # "absent" /\ status'[s] \in {"discarded", "pruned"}
                 /\ pages'[s] \subseteq pages[s]
<1>0. /\ inventory_state \in [Agents -> InventoryStates]
      /\ status \in [Snapshots -> Statuses] /\ pages \in [Snapshots -> SUBSET Page]
      /\ demands \subseteq [agent : Agents, discard : Snapshots \cup {None}]
      /\ \A d \in demands : d.discard \in Snapshots => status[d.discard] # "absent"
  BY BaseTypes DEF BaseInv, BeginInv, RowFacts
<1>1. UNCHANGED <<log, net, issued, agentSide>>
  BY DEF Rests
<1>2. CASE UNCHANGED ingestVars
  BY <1>0, <1>1, <1>2 DEF projection, ingestVars, writerVars, snapshotVars, agentVars
<1>3. ASSUME NEW d \in demands, DemandReconcile(d)
      PROVE  /\ UNCHANGED <<active_agent, last_sequence, shownRows, pages>>
             /\ inventory_state' \in [Agents -> InventoryStates]
             /\ \A a \in Agents : \/ inventory_state'[a] = inventory_state[a]
                                  \/ inventory_state'[a] = "reconcile_required"
             /\ \A s \in Snapshots :
                    \/ status'[s] = status[s]
                    \/ status[s] # "absent" /\ status'[s] \in {"discarded", "pruned"}
  <2>1. d.agent \in Agents
    BY <1>0
  <2>2. /\ UNCHANGED <<active_agent, last_sequence, shownRows, pages>>
        /\ inventory_state' = [inventory_state EXCEPT ![d.agent] = "reconcile_required"]
    BY <1>3 DEF projection, DemandReconcile, writerVars
  <2>3. ASSUME NEW s \in Snapshots
        PROVE  \/ status'[s] = status[s]
               \/ status[s] # "absent" /\ status'[s] \in {"discarded", "pruned"}
    <3>1. status'[s] = IF s = d.discard /\ status[s] # "pruned" THEN "discarded" ELSE status[s]
      BY <1>3 DEF projection, DemandReconcile
    <3>2. s = d.discard => status[s] # "absent"
      BY <1>0
    <3> QED
      BY <3>1, <3>2
  <2>4. /\ inventory_state' \in [Agents -> InventoryStates]
        /\ \A a \in Agents : \/ inventory_state'[a] = inventory_state[a]
                             \/ inventory_state'[a] = "reconcile_required"
    BY <1>0, <2>1, <2>2 DEF InventoryStates
  <2> QED
    BY <2>2, <2>3, <2>4
<1>4. ASSUME \/ \E d \in demands : LoseDemand(d)
             \/ \E s \in Snapshots : PassTtl(s)
      PROVE  UNCHANGED <<active_agent, last_sequence, shownRows, inventory_state, status, pages>>
  BY <1>4 DEF projection, LoseDemand, PassTtl, writerVars, snapshotVars, agentVars
<1>5. ASSUME Maintenance
      PROVE  /\ UNCHANGED <<active_agent, last_sequence, shownRows, inventory_state>>
             /\ \A s \in Snapshots :
                   /\ \/ status'[s] = status[s]
                      \/ status[s] # "absent" /\ status'[s] \in {"discarded", "pruned"}
                   /\ pages'[s] \subseteq pages[s]
  <2>1. CASE DiscardExpiredPending
    BY <2>1 DEF projection, DiscardExpiredPending, agentVars
  <2>2. CASE CapPending
    <3>1. \A s \in Older({s \in Snapshots : status[s] = "pending"}, PendingCap) : status[s] = "pending"
      BY DEF Older
    <3> QED
      BY <2>2, <3>1 DEF projection, CapPending, agentVars, writerVars
  <2>3. CASE DrainDeadStaging
    BY <2>3 DEF projection, DrainDeadStaging, agentVars, writerVars
  <2>5. CASE BoundChangeEvents
    BY <2>5 DEF BoundChangeEvents, snapshotVars, agentVars, writerVars
  <2>4. CASE PruneHistory
    <3>1. \A s \in Older(Prunable, HistoryLimit) : status[s] \in {"complete", "discarded"}
      BY DEF Older, Prunable
    <3> QED
      BY <2>4, <3>1 DEF projection, PruneHistory, agentVars, writerVars
  <2> QED
    BY <1>5, <2>1, <2>2, <2>3, <2>4, <2>5 DEF Maintenance
<1> QED
  BY <1>0, <1>1, <1>2, <1>3, <1>4, <1>5 DEF Rests

\* An enrolled agent stays enrolled.
LEMMA EnrolledStay ==
    ASSUME BaseInv, [SyncNext]_syncVars, NEW b \in Agents,
           inventory_state[b] # "unenrolled"
    PROVE  inventory_state'[b] # "unenrolled"
<1>0. inventory_state \in [Agents -> InventoryStates]
  BY BaseTypes
<1>1. CASE UNCHANGED inventory_state
  BY <1>1
<1>2. ASSUME NEW a \in Agents, Takeover(a) PROVE inventory_state'[b] # "unenrolled"
  BY <1>0, <1>2 DEF Takeover, Enroll
<1>3. ASSUME NEW m \in net, Delivers(m) PROVE inventory_state'[b] # "unenrolled"
  BY <1>3, HandledStates DEF Delivers
<1>4. CASE Rests
  BY <1>4, RestsEffect
<1>5. ASSUME NEW a \in Agents,
             \/ StartCycle(a) \/ ListKind(a) \/ PostPage(a) \/ PostComplete(a)
             \/ \E k \in Range(Kinds) : ReceiveChange(a, k)
             \/ PostEvents(a) \/ Proceeds(a) \/ Stops(a) \/ LoseAnswer(a)
      PROVE  UNCHANGED inventory_state
  <2>1. UNCHANGED ingestVars
    BY <1>5 DEF StartCycle, ListKind, PostPage, PostComplete, ReceiveChange, PostEvents,
              Proceeds, Proceed, Stops, LoseAnswer
  <2> QED
    BY <2>1 DEF ingestVars, agentVars
<1>6. ASSUME NEW u, NEW deleted, ClusterChange(u, deleted) PROVE UNCHANGED inventory_state
  BY <1>6 DEF ClusterChange, ingestVars, agentVars
<1>7. AgentFacts
  BY DEF BaseInv, BeginInv
<1> QED
  BY <1>1, <1>2, <1>3, <1>4, <1>5, <1>6, <1>7, StepKinds

\* What another agent holds keeps its shape.
LEMMA ShapeStays ==
    ASSUME NEW b \in Agents, Shape(b),
           session'[b] = session[b], request'[b] = request[b], sequence'[b] = sequence[b],
           inventory_state[b] # "unenrolled" => inventory_state'[b] # "unenrolled",
           issued \in Nat, issued' \in {issued, issued + 1}, SessionFacts, Snapshots \subseteq Nat
    PROVE  Shape(b)'
<1>1. Collects(b) => session[b].snap \in Nat
  BY SessionFields, CollectingFields
<1> QED
  BY <1>1 DEF Shape, Collects, Watches

\* None is no request.
LEMMA NoRequest == ASSUME SyncAssumption, NEW m \in Requests PROVE m # None
BY DEF SyncAssumption

\* An agent that asks: its message is well formed, and its session has the
\* shape that goes with it.
LEMMA AskKeeps ==
    ASSUME BaseInv, SyncAssumption, NEW a \in Agents, NEW m, Asks(a, m), issued' \in {issued, issued + 1},
           WellFormed(m)', NEW y \in Collecting \cup Watching,
           session' = [session EXCEPT ![a] = y],
           inventory_state[a] # "unenrolled",
           y.phase # "watch" => y.snap <= issued',
           \/ /\ y.phase = "snapshot" /\ m.type \in {"begin", "page"} /\ m.snap = y.snap
              /\ m.type = "begin" => y.listed = 0 /\ y.buffer = <<>> /\ y.pages = 0
           \/ y.phase = "completing" /\ m.type = "complete" /\ m.snap = y.snap
           \/ y.phase = "watch" /\ m.type = "events"
    PROVE  SessionFacts' /\ Posted'
<1>0. /\ SessionFacts /\ issued \in Nat /\ Snapshots \subseteq Nat
      /\ session \in [Agents -> {Idle} \cup Collecting \cup Watching]
      /\ request \in [Agents -> net \cup {None}] /\ sequence \in [Agents -> Nat]
  BY DEF BaseInv, BeginInv, AgentFacts, SessionFacts, SyncAssumption
<1>1. session' \in [Agents -> {Idle} \cup Collecting \cup Watching]
  BY <1>0
<1>2. UNCHANGED inventory_state
  BY DEF Asks, ingestVars, agentVars
<1>3. ASSUME NEW b \in Agents, b # a PROVE Shape(b)'
  <2>1. session'[b] = session[b] /\ request'[b] = request[b] /\ sequence'[b] = sequence[b]
    BY <1>0, <1>3 DEF Asks
  <2>2. Shape(b)
    BY <1>0 DEF SessionFacts
  <2> QED
    BY <1>0, <1>2, <2>1, <2>2, ShapeStays
<1>4. Shape(a)'
  <2>1. /\ session'[a] = y /\ request'[a] = m /\ sequence'[a] = sequence[a] + 1
        /\ m.agent = a /\ m.seq = sequence[a] + 1
    BY <1>0 DEF Asks
  <2>2. y.phase \in {"snapshot", "completing", "watch"}
    OBVIOUS
  <2>3. inventory_state'[a] # "unenrolled" /\ m # None
    BY <1>0, <1>2, NoRequest DEF WellFormed
  <2>4. CASE y.phase = "snapshot"
    BY <2>1, <2>3, <2>4 DEF Shape, Collects, Watches
  <2>5. CASE y.phase = "completing"
    BY <2>1, <2>3, <2>5 DEF Shape, Collects, Watches
  <2>6. CASE y.phase = "watch"
    BY <2>1, <2>3, <2>6 DEF Shape, Collects, Watches
  <2> QED
    BY <2>2, <2>4, <2>5, <2>6
<1>5. Posted'
  <2> SUFFICES ASSUME NEW n \in net'
               PROVE  WellFormed(n)' /\ inventory_state'[n.agent] # "unenrolled"
    BY DEF Posted
  <2>1. CASE n = m
    BY <1>2, <2>1 DEF Asks
  <2>2. CASE n \in net
    <3>1. WellFormed(n) /\ inventory_state[n.agent] # "unenrolled"
      BY <2>2 DEF BaseInv, Posted
    <3>2. n.type # "events" => n.snap \in Nat /\ n.snap <= issued
      BY <1>0, <3>1, RequestShape DEF WellFormed
    <3> QED
      BY <1>0, <1>2, <3>1, <3>2 DEF WellFormed
  <2> QED
    BY <2>1, <2>2 DEF Asks
<1> QED
  BY <1>1, <1>3, <1>4, <1>5 DEF SessionFacts

\* The steps in which nobody asks.
LEMMA QuietKeeps ==
    ASSUME BaseInv, SyncAssumption, [SyncNext]_syncVars, UNCHANGED <<net, issued>>,
           session' \in [Agents -> {Idle} \cup Collecting \cup Watching],
           \A b \in Agents :
              \/ session'[b] = session[b] /\ request'[b] = request[b] /\ sequence'[b] = sequence[b]
              \/ Shape(b)'
    PROVE  SessionFacts' /\ Posted'
<1>0. SessionFacts /\ issued \in Nat /\ Snapshots \subseteq Nat
  BY DEF BaseInv, BeginInv, AgentFacts, SyncAssumption
<1>1. ASSUME NEW b \in Agents PROVE Shape(b)'
  <2>1. Shape(b)
    BY <1>0 DEF SessionFacts
  <2>2. inventory_state[b] # "unenrolled" => inventory_state'[b] # "unenrolled"
    BY EnrolledStay
  <2> QED
    BY <1>0, <2>1, <2>2, ShapeStays
<1>2. ASSUME NEW n \in net PROVE WellFormed(n)' /\ inventory_state'[n.agent] # "unenrolled"
  <2>1. WellFormed(n) /\ inventory_state[n.agent] # "unenrolled" /\ n.agent \in Agents
    BY BaseNet
  <2> QED
    BY <2>1, EnrolledStay DEF WellFormed
<1> QED
  BY <1>1, <1>2 DEF SessionFacts, Posted

\* An element of a sequence.
LEMMA ElementOf == ASSUME NEW S, NEW e \in Seq(S), NEW i \in 1..Len(e) PROVE e[i] \in S
OBVIOUS

\* No step breaks the shape of a session, or of a message.
LEMMA SessionsNext ==
    ASSUME BaseInv, SyncAssumption, [SyncNext]_syncVars
    PROVE  SessionFacts' /\ Posted'
<1>0. /\ SessionFacts /\ AgentFacts /\ LogInv /\ Now \in Nat
      /\ session \in [Agents -> {Idle} \cup Collecting \cup Watching]
      /\ request \in [Agents -> net \cup {None}]
      /\ sequence \in [Agents -> Nat] /\ stored \in [Agents -> Nat] /\ issued \in Nat
      /\ \A a \in Agents : Shape(a)
      /\ Snapshots \subseteq Nat
  BY BaseTypes DEF BaseInv, BeginInv, AgentFacts, SessionFacts, SyncAssumption
<1>1. CASE UNCHANGED <<net, issued, session, request, sequence>>
  BY <1>0, <1>1, QuietKeeps
<1>2. ASSUME NEW a \in Agents, StartCycle(a) PROVE SessionFacts' /\ Posted'
  <2> DEFINE y == [phase |-> "snapshot", snap |-> issued + 1, listed |-> 0,
                   buffer |-> <<>>, pages |-> 0, total |-> 0,
                   versions |-> [k \in Range(Kinds) |-> 0]]
  <2>1. PICK r \in Requests :
           /\ Asks(a, r) /\ r.type = "begin" /\ r.snap = issued + 1
           /\ issued + 1 \in Snapshots /\ issued' = issued + 1
           /\ session[a].phase = "idle" /\ inventory_state[a] # "unenrolled"
           /\ session' = [session EXCEPT ![a] = y]
    BY <1>0, <1>2, StartEffect
  <2>2. y \in Collecting
    <3>1. 0 \in 0..Len(Kinds)
      BY DEF SyncAssumption
    <3>2. [k \in Range(Kinds) |-> 0] \in [Range(Kinds) -> Nat]
      OBVIOUS
    <3> QED
      BY <2>1, <3>1, <3>2 DEF Collecting
  <2>3. /\ y.phase = "snapshot" /\ y.snap = issued + 1 /\ y.listed = 0 /\ y.buffer = <<>>
        /\ y.pages = 0
    OBVIOUS
  <2> HIDE DEF y
  <2>4. WellFormed(r)'
    BY <1>0, <2>1 DEF WellFormed
  <2>5. y.phase # "watch" => y.snap <= issued'
    BY <1>0, <2>1, <2>3
  <2> QED
    BY <2>1, <2>2, <2>3, <2>4, <2>5, AskKeeps
<1>3. ASSUME NEW a \in Agents, ListKind(a) PROVE SessionFacts' /\ Posted'
  <2> DEFINE x == session[a]
             k == Kinds[x.listed + 1]
             y == [phase |-> "snapshot", snap |-> x.snap, listed |-> x.listed + 1,
                   buffer |-> x.buffer \o SetToSeq(ListRows(k)), pages |-> x.pages,
                   total |-> x.total, versions |-> [x.versions EXCEPT ![k] = Now]]
  <2>1. /\ x.phase = "snapshot" /\ request[a] = None /\ x.listed < Len(Kinds)
        /\ session' = [session EXCEPT ![a] = y]
        /\ UNCHANGED <<ingestVars, log, net, issued, sequence, stored, request, answer>>
    BY <1>0, <1>3, ListEffect
  <2>2. x \in Collecting
    BY <1>0, <2>1, SessionFields DEF Collects
  <2>3. y \in Collecting
    <3>1. SetToSeq(ListRows(k)) \in Seq(Resource)
      BY <1>0, ListArrives
    <3>2. /\ x.snap \in Snapshots /\ x.listed \in 0..Len(Kinds) /\ x.buffer \in Seq(Resource)
          /\ x.pages \in Nat /\ x.total \in Nat /\ x.versions \in [Range(Kinds) -> Nat]
      BY <2>2, CollectingFields
    <3>3. x.listed + 1 \in 0..Len(Kinds)
      <4>1. Len(Kinds) \in Nat
        BY DEF SyncAssumption
      <4>2. x.listed < Len(Kinds)
        BY <2>1
      <4> HIDE DEF x
      <4> QED
        BY <3>2, <4>1, <4>2
    <3>4. [x.versions EXCEPT ![k] = Now] \in [Range(Kinds) -> Nat]
      BY <1>0, <3>2
    <3>5. x.buffer \o SetToSeq(ListRows(k)) \in Seq(Resource)
      BY <3>1, <3>2
    <3> HIDE DEF x, k
    <3> QED
      BY <3>2, <3>3, <3>4, <3>5 DEF Collecting
  <2>4. /\ x.snap <= issued /\ inventory_state[a] # "unenrolled"
    BY <1>0, <2>1 DEF Shape, Collects, Idle
  <2>5. y.phase = "snapshot" /\ y.snap = x.snap
    OBVIOUS
  <2>6. session' \in [Agents -> {Idle} \cup Collecting \cup Watching]
    <3> HIDE DEF y
    <3> QED
      BY <1>0, <2>1, <2>3
  <2>7. Shape(a)'
    <3>1. session'[a] = y /\ request'[a] = None /\ inventory_state'[a] # "unenrolled"
      BY <1>0, <2>1, <2>4, BaseTypes DEF ingestVars, agentVars
    <3> HIDE DEF y, x
    <3> QED
      BY <2>1, <2>4, <2>5, <3>1 DEF Shape, Collects, Watches
  <2>8. \A b \in Agents : b # a =>
           session'[b] = session[b] /\ request'[b] = request[b] /\ sequence'[b] = sequence[b]
    <3> HIDE DEF y
    <3> QED
      BY <1>0, <2>1
  <2> HIDE DEF y, x
  <2> QED
    BY <2>1, <2>6, <2>7, <2>8, QuietKeeps
<1>4. ASSUME NEW a \in Agents, PostPage(a) PROVE SessionFacts' /\ Posted'
  <2> DEFINE x == session[a]
  <2>1. PICK r \in Requests, n \in 1..Len(x.buffer) :
             /\ x.phase = "snapshot"
             /\ Asks(a, r) /\ r.type = "page" /\ r.snap = x.snap
             /\ r.number = x.pages + 1 /\ r.content = SubSeq(x.buffer, 1, n)
             /\ UNCHANGED issued
             /\ session' = [session EXCEPT ![a] =
                  [phase |-> "snapshot", snap |-> x.snap, listed |-> x.listed,
                   buffer |-> SubSeq(x.buffer, n + 1, Len(x.buffer)),
                   pages |-> x.pages + 1, total |-> x.total + n,
                   versions |-> x.versions]]
    BY <1>0, <1>4, PageEffect, Zenon
  <2> DEFINE y == [phase |-> "snapshot", snap |-> x.snap, listed |-> x.listed,
                   buffer |-> SubSeq(x.buffer, n + 1, Len(x.buffer)),
                   pages |-> x.pages + 1, total |-> x.total + n,
                   versions |-> x.versions]
  <2>2. x \in Collecting
    BY <1>0, <2>1, SessionFields DEF Collects
  <2>3. y \in Collecting
    <3>2. /\ x.snap \in Snapshots /\ x.listed \in 0..Len(Kinds) /\ x.buffer \in Seq(Resource)
          /\ x.pages \in Nat /\ x.total \in Nat /\ x.versions \in [Range(Kinds) -> Nat]
      BY <2>2, CollectingFields
    <3> HIDE DEF x
    <3>3. SubSeq(x.buffer, n + 1, Len(x.buffer)) \in Seq(Resource) /\ n \in Nat
      BY <3>2
    <3> QED
      BY <3>2, <3>3 DEF Collecting
  <2>4. x.snap <= issued /\ inventory_state[a] # "unenrolled"
    BY <1>0, <2>1 DEF Shape, Collects, Idle
  <2>5. y.phase = "snapshot" /\ y.snap = x.snap
    OBVIOUS
  <2>6. session' = [session EXCEPT ![a] = y]
    BY <2>1
  <2> HIDE DEF y, x
  <2>7. WellFormed(r)'
    BY <2>1, <2>4 DEF WellFormed
  <2> QED
    BY <2>1, <2>3, <2>4, <2>5, <2>6, <2>7, AskKeeps
<1>5. ASSUME NEW a \in Agents, PostComplete(a) PROVE SessionFacts' /\ Posted'
  <2> DEFINE x == session[a]
             y == [phase |-> "completing", snap |-> x.snap, listed |-> x.listed,
                   buffer |-> x.buffer, pages |-> x.pages, total |-> x.total,
                   versions |-> x.versions]
  <2>1. PICK r \in Requests :
             /\ x.phase = "snapshot"
             /\ Asks(a, r) /\ r.type = "complete" /\ r.snap = x.snap
             /\ UNCHANGED issued
             /\ session' = [session EXCEPT ![a] = y]
    BY <1>0, <1>5, CompleteEffect
  <2>2. x \in Collecting
    BY <1>0, <2>1, SessionFields DEF Collects
  <2>3. y \in Collecting
    <3> HIDE DEF x
    <3> QED
      BY <2>2, CollectingFields DEF Collecting
  <2>4. x.snap <= issued /\ inventory_state[a] # "unenrolled"
    BY <1>0, <2>1 DEF Shape, Collects, Idle
  <2>5. y.phase = "completing" /\ y.snap = x.snap
    OBVIOUS
  <2> HIDE DEF y, x
  <2>7. WellFormed(r)'
    BY <2>1, <2>4 DEF WellFormed
  <2> QED
    BY <2>1, <2>3, <2>4, <2>5, <2>7, AskKeeps
<1>6. ASSUME NEW a \in Agents, NEW k \in Range(Kinds), ReceiveChange(a, k)
      PROVE  SessionFacts' /\ Posted'
  <2> DEFINE x == session[a]
  <2>1. PICK i \in NextChange(a, k) :
             /\ x.phase = "watch"
             /\ session' = [session EXCEPT ![a] =
                  [phase |-> "watch", queue |-> Append(x.queue, WatchEvent(i)),
                   versions |-> [x.versions EXCEPT ![k] = i]]]
             /\ UNCHANGED <<ingestVars, log, net, issued, sequence, stored, request, answer>>
    BY <1>0, <1>6, ReceiveEffect
  <2> DEFINE y == [phase |-> "watch", queue |-> Append(x.queue, WatchEvent(i)),
                   versions |-> [x.versions EXCEPT ![k] = i]]
  <2>2. x \in Watching
    BY <1>0, <2>1, SessionFields DEF Watches
  <2>3. y \in Watching
    <3>1. x.queue \in Seq(Event) /\ x.versions \in [Range(Kinds) -> Nat]
      BY <2>2, WatchingFields
    <3>2. i \in 1..Now
      <4>1. i \in (x.versions[k] + 1)..Now /\ x.versions[k] \in Nat
        BY <3>1 DEF NextChange
      <4> HIDE DEF x
      <4> QED
        BY <1>0, <4>1
    <3>3. WatchEvent(i) \in Event
      <4>1. log \in Seq([uid : Uids, deleted : BOOLEAN]) /\ i \in 1..Len(log)
        BY <1>0, <3>2 DEF LogInv, Now
      <4>2. i \in Nat \ {0}
        BY <1>0, <3>2
      <4>3. log[i] \in [uid : Uids, deleted : BOOLEAN]
        BY <4>1, ElementOf
      <4> QED
        BY <4>2, <4>3 DEF WatchEvent, Event
    <3>4. [x.versions EXCEPT ![k] = i] \in [Range(Kinds) -> Nat] /\ Append(x.queue, WatchEvent(i)) \in Seq(Event)
      <4> HIDE DEF x
      <4> QED
        BY <1>0, <3>1, <3>2, <3>3
    <3> HIDE DEF x
    <3> QED
      BY <3>4 DEF Watching
  <2>4. inventory_state[a] # "unenrolled"
    BY <1>0, <2>1 DEF Shape, Idle
  <2>5. y.phase = "watch"
    OBVIOUS
  <2>6. session' = [session EXCEPT ![a] = y]
    BY <2>1
  <2> HIDE DEF y
  <2>7. Shape(a)'
    <3>1. session'[a] = y /\ request'[a] = request[a] /\ sequence'[a] = sequence[a]
          /\ inventory_state'[a] # "unenrolled"
      BY <1>0, <2>1, <2>4, <2>6 DEF ingestVars, agentVars
    <3>2. x.phase = "watch" /\ Shape(a)
      BY <1>0, <2>1
    <3> QED
      BY <2>5, <3>1, <3>2 DEF Shape, Collects, Watches
  <2>8. \A b \in Agents : b # a =>
           session'[b] = session[b] /\ request'[b] = request[b] /\ sequence'[b] = sequence[b]
    BY <1>0, <2>1, <2>6
  <2>9. session' \in [Agents -> {Idle} \cup Collecting \cup Watching]
    BY <1>0, <2>3, <2>6
  <2> HIDE DEF x
  <2> QED
    BY <2>1, <2>7, <2>8, <2>9, QuietKeeps
<1>7. ASSUME NEW a \in Agents, PostEvents(a) PROVE SessionFacts' /\ Posted'
  <2> DEFINE x == session[a]
  <2>1. PICK r \in Requests, n \in 1..Len(x.queue) :
             /\ x.phase = "watch"
             /\ Asks(a, r) /\ r.type = "events"
             /\ UNCHANGED issued
             /\ session' = [session EXCEPT ![a] =
                  [phase |-> "watch", queue |-> SubSeq(x.queue, n + 1, Len(x.queue)),
                   versions |-> x.versions]]
    BY <1>0, <1>7, EventsEffect
  <2> DEFINE y == [phase |-> "watch", queue |-> SubSeq(x.queue, n + 1, Len(x.queue)),
                   versions |-> x.versions]
  <2>2. x \in Watching
    BY <1>0, <2>1, SessionFields DEF Watches
  <2>3. y \in Watching
    <3>1. x.queue \in Seq(Event) /\ x.versions \in [Range(Kinds) -> Nat]
      BY <2>2, WatchingFields
    <3> HIDE DEF x
    <3>2. SubSeq(x.queue, n + 1, Len(x.queue)) \in Seq(Event)
      BY <3>1
    <3> QED
      BY <3>1, <3>2 DEF Watching
  <2>4. inventory_state[a] # "unenrolled"
    BY <1>0, <2>1 DEF Shape, Idle
  <2>5. y.phase = "watch"
    OBVIOUS
  <2>6. session' = [session EXCEPT ![a] = y]
    BY <2>1
  <2> HIDE DEF y, x
  <2>7. WellFormed(r)'
    BY <2>1 DEF WellFormed
  <2> QED
    BY <2>1, <2>3, <2>4, <2>5, <2>6, <2>7, AskKeeps
<1>8. ASSUME NEW a \in Agents, Proceeds(a) PROVE SessionFacts' /\ Posted'
  <2> DEFINE x == session[a]
             y == [phase |-> "watch", queue |-> <<>>, versions |-> x.versions]
  <2>1. /\ IF x.phase = "completing"
           THEN session' = [session EXCEPT ![a] = y]
           ELSE UNCHANGED session
        /\ request' = [request EXCEPT ![a] = None]
        /\ UNCHANGED <<ingestVars, log, net, issued, sequence>>
    BY <1>0, <1>8, ProceedEffect DEF Proceeds
  <2>2. x.phase = "completing" => y \in Watching
    <3>1. x.phase = "completing" => x.versions \in [Range(Kinds) -> Nat]
      BY <1>0, SessionFields, CollectingFields DEF Collects
    <3>2. <<>> \in Seq(Event)
      OBVIOUS
    <3> HIDE DEF x
    <3> QED
      BY <3>1, <3>2 DEF Watching
  <2>3. y.phase = "watch" /\ Shape(a)
    BY <1>0
  <2> HIDE DEF y
  <2>4. \A b \in Agents : b # a =>
           session'[b] = session[b] /\ request'[b] = request[b] /\ sequence'[b] = sequence[b]
    BY <1>0, <2>1
  <2>5. session' \in [Agents -> {Idle} \cup Collecting \cup Watching]
    BY <1>0, <2>1, <2>2
  <2>6. Shape(a)'
    <3>1. /\ request'[a] = None
          /\ session'[a] = IF x.phase = "completing" THEN y ELSE session[a]
          /\ inventory_state'[a] = inventory_state[a]
      BY <1>0, <2>1 DEF ingestVars, agentVars
    <3>2. Idle.phase = "idle"
      BY DEF Idle
    <3>3. CASE x.phase = "completing"
      <4>1. inventory_state'[a] # "unenrolled"
        BY <2>3, <3>1, <3>2, <3>3 DEF Shape
      <4> QED
        BY <2>3, <3>1, <3>3, <4>1 DEF Shape, Collects, Watches
    <3>4. CASE x.phase # "completing"
      BY <2>1, <2>3, <3>1, <3>4 DEF Shape, Collects, Watches
    <3> QED
      BY <3>3, <3>4
  <2> HIDE DEF x
  <2> QED
    BY <2>1, <2>4, <2>5, <2>6, QuietKeeps
<1>9. ASSUME NEW a \in Agents, Stops(a) PROVE SessionFacts' /\ Posted'
  <2>1. /\ session' = [session EXCEPT ![a] = Idle]
        /\ request' = [request EXCEPT ![a] = None]
        /\ sequence' = sequence \/ sequence' = [sequence EXCEPT ![a] = stored[a]]
        /\ UNCHANGED <<ingestVars, log, net, issued, stored>>
    BY <1>9 DEF Stops
  <2>2. \A b \in Agents : b # a =>
           session'[b] = session[b] /\ request'[b] = request[b] /\ sequence'[b] = sequence[b]
    BY <1>0, <2>1
  <2>3. Shape(a)'
    <3>1. session'[a] = Idle /\ request'[a] = None /\ Idle.phase = "idle"
      BY <1>0, <2>1 DEF Idle
    <3> QED
      BY <3>1 DEF Shape, Collects, Watches
  <2>4. session' \in [Agents -> {Idle} \cup Collecting \cup Watching]
    BY <1>0, <2>1
  <2> QED
    BY <2>1, <2>2, <2>3, <2>4, QuietKeeps
<1>10. ASSUME NEW m \in net, Delivers(m) PROVE SessionFacts' /\ Posted'
  BY <1>1, <1>10 DEF Delivers
<1>11. CASE Rests
  BY <1>1, <1>11 DEF Rests, agentSide
<1>12. ASSUME NEW a \in Agents, LoseAnswer(a) PROVE SessionFacts' /\ Posted'
  BY <1>1, <1>12 DEF LoseAnswer
<1>13. ASSUME NEW a \in Agents, Takeover(a) PROVE SessionFacts' /\ Posted'
  BY <1>1, <1>13 DEF Takeover, Other, agentSide
<1>14. ASSUME NEW u, NEW deleted, ClusterChange(u, deleted) PROVE SessionFacts' /\ Posted'
  BY <1>1, <1>14 DEF ClusterChange, agentSide
<1> QED
  BY <1>0, <1>2, <1>3, <1>4, <1>5, <1>6, <1>7, <1>8, <1>9, <1>10, <1>11, <1>12, <1>13, <1>14,
     StepKinds

----------------------------------------------------------------------------
(* The base invariant, and the stream refinement.                          *)

\* The log only grows, by the cluster's own changes.
LEMMA LogNext ==
    ASSUME BaseInv, [SyncNext]_syncVars
    PROVE  /\ Past /\ LogInv'
           /\ Now' \in Nat /\ Now <= Now'
<1>0. LogInv /\ AgentFacts /\ Now \in Nat
  BY BaseTypes DEF BaseInv, BeginInv
<1>1. CASE UNCHANGED log
  <2>1. LogInv'
    BY <1>0, <1>1 DEF LogInv, Now
  <2>2. Now' = Now
    BY <1>1 DEF Now
  <2> QED
    BY <1>0, <1>1, <2>1, <2>2, PastSame
<1>2. ASSUME NEW u \in Uids, NEW deleted \in BOOLEAN, ClusterChange(u, deleted)
      PROVE  Past /\ LogInv' /\ Now' \in Nat /\ Now <= Now'
  BY <1>0, <1>2, PastGrows
<1>3. ASSUME NEW a \in Agents,
             \/ Takeover(a)
             \/ StartCycle(a) \/ ListKind(a) \/ PostPage(a) \/ PostComplete(a)
             \/ \E k \in Range(Kinds) : ReceiveChange(a, k)
             \/ PostEvents(a) \/ Proceeds(a) \/ Stops(a) \/ LoseAnswer(a)
      PROVE  UNCHANGED log
  BY <1>3 DEF Takeover, Other, StartCycle, ListKind, PostPage, PostComplete, ReceiveChange,
              PostEvents, Proceeds, Proceed, Stops, LoseAnswer
<1>4. ASSUME NEW m \in net, Delivers(m) PROVE UNCHANGED log
  BY <1>4 DEF Delivers
<1>5. Rests => UNCHANGED log
  BY DEF Rests
<1> QED
  BY <1>0, <1>1, <1>2, <1>3, <1>4, <1>5, StepKinds

\* The base holds at the start.
LEMMA BaseInit == SyncInit => BaseInv
<1> SUFFICES ASSUME SyncInit PROVE BaseInv
  OBVIOUS
<1>1. LogInv
  BY DEF SyncInit, LogInv, Now
<1>2. BeginInv
  BY DEF SyncInit, IngestInit, BeginInv, AgentFacts, NetFacts, RowFacts, Statuses
<1>3. SessionFacts
  <2>1. session = [a \in Agents |-> Idle] /\ request = [a \in Agents |-> None]
        /\ Idle.phase = "idle"
    BY DEF SyncInit, Idle
  <2> QED
    BY <2>1 DEF SessionFacts, Shape, Collects, Watches
<1>4. Posted
  BY DEF SyncInit, Posted
<1>5. Stream!IngestInit
  BY SameInit DEF SyncInit
<1>6. Stream!TypeOK
  BY <1>5, Stream!TypeInit, StreamAssumptions
<1>7. Stream!WriterInv
  BY <1>5, <1>6, Stream!WriterInit, StreamAssumptions
<1>8. Stream!CountsInv
  BY <1>5, StreamAssumptions DEF Stream!CountsInv, Stream!IngestInit, Stream!Untouched, Stream!Staged
<1>9. Stream!StagingAgrees
  BY <1>5 DEF Stream!StagingAgrees, Stream!IngestInit
<1> QED
  BY <1>1, <1>2, <1>3, <1>4, <1>6, <1>7, <1>8, <1>9 DEF BaseInv

\* No step breaks the base.
LEMMA BaseNext == SyncAssumption /\ BaseInv /\ [SyncNext]_syncVars => BaseInv'
<1> SUFFICES ASSUME SyncAssumption, BaseInv, [SyncNext]_syncVars PROVE BaseInv'
  OBVIOUS
<1>0. /\ BeginInv /\ AgentFacts /\ Posted
      /\ Stream!TypeOK /\ Stream!WriterInv /\ Stream!CountsInv /\ Stream!StagingAgrees
  BY DEF BaseInv, BeginInv
<1>1. LogInv'
  BY LogNext
<1>2. BeginInv'
  BY <1>0, BeginNext
<1>3. SessionFacts' /\ Posted'
  BY SessionsNext
<1>4. [Stream!IngestNext]_(Stream!ingestVars)
  BY <1>0, StepIsStream
<1>5. Stream!TypeOK'
  BY <1>0, <1>4, Stream!TypeNext, StreamAssumptions
<1>6. Stream!WriterInv'
  BY <1>0, <1>4, Stream!WriterNext, StreamAssumptions
<1>7. Stream!CountsInv'
  BY <1>0, <1>4, Stream!CountsNext, StreamAssumptions
<1>8. Stream!StagingAgrees'
  BY <1>0, <1>4, Stream!StagingNext, StreamAssumptions
<1> QED
  BY <1>1, <1>2, <1>3, <1>5, <1>6, <1>7, <1>8 DEF BaseInv

\* The base is an invariant of the pipeline.
LEMMA BaseInvariant == SyncSpec => []BaseInv
<1>1. SyncAssumption
  BY SyncAssumption
<1> QED
  BY <1>1, BaseInit, BaseNext, PTL DEF SyncSpec

\* The pipeline implements the ingestion API under arbitrary streams: all
\* that is proved of it there holds here.
THEOREM PipelineIsAStream == SyncSpec => Stream!IngestSpec
<1>1. SyncInit => Stream!IngestInit
  BY SameInit DEF SyncInit
<1>2. BaseInv /\ [SyncNext]_syncVars => [Stream!IngestNext]_(Stream!ingestVars)
  BY StepIsStream DEF BaseInv, BeginInv
<1> QED
  BY <1>1, <1>2, BaseInvariant, PTL DEF SyncSpec, Stream!IngestSpec

----------------------------------------------------------------------------
(* The traffic of a snapshot, and the numbers of the messages.             *)

\* What a message does to the sequences and to the rows.
LEMMA HandledEffect ==
    ASSUME BaseInv, NEW m \in net, Handle(m)
    PROVE  /\ UNCHANGED active_agent
           /\ last_sequence' \in [Agents -> Nat]
           /\ \A b \in Agents : last_sequence[b] <= last_sequence'[b]
           /\ \A s \in Snapshots : status'[s] = "complete" =>
                 \/ status[s] = "complete"
                 \/ m.type = "complete" /\ m.snap = s /\ m.seq <= last_sequence'[m.agent]
           /\ \A s \in Snapshots : \A p \in pages'[s] :
                 \/ p \in pages[s]
                 \/ m.type = "page" /\ m.snap = s /\ m.number = p.number /\ m.content = p.content
<1>0. /\ m.seq \in Nat /\ last_sequence[m.agent] \in Nat /\ m.agent \in Agents
      /\ m.type \in {"begin", "page", "complete", "events"}
      /\ m.type # "events" => m.snap \in Snapshots
      /\ last_sequence \in [Agents -> Nat] /\ status \in [Snapshots -> Statuses]
      /\ pages \in [Snapshots -> SUBSET Page]
  BY BaseNet, BaseTypes
<1>1. ASSUME UNCHANGED <<active_agent, last_sequence, status, pages>>
      PROVE  /\ UNCHANGED active_agent
             /\ last_sequence' \in [Agents -> Nat]
             /\ \A b \in Agents : last_sequence[b] <= last_sequence'[b]
             /\ \A s \in Snapshots : status'[s] = "complete" => status[s] = "complete"
             /\ \A s \in Snapshots : \A p \in pages'[s] : p \in pages[s]
  BY <1>0, <1>1
<1>2. ASSUME NEW d, Refuse(m.agent, d) PROVE UNCHANGED <<active_agent, last_sequence, status, pages>>
  BY <1>2 DEF Refuse, writerVars, agentVars, snapshotVars
<1>3. UNCHANGED ingestVars => UNCHANGED <<active_agent, last_sequence, status, pages>>
  BY DEF ingestVars, writerVars, agentVars, snapshotVars
<1>4. ASSUME AdvanceSequence(m.agent, m.seq), last_sequence[m.agent] <= m.seq
      PROVE  /\ last_sequence' \in [Agents -> Nat] /\ last_sequence'[m.agent] = m.seq
             /\ \A b \in Agents : last_sequence[b] <= last_sequence'[b]
  BY <1>0, <1>4 DEF AdvanceSequence
<1>5. CASE m.type = "begin"
  <2>1. CASE UNCHANGED ingestVars
    BY <1>1, <1>3, <2>1
  <2>2. CASE OpenSnapshot(m.agent, m.snap, m.seq) /\ ~(m.seq <= last_sequence[m.agent])
    <3>1. UNCHANGED <<active_agent, pages>>
      BY <2>2 DEF OpenSnapshot
    <3>2. \A s \in Snapshots : status'[s] = "complete" => status[s] = "complete"
      BY <2>2 DEF OpenSnapshot, Supersede
    <3>3. AdvanceSequence(m.agent, m.seq) /\ last_sequence[m.agent] <= m.seq
      BY <1>0, <2>2 DEF OpenSnapshot
    <3> QED
      BY <1>4, <3>1, <3>2, <3>3
  <2> QED
    BY <1>5, <2>1, <2>2, BeginOutcome
<1>6. CASE m.type = "page"
  <2>1. CASE UNCHANGED ingestVars \/ \E d : Refuse(m.agent, d)
    BY <1>1, <1>2, <1>3, <2>1
  <2>2. CASE m.seq = last_sequence[m.agent] + 1 /\ KeepSequence(m.agent, m.seq)
    <3>1. UNCHANGED <<active_agent, status, pages>>
      BY <2>2 DEF KeepSequence, writerVars, snapshotVars
    <3>2. AdvanceSequence(m.agent, m.seq) /\ last_sequence[m.agent] <= m.seq
      BY <1>0, <2>2 DEF KeepSequence
    <3> QED
      BY <1>4, <3>1, <3>2
  <2>3. CASE /\ m.seq = last_sequence[m.agent] + 1
             /\ StorePage(m.agent, m.snap, m.number, m.content, m.seq)
    <3>1. UNCHANGED <<active_agent, status>>
      BY <2>3 DEF StorePage, writerVars
    <3>2. AdvanceSequence(m.agent, m.seq) /\ last_sequence[m.agent] <= m.seq
      BY <1>0, <2>3 DEF StorePage
    <3>3. pages' = [pages EXCEPT ![m.snap] =
                       @ \cup {[number |-> m.number, content |-> m.content]}]
      BY <2>3 DEF StorePage
    <3>4. ASSUME NEW s \in Snapshots, NEW p \in pages'[s]
          PROVE  \/ p \in pages[s]
                 \/ m.type = "page" /\ m.snap = s /\ m.number = p.number /\ m.content = p.content
      BY <1>0, <1>6, <3>3, <3>4
    <3> QED
      BY <1>4, <3>1, <3>2, <3>4
  <2> QED
    BY <1>0, <1>6, <2>1, <2>2, <2>3, PageOutcome
<1>7. CASE m.type = "complete"
  <2>1. CASE UNCHANGED ingestVars \/ \E d : Refuse(m.agent, d)
    BY <1>1, <1>2, <1>3, <2>1
  <2>2. CASE m.seq = last_sequence[m.agent] + 1 /\ ApplySnapshot(m.agent, m.snap, m.seq)
    <3>1. UNCHANGED <<active_agent, pages>>
      BY <2>2 DEF ApplySnapshot
    <3>2. AdvanceSequence(m.agent, m.seq) /\ last_sequence[m.agent] <= m.seq
      BY <1>0, <2>2 DEF ApplySnapshot
    <3>3. last_sequence'[m.agent] = m.seq
      BY <1>4, <3>2
    <3>4. status' = [status EXCEPT ![m.snap] = "complete"]
      BY <2>2 DEF ApplySnapshot
    <3>5. \A s \in Snapshots : status'[s] = "complete" =>
                 status[s] = "complete" \/ m.snap = s
      BY <1>0, <3>4
    <3> QED
      BY <1>0, <1>4, <1>7, <3>1, <3>2, <3>3, <3>5
  <2> QED
    BY <1>0, <1>7, <2>1, <2>2, CompleteOutcome
<1>8. CASE m.type = "events"
  <2>1. CASE UNCHANGED ingestVars \/ \E d : Refuse(m.agent, d)
    BY <1>1, <1>2, <1>3, <2>1
  <2>2. CASE m.seq = last_sequence[m.agent] + 1 /\ ApplyEvents(m.agent, m.events, m.seq)
    <3>1. UNCHANGED <<active_agent, status, pages>>
      BY <2>2 DEF ApplyEvents, writerVars, snapshotVars
    <3>2. AdvanceSequence(m.agent, m.seq) /\ last_sequence[m.agent] <= m.seq
      BY <1>0, <2>2 DEF ApplyEvents
    <3> QED
      BY <1>4, <3>1, <3>2
  <2> QED
    BY <1>0, <1>8, <2>1, <2>2, EventsOutcome
<1> QED
  BY <1>0, <1>5, <1>6, <1>7, <1>8

\* A snapshot that was begun stays begun, if it is not begun anew.
LEMMA BegunStays ==
    ASSUME BaseInv, last_sequence' \in [Agents -> Nat],
           \A b \in Agents : last_sequence[b] <= last_sequence'[b],
           NEW s, Begun(s), \A m \in net' \ net : m.type = "begin" => m.snap # s
    PROVE  Begun(s)'
<1> SUFFICES ASSUME NEW m \in net', m.type = "begin", m.snap = s
             PROVE  m.seq <= last_sequence'[m.agent]
  BY DEF Begun
<1>1. m \in net
  OBVIOUS
<1>2. m.seq <= last_sequence[m.agent]
  BY <1>1 DEF Begun
<1>3. m.agent \in Agents /\ m.seq \in Nat /\ last_sequence[m.agent] \in Nat
  BY <1>1, BaseNet
<1> QED
  BY <1>2, <1>3

\* A snapshot has one agent.
LEMMA OneAgent ==
    ASSUME BaseInv, NEW s, NEW a, NEW b, BeganBy(s, a), BeganBy(s, b)
    PROVE  a = b
BY DEF BaseInv, BeginInv, NetFacts, BeganBy

\* The sequences never fall, and nothing is in the rows that was not sent.
Forward ==
    /\ last_sequence' \in [Agents -> Nat]
    /\ \A b \in Agents : last_sequence[b] <= last_sequence'[b]
    /\ \A s \in Snapshots : status'[s] = "complete" =>
          \/ status[s] = "complete"
          \/ \E m \in net : m.type = "complete" /\ m.snap = s /\ m.seq <= last_sequence'[m.agent]
    /\ \A s \in Snapshots : \A p \in pages'[s] :
          \/ p \in pages[s]
          \/ \E m \in net : m.type = "page" /\ m.snap = s /\ m.number = p.number
                               /\ m.content = p.content

\* Every step moves the numbers and the rows forward only.
LEMMA ForwardNext ==
    ASSUME BaseInv, [SyncNext]_syncVars
    PROVE  Forward
<1>0. /\ last_sequence \in [Agents -> Nat] /\ AgentFacts
      /\ status \in [Snapshots -> Statuses] /\ pages \in [Snapshots -> SUBSET Page]
  BY BaseTypes DEF BaseInv, BeginInv
<1>1. ASSUME UNCHANGED <<last_sequence, status, pages>> PROVE Forward
  BY <1>0, <1>1 DEF Forward
<1>2. UNCHANGED ingestVars => UNCHANGED <<last_sequence, status, pages>>
  BY DEF ingestVars, agentVars, snapshotVars
<1>3. ASSUME NEW m \in net, Delivers(m) PROVE Forward
  BY <1>3, HandledEffect DEF Delivers, Forward
<1>4. CASE Rests
  <2>1. /\ UNCHANGED last_sequence
        /\ \A s \in Snapshots : status'[s] = "complete" => status[s] = "complete"
        /\ \A s \in Snapshots : pages'[s] \subseteq pages[s]
    BY <1>4, RestsEffect
  <2> QED
    BY <1>0, <2>1 DEF Forward
<1>5. ASSUME NEW a \in Agents, Takeover(a) PROVE UNCHANGED <<last_sequence, status, pages>>
  BY <1>5 DEF Takeover, Enroll, snapshotVars
<1>6. ASSUME NEW a \in Agents,
             \/ StartCycle(a) \/ ListKind(a) \/ PostPage(a) \/ PostComplete(a)
             \/ \E k \in Range(Kinds) : ReceiveChange(a, k)
             \/ PostEvents(a) \/ Proceeds(a) \/ Stops(a) \/ LoseAnswer(a)
      PROVE  UNCHANGED ingestVars
  BY <1>6 DEF StartCycle, ListKind, PostPage, PostComplete, ReceiveChange, PostEvents,
              Proceeds, Proceed, Stops, LoseAnswer
<1>7. ASSUME NEW u, NEW deleted, ClusterChange(u, deleted) PROVE UNCHANGED ingestVars
  BY <1>7 DEF ClusterChange
<1> QED
  BY <1>0, <1>1, <1>2, <1>3, <1>4, <1>5, <1>6, <1>7, StepKinds

\* Moving forward, the rows go on holding what was sent.
LEMMA RowsStaySent ==
    ASSUME BaseInv, RowsSent, Forward, net \subseteq net'
    PROVE  RowsSent'
<1>1. ASSUME NEW s \in Snapshots, status'[s] = "complete"
      PROVE  \E m \in net' : m.type = "complete" /\ m.snap = s /\ m.seq <= last_sequence'[m.agent]
  <2>1. CASE status[s] = "complete"
    <3>1. PICK m \in net : m.type = "complete" /\ m.snap = s /\ m.seq <= last_sequence[m.agent]
      BY <2>1 DEF RowsSent
    <3>2. m.seq <= last_sequence'[m.agent]
      BY <3>1, BaseNet DEF Forward
    <3> QED
      BY <3>1, <3>2
  <2> QED
    BY <1>1, <2>1 DEF Forward
<1>2. ASSUME NEW s \in Snapshots, NEW p \in pages'[s]
      PROVE  \E m \in net' : m.type = "page" /\ m.snap = s /\ m.number = p.number
                               /\ m.content = p.content
  BY <1>2 DEF Forward, RowsSent
<1> QED
  BY <1>1, <1>2 DEF RowsSent

\* What was sent of another agent's snapshot.
LEMMA SentStays ==
    ASSUME BaseInv, Forward, NEW b \in Agents, Collects(b), Sent(b),
           session'[b] = session[b], request'[b] = request[b], net \subseteq net',
           \A m \in net' \ net : m.type # "events" => m.snap # session[b].snap
    PROVE  Sent(b)'
<1> DEFINE s == session[b].snap
<1>1. BeganBy(s, b)'
  BY DEF Sent, BeganBy
<1>2. Begun(s) => Begun(s)'
  BY BegunStays DEF Forward
<1>3. ASSUME NEW m \in net', m.type = "page", m.snap = s PROVE m.number <= session[b].pages
  BY <1>3 DEF Sent
<1>4. ASSUME NEW m \in net', m.type = "complete", m.snap = s
      PROVE  session[b].phase = "completing" /\ m = request[b]
  BY <1>4 DEF Sent
<1> QED
  BY <1>1, <1>2, <1>3, <1>4 DEF Sent

\* A step that sends nothing keeps the traffic in order.
LEMMA TrafficQuiet ==
    ASSUME BaseInv, TrafficFacts, Forward, UNCHANGED net,
           \A b \in Agents : Collects(b)' =>
              (Sent(b)' \/ (session'[b] = session[b] /\ request'[b] = request[b]))
    PROVE  TrafficFacts'
<1>1. BegunFirst'
  <2> SUFFICES ASSUME NEW m \in net, m.type \in {"page", "complete"}
               PROVE  Begun(m.snap)' /\ BeganBy(m.snap, m.agent)'
    BY DEF BegunFirst
  <2>1. Begun(m.snap) /\ BeganBy(m.snap, m.agent)
    BY DEF TrafficFacts, BegunFirst
  <2> QED
    BY <2>1, BegunStays DEF Forward, BeganBy
<1>2. PagesAgree'
  BY DEF TrafficFacts, PagesAgree
<1>3. RowsSent'
  BY RowsStaySent DEF TrafficFacts
<1>4. ASSUME NEW b \in Agents, Collects(b)' PROVE Sent(b)'
  <2>1. CASE session'[b] = session[b] /\ request'[b] = request[b]
    <3>1. Collects(b) /\ Sent(b)
      BY <1>4, <2>1 DEF TrafficFacts, Collects
    <3> QED
      BY <2>1, <3>1, SentStays
  <2> QED
    BY <1>4, <2>1
<1> QED
  BY <1>1, <1>2, <1>3, <1>4 DEF TrafficFacts

\* A new message of an agent's own snapshot leaves the traffic in order.
LEMMA TrafficAsk ==
    ASSUME BaseInv, SyncAssumption, TrafficFacts, Forward, NEW a \in Agents, NEW m \in Requests,
           net' = net \cup {m}, m.agent = a,
           \A b \in Agents : b # a => session'[b] = session[b] /\ request'[b] = request[b],
           Collects(a)' => Sent(a)',
           \/ m.type = "begin" /\ m.snap = issued + 1
           \/ m.type = "events"
           \/ /\ m.type = "page" /\ Collects(a) /\ request[a] = None
              /\ session[a].phase = "snapshot"
              /\ m.snap = session[a].snap /\ m.number = session[a].pages + 1
           \/ /\ m.type = "complete" /\ Collects(a) /\ request[a] = None
              /\ session[a].phase = "snapshot"
              /\ m.snap = session[a].snap /\ m.totalPages = session[a].pages
    PROVE  TrafficFacts'
<1> DEFINE s == session[a].snap
<1>0. /\ m.type \in {"begin", "page", "complete", "events"} /\ issued \in Nat
      /\ Snapshots \subseteq Nat
  BY RequestShape DEF BaseInv, BeginInv, AgentFacts, SyncAssumption
<1>1. \A n \in net : n.type # "events" => n.snap \in Nat /\ n.snap <= issued
  BY <1>0, BaseNet
<1>2. m.type \in {"page", "complete"} =>
         /\ Sent(a) /\ Collects(a) /\ BeganBy(s, a) /\ Begun(s) /\ m.snap = s
         /\ \A n \in net : n.type = "complete" => n.snap # s
         /\ session[a].pages \in Nat
  <2>1. Collects(a) => Sent(a) /\ session[a].pages \in Nat
    BY SessionFields, CollectingFields DEF TrafficFacts, BaseInv
  <2> QED
    BY <2>1 DEF Sent
<1>3. \A n \in net' \ net : n = m
  OBVIOUS
<1>4. BegunFirst'
  <2> SUFFICES ASSUME NEW n \in net', n.type \in {"page", "complete"}
               PROVE  Begun(n.snap)' /\ BeganBy(n.snap, n.agent)'
    BY DEF BegunFirst
  <2>1. Begun(n.snap) /\ BeganBy(n.snap, n.agent) /\ n.snap \in Nat /\ n.snap <= issued
    <3>1. CASE n \in net
      BY <1>1, <3>1 DEF TrafficFacts, BegunFirst
    <3>2. CASE n = m
      <4>1. s <= issued /\ s \in Nat
        BY <1>0, <1>2, <3>2, SessionFields, CollectingFields DEF BaseInv, SessionFacts, Shape
      <4> QED
        BY <1>2, <3>2, <4>1
    <3> QED
      BY <1>3, <3>1, <3>2
  <2>2. \A x \in net' \ net : x.type = "begin" => x.snap # n.snap
    BY <1>0, <1>3, <2>1
  <2>3. Begun(n.snap)'
    BY <2>1, <2>2, BegunStays DEF Forward
  <2> QED
    BY <2>1, <2>3 DEF BeganBy
<1>5. PagesAgree'
  <2>1. ASSUME NEW x \in net', NEW y \in net', x.type = "page", y.type = "page",
               x.snap = y.snap, x.number = y.number
        PROVE  x.content = y.content
    <3>1. CASE x \in net /\ y \in net
      BY <2>1, <3>1 DEF TrafficFacts, PagesAgree
    <3>2. ASSUME NEW z \in net, z.type = "page", m.type = "page", z.snap = m.snap
          PROVE  z.number # m.number
      <4>1. z.number <= session[a].pages /\ session[a].pages \in Nat
        BY <1>2, <3>2 DEF Sent
      <4>2. m.number = session[a].pages + 1
        BY <3>2
      <4>3. z.number \in Nat
        BY <3>2, BaseNet
      <4> QED
        BY <4>1, <4>2, <4>3
    <3> QED
      BY <1>3, <2>1, <3>1, <3>2
  <2>2. ASSUME NEW x \in net', NEW y \in net', x.type = "page", y.type = "complete",
               x.snap = y.snap
        PROVE  x.number <= y.totalPages
    <3>1. CASE x \in net /\ y \in net
      BY <2>2, <3>1 DEF TrafficFacts, PagesAgree
    <3>2. CASE x = m /\ y \in net
      BY <1>2, <2>2, <3>2
    <3>3. CASE y = m /\ x \in net
      BY <1>2, <2>2, <3>3 DEF Sent
    <3> QED
      BY <1>3, <2>2, <3>1, <3>2, <3>3
  <2> QED
    BY <2>1, <2>2 DEF PagesAgree
<1>6. RowsSent'
  BY RowsStaySent DEF TrafficFacts
<1>7. ASSUME NEW b \in Agents, Collects(b)' PROVE Sent(b)'
  <2>1. CASE b # a
    <3>1. session'[b] = session[b] /\ request'[b] = request[b]
      BY <2>1
    <3>2. Collects(b) /\ Sent(b)
      BY <1>7, <3>1 DEF TrafficFacts, Collects
    <3>3. session[b].snap \in Nat /\ session[b].snap <= issued
      BY <1>0, <3>2, SessionFields, CollectingFields DEF BaseInv, SessionFacts, Shape
    <3>4. m.type # "events" => m.snap # session[b].snap
      <4>1. m.type \in {"page", "complete"} => m.snap # session[b].snap
        BY <1>2, <2>1, <3>2, OneAgent DEF Sent
      <4> QED
        BY <1>0, <3>3, <4>1
    <3> QED
      BY <1>3, <3>1, <3>2, <3>4, SentStays
  <2> QED
    BY <1>7, <2>1
<1> QED
  BY <1>4, <1>5, <1>6, <1>7 DEF TrafficFacts

\* A request that is accepted has its number behind it: the API took it now,
\* or had taken it before.
LEMMA AcceptedIsPassed ==
    ASSUME BaseInv, TrafficFacts, NEW a \in Agents, request[a] \in net,
           Handle(request[a]), Accepts(request[a])
    PROVE  request[a].seq <= last_sequence'[a]
<1> DEFINE m == request[a]
<1>0. /\ m.agent = a /\ m.seq \in Nat /\ last_sequence[a] \in Nat /\ m \in net
      /\ m.type \in {"begin", "page", "complete", "events"}
      /\ m.type # "events" => m.snap \in Snapshots
      /\ last_sequence \in [Agents -> Nat]
      /\ m # None => Shape(a)
  <2>1. m \in net /\ SessionFacts
    BY DEF BaseInv
  <2>2. m # None => m.agent = a
    BY <2>1 DEF SessionFacts, Shape
  <2>3. WellFormed(m)
    BY <2>1, BaseNet
  <2>4. m # None
    BY <2>3, NoRequest, SyncAssumption DEF WellFormed
  <2> QED
    BY <2>1, <2>2, <2>4, BaseNet, BaseTypes DEF SessionFacts
<1>1. m # None /\ Shape(a)
  BY <1>0, NoRequest, SyncAssumption, BaseNet DEF WellFormed
<1>2. UNCHANGED ingestVars => UNCHANGED last_sequence
  BY DEF ingestVars, agentVars
<1>3. AdvanceSequence(m.agent, m.seq) => last_sequence'[a] = m.seq
  BY <1>0 DEF AdvanceSequence
<1>4. CASE m.type = "begin"
  <2>1. /\ status \in [Snapshots -> Statuses]
        /\ status[m.snap] # "absent" => m.seq <= last_sequence[a]
    BY <1>0, <1>4 DEF BaseInv, BeginInv, RowFacts
  <2>2. CASE UNCHANGED ingestVars /\ m.seq <= last_sequence[a]
    BY <1>2, <2>2
  <2>3. CASE OpenSnapshot(m.agent, m.snap, m.seq)
    <3>1. AdvanceSequence(m.agent, m.seq)
      BY <2>3 DEF OpenSnapshot
    <3> QED
      BY <1>0, <1>3, <3>1
  <2> QED
    BY <1>0, <1>4, <2>1, <2>2, <2>3, BeginOutcome
<1>5. ASSUME m.type \in {"page", "complete"}, status[m.snap] = "complete"
      PROVE  m.seq <= last_sequence[a]
  <2>1. PICK n \in net : n.type = "complete" /\ n.snap = m.snap /\ n.seq <= last_sequence[n.agent]
    BY <1>0, <1>5 DEF TrafficFacts, RowsSent
  <2>2. session[a].phase \in {"snapshot", "completing"}
    BY <1>1, <1>5, SessionFields DEF Shape, Watches, BaseInv
  <2>3. m.snap = session[a].snap
    BY <1>1, <2>2 DEF Shape
  <2>4. Sent(a)
    BY <2>2 DEF TrafficFacts, Collects
  <2>5. n = m
    BY <2>1, <2>3, <2>4 DEF Sent
  <2> QED
    BY <1>0, <2>1, <2>5
<1>6. CASE m.type = "page"
  <2>1. CASE UNCHANGED ingestVars /\ m.seq <= last_sequence[a]
    BY <1>2, <2>1
  <2>2. CASE /\ m.seq = last_sequence[m.agent] + 1
             /\ \/ KeepSequence(m.agent, m.seq)
                \/ StorePage(m.agent, m.snap, m.number, m.content, m.seq)
    <3>1. AdvanceSequence(m.agent, m.seq)
      BY <2>2 DEF KeepSequence, StorePage
    <3> QED
      BY <1>0, <1>3, <3>1
  <2> QED
    BY <1>0, <1>5, <1>6, <2>1, <2>2, PageOutcome
<1>7. CASE m.type = "complete"
  <2>1. CASE UNCHANGED ingestVars /\ m.seq <= last_sequence[a]
    BY <1>2, <2>1
  <2>2. CASE /\ m.seq = last_sequence[m.agent] + 1
             /\ ApplySnapshot(m.agent, m.snap, m.seq)
    <3>1. AdvanceSequence(m.agent, m.seq)
      BY <2>2 DEF ApplySnapshot
    <3> QED
      BY <1>0, <1>3, <3>1
  <2> QED
    BY <1>0, <1>5, <1>7, <2>1, <2>2, CompleteOutcome
<1>8. CASE m.type = "events"
  <2>1. CASE UNCHANGED ingestVars /\ m.seq <= last_sequence[a]
    BY <1>2, <2>1
  <2>2. CASE /\ m.seq = last_sequence[m.agent] + 1
             /\ ApplyEvents(m.agent, m.events, m.seq)
    <3>1. AdvanceSequence(m.agent, m.seq)
      BY <2>2 DEF ApplyEvents
    <3> QED
      BY <1>0, <1>3, <3>1
  <2> QED
    BY <1>0, <1>8, <2>1, <2>2, EventsOutcome
<1> QED
  BY <1>0, <1>4, <1>6, <1>7, <1>8

\* The numbers of an agent that does nothing.
LEMMA NumbersStay ==
    ASSUME BaseInv, Forward, NEW b \in Agents, Numbers(b),
           UNCHANGED <<stored[b], sequence[b], session[b], request[b]>>,
           answer'[b] = answer[b] \/ answer'[b] # "ok"
                \/ request[b].seq <= last_sequence'[b],
           answer[b] = "ok" => request[b] \in net
    PROVE  Numbers(b)'
<1>1. /\ stored[b] \in Nat /\ sequence[b] \in Nat /\ last_sequence[b] \in Nat
      /\ last_sequence'[b] \in Nat /\ last_sequence[b] <= last_sequence'[b]
  BY BaseTypes DEF BaseInv, BeginInv, AgentFacts, Forward
<1>2. answer[b] = "ok" => request[b].seq \in Nat
  BY BaseNet
<1> QED
  BY <1>1, <1>2 DEF Numbers

\* A step that sends nothing keeps the numbers in order.
LEMMA SequenceQuiet ==
    ASSUME BaseInv, SequenceFacts, Forward, UNCHANGED net,
           \A b \in Agents : Numbers(b)'
    PROVE  SequenceFacts'
<1> SUFFICES ASSUME NEW m \in net, m.type # "begin"
             PROVE  m.seq <= last_sequence'[m.agent] + 1
  BY DEF SequenceFacts
<1>1. m.seq <= last_sequence[m.agent] + 1
  BY DEF SequenceFacts
<1>2. /\ m.agent \in Agents /\ m.seq \in Nat /\ last_sequence[m.agent] \in Nat
  BY BaseNet
<1>3. last_sequence'[m.agent] \in Nat /\ last_sequence[m.agent] <= last_sequence'[m.agent]
  BY <1>2 DEF Forward
<1> QED
  BY <1>1, <1>2, <1>3

\* A request under the next number keeps the numbers in order.
LEMMA SequenceAsk ==
    ASSUME BaseInv, SyncAssumption, SequenceFacts, Forward, NEW a \in Agents, NEW m \in Requests,
           Asks(a, m), \A b \in Agents : b # a => session'[b] = session[b],
           m.type = "begin" \/ session[a].phase # "idle"
    PROVE  SequenceFacts'
<1>0. /\ sequence \in [Agents -> Nat] /\ stored \in [Agents -> Nat]
      /\ request \in [Agents -> net \cup {None}]
      /\ answer \in [Agents -> {"none", "ok", "failed"}]
      /\ last_sequence \in [Agents -> Nat]
      /\ \A b \in Agents : answer[b] # "none" => request[b] # None
  BY BaseTypes DEF BaseInv, BeginInv, AgentFacts
<1>1. UNCHANGED last_sequence
  BY DEF Asks, ingestVars, agentVars
<1>2. ASSUME NEW b \in Agents PROVE Numbers(b)'
  <2>1. Numbers(b)
    BY DEF SequenceFacts
  <2>2. CASE b # a
    <3>1. UNCHANGED <<stored[b], sequence[b], session[b], request[b], answer[b]>>
      BY <1>0, <2>2 DEF Asks
    <3> QED
      BY <1>0, <2>1, <3>1, NumbersStay
  <2>3. CASE b = a
    <3>1. /\ stored'[a] = stored[a] /\ sequence'[a] = sequence[a] + 1
          /\ answer'[a] = "none" /\ request'[a] # None
      BY <1>0, NoRequest DEF Asks
    <3> QED
      BY <1>0, <1>1, <2>1, <2>3, <3>1 DEF Numbers
  <2> QED
    BY <2>2, <2>3
<1>3. ASSUME NEW n \in net', n.type # "begin" PROVE n.seq <= last_sequence'[n.agent] + 1
  <2>1. CASE n \in net
    BY <1>1, <1>3, <2>1 DEF SequenceFacts
  <2>2. CASE n = m
    <3>1. sequence[a] <= last_sequence[a] /\ m.agent = a /\ m.seq = sequence[a] + 1
      BY <1>3, <2>2 DEF SequenceFacts, Numbers, Asks
    <3> QED
      BY <1>0, <1>1, <2>2, <3>1
  <2> QED
    BY <2>1, <2>2 DEF Asks
<1> QED
  BY <1>2, <1>3 DEF SequenceFacts

\* A begin that was answered stays answered while no other begin is sent.
LEMMA BeginsStay ==
    ASSUME BaseInv, Forward, net \subseteq net',
           \A m \in net' \ net : m.type # "begin",
           NEW s, NEW a, Begun(s), BeganBy(s, a)
    PROVE  Begun(s)' /\ BeganBy(s, a)'
<1>1. Begun(s)'
  BY BegunStays DEF Forward
<1>2. BeganBy(s, a)'
  BY DEF BeganBy
<1> QED
  BY <1>1, <1>2

\* The traffic stays in order, and so do the numbers.
LEMMA TrafficNext ==
    ASSUME SyncAssumption, BaseInv, TrafficFacts, SequenceFacts, [SyncNext]_syncVars
    PROVE  TrafficFacts' /\ SequenceFacts'
<1>0. /\ SessionFacts /\ AgentFacts /\ Forward /\ issued \in Nat
      /\ session \in [Agents -> {Idle} \cup Collecting \cup Watching]
      /\ sequence \in [Agents -> Nat] /\ stored \in [Agents -> Nat]
      /\ request \in [Agents -> net \cup {None}]
      /\ answer \in [Agents -> {"none", "ok", "failed"}]
      /\ last_sequence \in [Agents -> Nat]
      /\ \A b \in Agents : answer[b] # "none" => request[b] # None
      /\ \A b \in Agents : Numbers(b) /\ Shape(b)
  BY BaseTypes, ForwardNext DEF BaseInv, BeginInv, AgentFacts, SessionFacts, SequenceFacts
<1>1. CASE UNCHANGED <<net, session, request, sequence, stored, answer>>
  <2>1. \A b \in Agents : Numbers(b)'
    BY <1>0, <1>1, NumbersStay
  <2> QED
    BY <1>0, <1>1, <2>1, TrafficQuiet, SequenceQuiet
<1>2. ASSUME NEW a \in Agents, StartCycle(a) PROVE TrafficFacts' /\ SequenceFacts'
  <2> DEFINE y == [phase |-> "snapshot", snap |-> issued + 1, listed |-> 0,
                   buffer |-> <<>>, pages |-> 0, total |-> 0,
                   versions |-> [k \in Range(Kinds) |-> 0]]
  <2>1. PICK r \in Requests :
           /\ Asks(a, r) /\ r.type = "begin" /\ r.snap = issued + 1
           /\ session' = [session EXCEPT ![a] = y]
    BY <1>0, <1>2, StartEffect
  <2>2. y.snap = issued + 1 /\ y.pages = 0
    OBVIOUS
  <2> HIDE DEF y
  <2>3. /\ net' = net \cup {r} /\ r.agent = a /\ request'[a] = r /\ session'[a] = y
        /\ \A b \in Agents : b # a => session'[b] = session[b] /\ request'[b] = request[b]
    BY <1>0, <2>1 DEF Asks
  <2>4. Sent(a)'
    <3>1. \A n \in net' : n.type \in {"page", "complete"} => n.snap # issued + 1
      <4>1. \A n \in net : n.type # "events" => n.snap \in Nat /\ n.snap <= issued
        <5>1. Snapshots \subseteq Nat
          BY DEF SyncAssumption
        <5>2. \A n \in net : n.type # "events" => n.snap \in Snapshots /\ n.snap <= issued
          BY BaseNet
        <5> QED
          BY <5>1, <5>2
      <4>2. \A n \in net : n.type \in {"page", "complete"} => n.snap # issued + 1
        <5>1. issued \in Nat
          BY <1>0
        <5>2. \A i \in Nat : i <= issued => i # issued + 1
          BY <5>1
        <5> QED
          BY <4>1, <5>2
      <4>3. r.type \notin {"page", "complete"}
        BY <2>1
      <4> QED
        BY <2>3, <4>2, <4>3
    <3>2. r # None
      BY NoRequest
    <3> QED
      BY <2>1, <2>2, <2>3, <3>1, <3>2 DEF Sent, BeganBy
  <2>5. TrafficFacts'
    BY <1>0, <2>1, <2>3, <2>4, TrafficAsk
  <2> QED
    BY <1>0, <2>1, <2>3, <2>5, SequenceAsk
<1>3. ASSUME NEW a \in Agents, ListKind(a) PROVE TrafficFacts' /\ SequenceFacts'
  <2> DEFINE x == session[a]
             k == Kinds[x.listed + 1]
             y == [phase |-> "snapshot", snap |-> x.snap, listed |-> x.listed + 1,
                   buffer |-> x.buffer \o SetToSeq(ListRows(k)), pages |-> x.pages,
                   total |-> x.total, versions |-> [x.versions EXCEPT ![k] = Now]]
  <2>1. /\ x.phase = "snapshot" /\ request[a] = None
        /\ session' = [session EXCEPT ![a] = y]
        /\ UNCHANGED <<ingestVars, log, net, issued, sequence, stored, request, answer>>
    BY <1>0, <1>3, ListEffect
  <2>2. y.snap = x.snap /\ y.pages = x.pages /\ y.phase = "snapshot"
    OBVIOUS
  <2> HIDE DEF y, x
  <2>3. session'[a] = y /\ \A b \in Agents : b # a => session'[b] = session[b]
    BY <1>0, <2>1
  <2>4. UNCHANGED last_sequence
    BY <2>1 DEF ingestVars, agentVars
  <2>5. Sent(a)'
    <3>1. Sent(a)
      BY <2>1 DEF TrafficFacts, Collects, x
    <3> QED
      BY <2>1, <2>2, <2>3, <2>4, <3>1 DEF Sent, BeganBy, Begun, x
  <2>6. \A b \in Agents : Numbers(b)'
    <3>1. Numbers(a)'
      BY <1>0, <2>1, <2>2, <2>3, <2>4 DEF Numbers, x
    <3>2. ASSUME NEW b \in Agents, b # a PROVE Numbers(b)'
      BY <1>0, <2>1, <2>3, <3>2, NumbersStay
    <3> QED
      BY <3>1, <3>2
  <2> QED
    BY <1>0, <2>1, <2>3, <2>5, <2>6, TrafficQuiet, SequenceQuiet
<1>4. ASSUME NEW a \in Agents, PostPage(a) PROVE TrafficFacts' /\ SequenceFacts'
  <2> DEFINE x == session[a]
  <2>1. PICK r \in Requests, n \in 1..Len(x.buffer) :
             /\ x.phase = "snapshot"
             /\ Asks(a, r) /\ r.type = "page" /\ r.snap = x.snap
             /\ r.number = x.pages + 1 /\ r.content = SubSeq(x.buffer, 1, n)
             /\ UNCHANGED issued
             /\ session' = [session EXCEPT ![a] =
                  [phase |-> "snapshot", snap |-> x.snap, listed |-> x.listed,
                   buffer |-> SubSeq(x.buffer, n + 1, Len(x.buffer)),
                   pages |-> x.pages + 1, total |-> x.total + n,
                   versions |-> x.versions]]
    BY <1>0, <1>4, PageEffect, Zenon
  <2> DEFINE y == [phase |-> "snapshot", snap |-> x.snap, listed |-> x.listed,
                   buffer |-> SubSeq(x.buffer, n + 1, Len(x.buffer)),
                   pages |-> x.pages + 1, total |-> x.total + n,
                   versions |-> x.versions]
  <2>2. y.snap = x.snap /\ y.pages = x.pages + 1 /\ y.phase = "snapshot"
    OBVIOUS
  <2>3. session' = [session EXCEPT ![a] = y]
    BY <2>1
  <2> HIDE DEF y, x
  <2>4. /\ net' = net \cup {r} /\ r.agent = a /\ request'[a] = r /\ session'[a] = y
        /\ request[a] = None /\ UNCHANGED last_sequence
        /\ \A b \in Agents : b # a => session'[b] = session[b] /\ request'[b] = request[b]
    BY <1>0, <2>1, <2>3 DEF Asks, ingestVars, agentVars
  <2>5. Collects(a) /\ Sent(a) /\ x.pages \in Nat
    BY <1>0, <2>1, SessionFields, CollectingFields DEF TrafficFacts, Collects, x
  <2>6. Sent(a)'
    <3>1. ASSUME NEW z \in net', z.type = "page", z.snap = x.snap PROVE z.number <= y.pages
      <4>1. CASE z \in net
        <5>1. z.number <= x.pages /\ z.number \in Nat
          BY <2>5, <3>1, <4>1, BaseNet DEF Sent, x
        <5> QED
          BY <2>2, <2>5, <5>1
      <4>2. CASE z = r
        BY <2>1, <2>2, <2>5, <4>2
      <4> QED
        BY <2>4, <4>1, <4>2
    <3>2. ASSUME NEW z \in net', z.type = "complete", z.snap = x.snap PROVE FALSE
      BY <2>1, <2>4, <2>5, <3>2 DEF Sent, x
    <3>4. session'[a].snap = x.snap /\ session'[a].pages = y.pages
      BY <2>2, <2>4
    <3>5. BeganBy(session[a].snap, a)' /\ Begun(session[a].snap)'
      <4>1. \A z \in net' \ net : z.type # "begin"
        BY <2>1, <2>4
      <4>2. net \subseteq net'
        BY <2>4
      <4>3. PICK s : s = x.snap
        OBVIOUS
      <4>4. Begun(s) /\ BeganBy(s, a)
        BY <2>4, <2>5, <4>3 DEF Sent, x
      <4>5. Begun(s)' /\ BeganBy(s, a)'
        BY <1>0, <4>1, <4>2, <4>4, BeginsStay
      <4> QED
        BY <3>4, <4>3, <4>5 DEF Begun, BeganBy
    <3>6. \A z \in net' : z.type = "page" /\ z.snap = session'[a].snap => z.number <= session'[a].pages
      BY <2>2, <3>1, <3>4
    <3>7. \A z \in net' : z.type = "complete" /\ z.snap = session'[a].snap =>
             session'[a].phase = "completing" /\ z = request'[a]
      BY <2>2, <2>4, <3>2, <3>4
    <3> HIDE DEF x, y
    <3> QED
      BY <3>5, <3>6, <3>7 DEF Sent
  <2>7. TrafficFacts'
    BY <1>0, <2>1, <2>4, <2>5, <2>6, TrafficAsk DEF x
  <2> QED
    BY <1>0, <2>1, <2>4, <2>7, SequenceAsk DEF x
<1>5. ASSUME NEW a \in Agents, PostComplete(a) PROVE TrafficFacts' /\ SequenceFacts'
  <2> DEFINE x == session[a]
             y == [phase |-> "completing", snap |-> x.snap, listed |-> x.listed,
                   buffer |-> x.buffer, pages |-> x.pages, total |-> x.total,
                   versions |-> x.versions]
  <2>1. PICK r \in Requests :
             /\ x.phase = "snapshot"
             /\ Asks(a, r) /\ r.type = "complete" /\ r.snap = x.snap
             /\ r.totalPages = x.pages
             /\ UNCHANGED issued
             /\ session' = [session EXCEPT ![a] = y]
    BY <1>0, <1>5, CompleteEffect
  <2>2. y.snap = x.snap /\ y.pages = x.pages /\ y.phase = "completing"
    OBVIOUS
  <2> HIDE DEF y, x
  <2>4. /\ net' = net \cup {r} /\ r.agent = a /\ request'[a] = r /\ session'[a] = y
        /\ request[a] = None /\ UNCHANGED last_sequence
        /\ \A b \in Agents : b # a => session'[b] = session[b] /\ request'[b] = request[b]
    BY <1>0, <2>1 DEF Asks, ingestVars, agentVars
  <2>5. Collects(a) /\ Sent(a)
    BY <1>0, <2>1 DEF TrafficFacts, Collects, x
  <2>6. Sent(a)'
    <3>1. ASSUME NEW z \in net', z.type = "page", z.snap = x.snap PROVE z.number <= y.pages
      BY <2>1, <2>2, <2>4, <2>5, <3>1 DEF Sent, x
    <3>2. ASSUME NEW z \in net', z.type = "complete", z.snap = x.snap PROVE z = r
      BY <2>1, <2>4, <2>5, <3>2 DEF Sent, x
    <3>4. session'[a].snap = x.snap /\ session'[a].pages = y.pages
      BY <2>2, <2>4
    <3>5. BeganBy(session[a].snap, a)' /\ Begun(session[a].snap)'
      <4>1. \A z \in net' \ net : z.type # "begin"
        BY <2>1, <2>4
      <4>2. net \subseteq net'
        BY <2>4
      <4>3. PICK s : s = x.snap
        OBVIOUS
      <4>4. Begun(s) /\ BeganBy(s, a)
        BY <2>4, <2>5, <4>3 DEF Sent, x
      <4>5. Begun(s)' /\ BeganBy(s, a)'
        BY <1>0, <4>1, <4>2, <4>4, BeginsStay
      <4> QED
        BY <3>4, <4>3, <4>5 DEF Begun, BeganBy
    <3>6. \A z \in net' : z.type = "page" /\ z.snap = session'[a].snap => z.number <= session'[a].pages
      BY <2>2, <3>1, <3>4
    <3>7. \A z \in net' : z.type = "complete" /\ z.snap = session'[a].snap =>
             session'[a].phase = "completing" /\ z = request'[a]
      BY <2>2, <2>4, <3>2, <3>4
    <3> HIDE DEF x, y
    <3> QED
      BY <3>5, <3>6, <3>7 DEF Sent
  <2>7. TrafficFacts'
    BY <1>0, <2>1, <2>4, <2>5, <2>6, TrafficAsk DEF x
  <2> QED
    BY <1>0, <2>1, <2>4, <2>7, SequenceAsk DEF x
<1>6. ASSUME NEW a \in Agents, NEW k \in Range(Kinds), ReceiveChange(a, k)
      PROVE  TrafficFacts' /\ SequenceFacts'
  <2> DEFINE x == session[a]
  <2>1. PICK i \in NextChange(a, k) :
             /\ x.phase = "watch"
             /\ session' = [session EXCEPT ![a] =
                  [phase |-> "watch", queue |-> Append(x.queue, WatchEvent(i)),
                   versions |-> [x.versions EXCEPT ![k] = i]]]
             /\ UNCHANGED <<ingestVars, log, net, issued, sequence, stored, request, answer>>
    BY <1>0, <1>6, ReceiveEffect
  <2>2. session'[a].phase = "watch" /\ \A b \in Agents : b # a => session'[b] = session[b]
    BY <1>0, <2>1
  <2>3. UNCHANGED last_sequence
    BY <2>1 DEF ingestVars, agentVars
  <2>4. \A b \in Agents : Numbers(b)'
    <3>1. Numbers(a)'
      BY <1>0, <2>1, <2>2, <2>3 DEF Numbers, x
    <3>2. ASSUME NEW b \in Agents, b # a PROVE Numbers(b)'
      BY <1>0, <2>1, <2>2, <3>2, NumbersStay
    <3> QED
      BY <3>1, <3>2
  <2>5. ~Collects(a)'
    BY <2>2 DEF Collects
  <2> QED
    BY <1>0, <2>1, <2>2, <2>4, <2>5, TrafficQuiet, SequenceQuiet
<1>7. ASSUME NEW a \in Agents, PostEvents(a) PROVE TrafficFacts' /\ SequenceFacts'
  <2> DEFINE x == session[a]
  <2>1. PICK r \in Requests, n \in 1..Len(x.queue) :
             /\ x.phase = "watch"
             /\ Asks(a, r) /\ r.type = "events" /\ r.events = SubSeq(x.queue, 1, n)
             /\ UNCHANGED issued
             /\ session' = [session EXCEPT ![a] =
                  [phase |-> "watch", queue |-> SubSeq(x.queue, n + 1, Len(x.queue)),
                   versions |-> x.versions]]
    BY <1>0, <1>7, EventsEffect, Zenon
  <2>2. session'[a].phase = "watch" /\ \A b \in Agents : b # a => session'[b] = session[b]
    BY <1>0, <2>1
  <2>3. /\ net' = net \cup {r} /\ r.agent = a
        /\ \A b \in Agents : b # a => session'[b] = session[b] /\ request'[b] = request[b]
    BY <1>0, <2>1, <2>2 DEF Asks
  <2>4. ~Collects(a)'
    BY <2>2 DEF Collects
  <2>5. TrafficFacts'
    BY <1>0, <2>1, <2>3, <2>4, TrafficAsk
  <2> QED
    BY <1>0, <2>1, <2>3, <2>5, SequenceAsk
<1>8. ASSUME NEW a \in Agents, Proceeds(a) PROVE TrafficFacts' /\ SequenceFacts'
  <2> DEFINE x == session[a]
             y == [phase |-> "watch", queue |-> <<>>, versions |-> x.versions]
  <2>1. /\ answer[a] = "ok"
        /\ IF x.phase = "completing"
           THEN session' = [session EXCEPT ![a] = y]
           ELSE UNCHANGED session
        /\ request' = [request EXCEPT ![a] = None]
        /\ answer' = [answer EXCEPT ![a] = "none"]
        /\ UNCHANGED <<ingestVars, log, net, issued, sequence>>
        /\ stored' = stored \/ stored' = [stored EXCEPT ![a] = request[a].seq]
    BY <1>0, <1>8, ProceedEffect DEF Proceeds
  <2>2. y.phase = "watch"
    OBVIOUS
  <2> HIDE DEF y, x
  <2>3. /\ request'[a] = None /\ session'[a] = IF x.phase = "completing" THEN y ELSE x
        /\ \A b \in Agents : b # a => /\ session'[b] = session[b] /\ request'[b] = request[b]
                                     /\ stored'[b] = stored[b] /\ answer'[b] = answer[b]
    BY <1>0, <2>1 DEF x
  <2>4. UNCHANGED last_sequence
    BY <2>1 DEF ingestVars, agentVars
  <2>5. /\ request[a] # None /\ request[a] \in net
        /\ request[a].agent = a /\ request[a].seq = sequence[a]
        /\ request[a].seq <= last_sequence[a]
    BY <1>0, <2>1 DEF Numbers, Shape
  <2>6. Collects(a)' => Sent(a)'
    <3> SUFFICES ASSUME Collects(a)' PROVE Sent(a)'
      OBVIOUS
    <3>1. session'[a] = x /\ x.phase = "snapshot"
      BY <2>2, <2>3 DEF Collects
    <3>2. Sent(a)
      BY <3>1 DEF TrafficFacts, Collects, x
    <3>3. Begun(x.snap)
      <4>1. CASE request[a].type # "begin"
        BY <2>5, <3>2, <4>1 DEF Sent, x
      <4>2. CASE request[a].type = "begin"
        <5>1. request[a].snap = x.snap
          BY <1>0, <2>5, <3>1 DEF Shape, x
        <5>2. \A m \in net : m.type = "begin" /\ m.snap = x.snap => m = request[a]
          BY <2>5, <4>2, <5>1 DEF BaseInv, BeginInv, NetFacts
        <5> QED
          BY <2>5, <5>2 DEF Begun
      <4> QED
        BY <4>1, <4>2
    <3>4. \A m \in net : m.type = "complete" => m.snap # x.snap
      BY <3>1, <3>2 DEF Sent, x
    <3>5. Begun(session[a].snap)' /\ BeganBy(session[a].snap, a)'
      <4>0. PICK s : s = x.snap
        OBVIOUS
      <4>1. Begun(s) /\ BeganBy(s, a)
        BY <3>2, <3>3, <4>0 DEF Sent, x
      <4>2. net \subseteq net' /\ \A z \in net' \ net : z.type # "begin"
        BY <2>1
      <4>3. Begun(s)' /\ BeganBy(s, a)'
        BY <1>0, <4>1, <4>2, BeginsStay
      <4> QED
        BY <3>1, <4>0, <4>3 DEF Begun, BeganBy
    <3>6. \A z \in net' : z.type = "page" /\ z.snap = session'[a].snap => z.number <= session'[a].pages
      BY <2>1, <3>1, <3>2 DEF Sent, x
    <3>7. \A z \in net' : z.type = "complete" => z.snap # session'[a].snap
      BY <2>1, <3>1, <3>4
    <3> QED
      BY <3>5, <3>6, <3>7 DEF Sent
  <2>7. \A b \in Agents : Numbers(b)'
    <3>1. Numbers(a)'
      <4>1. stored'[a] \in {stored[a], sequence[a]} /\ answer'[a] = "none"
        BY <1>0, <2>1, <2>5
      <4> QED
        BY <1>0, <2>1, <2>4, <2>5, <4>1 DEF Numbers
    <3>2. ASSUME NEW b \in Agents, b # a PROVE Numbers(b)'
      BY <1>0, <2>1, <2>3, <3>2, NumbersStay
    <3> QED
      BY <3>1, <3>2
  <2>8. TrafficFacts'
    <3>1. \A b \in Agents : Collects(b)' =>
             (Sent(b)' \/ (session'[b] = session[b] /\ request'[b] = request[b]))
      <4> SUFFICES ASSUME NEW b \in Agents, Collects(b)'
                   PROVE  (Sent(b)' \/ (session'[b] = session[b] /\ request'[b] = request[b]))
        OBVIOUS
      <4>1. CASE b = a
        <5>1. Collects(a)'
          BY <4>1 DEF Collects
        <5>2. Sent(a)'
          BY <2>6, <5>1
        <5>3. Sent(b)'
          BY <4>1, <5>2 DEF Sent, BeganBy, Begun
        <5> QED
          BY <5>3
      <4>2. CASE b # a
        BY <2>3, <4>2
      <4> QED
        BY <4>1, <4>2
    <3>2. net' = net
      BY <2>1
    <3> QED
      BY <1>0, <3>1, <3>2, TrafficQuiet
  <2>9. SequenceFacts'
    BY <1>0, <2>1, <2>7, SequenceQuiet
  <2> QED
    BY <2>8, <2>9
<1>9. ASSUME NEW a \in Agents, Stops(a) PROVE TrafficFacts' /\ SequenceFacts'
  <2>1. /\ session' = [session EXCEPT ![a] = Idle]
        /\ request' = [request EXCEPT ![a] = None]
        /\ answer' = [answer EXCEPT ![a] = "none"]
        /\ sequence' = sequence \/ sequence' = [sequence EXCEPT ![a] = stored[a]]
        /\ UNCHANGED <<ingestVars, log, net, issued, stored>>
    BY <1>9 DEF Stops
  <2>2. \A b \in Agents : b # a =>
           /\ session'[b] = session[b] /\ request'[b] = request[b]
           /\ sequence'[b] = sequence[b] /\ answer'[b] = answer[b]
    BY <1>0, <2>1
  <2>3. session'[a].phase = "idle" /\ answer'[a] = "none" /\ sequence'[a] \in {sequence[a], stored[a]}
    BY <1>0, <2>1 DEF Idle
  <2>4. UNCHANGED last_sequence
    BY <2>1 DEF ingestVars, agentVars
  <2>5. \A b \in Agents : Numbers(b)'
    <3>1. Numbers(a)'
      BY <1>0, <2>1, <2>3, <2>4 DEF Numbers
    <3>2. ASSUME NEW b \in Agents, b # a PROVE Numbers(b)'
      BY <1>0, <2>1, <2>2, <3>2, NumbersStay
    <3> QED
      BY <3>1, <3>2
  <2>6. ~Collects(a)'
    BY <2>3 DEF Collects
  <2> QED
    BY <1>0, <2>1, <2>2, <2>5, <2>6, TrafficQuiet, SequenceQuiet
<1>10. ASSUME NEW m \in net, Delivers(m) PROVE TrafficFacts' /\ SequenceFacts'
  <2>1. /\ Handle(m)
        /\ UNCHANGED <<log, net, issued, sequence, stored, session, request>>
        /\ \/ answer' = answer
           \/ \E a \in Agents :
                 /\ request[a] = m
                 /\ answer' = [answer EXCEPT ![a] = IF Accepts(m) THEN "ok" ELSE "failed"]
    BY <1>10 DEF Delivers
  <2>2. ASSUME NEW b \in Agents PROVE Numbers(b)'
    <3>1. CASE answer'[b] = answer[b] \/ answer'[b] # "ok"
      BY <1>0, <2>1, <3>1, NumbersStay
    <3>2. CASE answer'[b] = "ok" /\ request[b] = m /\ Accepts(m)
      <4>1. request[b].seq <= last_sequence'[b]
        BY <2>1, <3>2, AcceptedIsPassed
      <4> QED
        BY <1>0, <2>1, <4>1, NumbersStay
    <3>3. \/ answer'[b] = answer[b]
          \/ answer'[b] = "failed"
          \/ answer'[b] = "ok" /\ request[b] = m /\ Accepts(m)
      <4>1. ASSUME NEW a \in Agents, request[a] = m,
                   answer' = [answer EXCEPT ![a] = IF Accepts(m) THEN "ok" ELSE "failed"]
            PROVE  \/ answer'[b] = answer[b]
                   \/ answer'[b] = "failed"
                   \/ answer'[b] = "ok" /\ request[b] = m /\ Accepts(m)
        <5>1. CASE a = b
          <6>1. answer'[b] = IF Accepts(m) THEN "ok" ELSE "failed"
            BY <1>0, <4>1, <5>1
          <6> QED
            BY <4>1, <5>1, <6>1
        <5>2. CASE a # b
          BY <1>0, <4>1, <5>2
        <5> QED
          BY <5>1, <5>2
      <4> QED
        BY <2>1, <4>1
    <3> QED
      BY <3>1, <3>2, <3>3
  <2> QED
    BY <1>0, <2>1, <2>2, TrafficQuiet, SequenceQuiet
<1>11. CASE Rests
  BY <1>1, <1>11 DEF Rests, agentSide
<1>12. ASSUME NEW a \in Agents, LoseAnswer(a) PROVE TrafficFacts' /\ SequenceFacts'
  <2>1. /\ answer' = [answer EXCEPT ![a] = "none"]
        /\ UNCHANGED <<ingestVars, log, net, issued, sequence, stored, session, request>>
    BY <1>12 DEF LoseAnswer
  <2>2. ASSUME NEW b \in Agents PROVE Numbers(b)'
    <3>1. answer'[b] = answer[b] \/ answer'[b] # "ok"
      BY <1>0, <2>1
    <3> QED
      BY <1>0, <2>1, <3>1, NumbersStay
  <2> QED
    BY <1>0, <2>1, <2>2, TrafficQuiet, SequenceQuiet
<1>13. ASSUME NEW a \in Agents, Takeover(a) PROVE TrafficFacts' /\ SequenceFacts'
  BY <1>1, <1>13 DEF Takeover, Other, agentSide
<1>14. ASSUME NEW u, NEW deleted, ClusterChange(u, deleted) PROVE TrafficFacts' /\ SequenceFacts'
  BY <1>1, <1>14 DEF ClusterChange, agentSide
<1>15. CASE UNCHANGED syncVars
  BY <1>1, <1>15 DEF syncVars, agentSide
<1> QED
  BY <1>0, <1>2, <1>3, <1>4, <1>5, <1>6, <1>7, <1>8, <1>9, <1>10, <1>11, <1>12, <1>13, <1>14,
     StepKinds

\* Every sync step pays for its fault or costs nothing.
LEMMA BudgetNext ==
    ASSUME SyncAssumption, faults \in 0..MaxFaults, [SyncNext]_syncVars
    PROVE  faults' \in 0..MaxFaults
<1>1. CASE UNCHANGED faults
  BY <1>1
<1>2. CASE Fault
  BY <1>2 DEF Fault, SyncAssumption
<1>3. CASE \E u \in Uids, deleted \in BOOLEAN : ClusterChange(u, deleted)
  BY <1>1, <1>3 DEF ClusterChange
<1>4. CASE \E a \in Agents : Takeover(a)
  BY <1>1, <1>4 DEF Takeover, Other
<1>5. ASSUME NEW a \in Agents, AgentStep(a) PROVE UNCHANGED faults
  BY <1>5 DEF AgentStep, StartCycle, ListKind, PostPage, PostComplete, ReceiveChange, Overflow,
              PostEvents, Acked, Rejected
<1>6. CASE ServerStep
  BY <1>1, <1>6 DEF ServerStep, Deliver, Other
<1>7. CASE Upkeep
  BY <1>1, <1>7 DEF Upkeep, Other
<1>8. CASE Faulty
  BY <1>2, <1>8 DEF Faulty, DeliverLate, LoseAnswer, FailCycle, Restart, AckedNotStored, Expire,
                    DropDemand
<1>9. CASE UNCHANGED syncVars
  BY <1>1, <1>9 DEF syncVars
<1> QED
  BY <1>1, <1>3, <1>4, <1>5, <1>6, <1>7, <1>8, <1>9 DEF SyncNext

\* The traffic facts hold before anything is sent.
LEMMA TrafficInit == SyncInit => TrafficFacts /\ SequenceFacts /\ faults \in 0..MaxFaults
<1> SUFFICES ASSUME SyncInit PROVE TrafficFacts /\ SequenceFacts /\ faults \in 0..MaxFaults
  OBVIOUS
<1>1. /\ net = {} /\ faults = 0
      /\ \A a \in Agents : /\ session[a] = Idle /\ stored[a] = 0 /\ sequence[a] = 0
                           /\ answer[a] = "none" /\ last_sequence[a] = 0
      /\ \A s \in Snapshots : status[s] = "absent" /\ pages[s] = {}
  BY DEF SyncInit, IngestInit
<1>2. BegunFirst /\ PagesAgree
  BY <1>1 DEF BegunFirst, PagesAgree
<1>3. RowsSent
  BY <1>1 DEF RowsSent
<1>4. \A a \in Agents : ~Collects(a) /\ Numbers(a)
  <2> SUFFICES ASSUME NEW a \in Agents PROVE ~Collects(a) /\ Numbers(a)
    OBVIOUS
  <2>1. session[a].phase = "idle"
    BY <1>1 DEF Idle
  <2> QED
    BY <1>1, <2>1 DEF Collects, Numbers
<1>5. faults \in 0..MaxFaults
  BY <1>1, SyncAssumption DEF SyncAssumption
<1> QED
  BY <1>1, <1>2, <1>3, <1>4, <1>5 DEF TrafficFacts, SequenceFacts

\* What the messages, the sessions and the rows of the API agree on.
StreamInv == BaseInv /\ TrafficFacts /\ SequenceFacts /\ faults \in 0..MaxFaults

\* No step breaks what the stream of messages is.
LEMMA StreamNext == SyncAssumption /\ StreamInv /\ [SyncNext]_syncVars => StreamInv'
  BY BaseNext, TrafficNext, BudgetNext DEF StreamInv

\* What the stream of messages is, is an invariant of the pipeline.
LEMMA StreamInvariant == SyncSpec => []StreamInv
<1>1. SyncInit => StreamInv
  BY BaseInit, TrafficInit DEF StreamInv
<1>2. StreamInv /\ [SyncNext]_syncVars => StreamInv'
  BY StreamNext, SyncAssumption
<1> QED
  BY <1>1, <1>2, PTL DEF SyncSpec

\* The shape of the pipeline's state: an agent has at most one request out,
\* and no sequence number on the disk is ahead of the one in memory.
LEMMA StreamShape == StreamInv => SyncTypeOK
<1> SUFFICES ASSUME StreamInv PROVE SyncTypeOK
  OBVIOUS
<1>1. /\ BaseInv /\ SequenceFacts /\ faults \in 0..MaxFaults
      /\ SessionFacts /\ LogInv /\ AgentFacts /\ issued \in Nat
  BY DEF StreamInv, BaseInv, BeginInv, AgentFacts
<1>2. net \subseteq Requests
  BY <1>1, BaseNet DEF WellFormed
<1>3. log \in Seq([uid : Uids, deleted : BOOLEAN])
  BY <1>1 DEF LogInv
<1>4. ASSUME NEW a \in Agents
      PROVE  /\ stored[a] <= sequence[a]
             /\ request[a] \in net \cup {None}
             /\ answer[a] \in {"none", "ok", "failed"}
             /\ session[a].phase \in {"idle", "snapshot", "completing", "watch"}
  <2>1. stored[a] <= sequence[a]
    BY <1>1 DEF SequenceFacts, Numbers
  <2>2. request[a] \in net \cup {None} /\ answer[a] \in {"none", "ok", "failed"}
    BY <1>1 DEF AgentFacts
  <2>3. session[a].phase \in {"idle", "snapshot", "completing", "watch"}
    BY <1>1, SessionFields
  <2> QED
    BY <2>1, <2>2, <2>3
<1> QED
  BY <1>1, <1>2, <1>3, <1>4 DEF SyncTypeOK
=============================================================================
