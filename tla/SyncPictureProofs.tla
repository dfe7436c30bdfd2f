-------------------------- MODULE SyncPictureProofs -------------------------
(***************************************************************************)
(* Proofs about what the projection of InventorySync shows of the cluster, *)
(* for any number of agents, snapshots, kinds, resources, cluster changes  *)
(* and faults.                                                             *)
(*                                                                         *)
(* A cut is one version per kind.  SessionTruth and CompleteTruth: what an *)
(* agent listed, and what it sent of it, is the cluster at a cut.          *)
(* AnchoredFacts: between the projection, the requests on their way and    *)
(* the queue of the active writer there is neither a hole nor an overlap.  *)
(* So the projection always is the cluster at some cut, and the events     *)
(* that can still be applied continue exactly that cut (LiveEvents).       *)
(***************************************************************************)
EXTENDS SyncProofs

----------------------------------------------------------------------------
(* Cuts of the cluster's log.                                             *)

\* A version per kind, none of them in the future: where a cut runs.
Cuts == [Range(Kinds) -> 0..Now]

\* The events of es are the changes after the cut v up to the cut w.
Continues(es, v, w) ==
    /\ \A i \in DOMAIN es : es[i].rv \in 1..Now /\ es[i] = WatchEvent(es[i].rv)
    /\ \A i \in DOMAIN es : LET k == KindOf[es[i].uid] IN v[k] < es[i].rv /\ es[i].rv <= w[k]
    /\ \A i, j \in DOMAIN es :
          i < j /\ KindOf[es[i].uid] = KindOf[es[j].uid] => es[i].rv < es[j].rv
    /\ \A k \in Range(Kinds) : v[k] <= w[k]
    /\ \A k \in Range(Kinds) : \A x \in (v[k] + 1)..w[k] :
          KindOf[log[x].uid] = k => \E i \in DOMAIN es : es[i].rv = x

\* The projection's row of u is what the cluster held at v, and a row that is
\* missing was deleted.
Pictured(u, v) ==
    /\ ShowsVersion(u, v)
    /\ lifecycle[u] = "missing" => GoneBy(u, v)
    /\ lifecycle[u] = "absent" => resource_version[u] = 0

PicturedAt(c) == \A u \in Uids : Pictured(u, c[KindOf[u]])

\* What the projection knows of u is not newer than v.
Seen(u, v) ==
    /\ lifecycle[u] = "active" => resource_version[u] <= v
    /\ lifecycle[u] = "missing" => GoneBy(u, v)

\* The projection is the cluster at some cut.
Projected == \E c \in Cuts : PicturedAt(c)

----------------------------------------------------------------------------
(* Cuts, and the events between them.                                      *)

\* Every resource is of a listed kind.
LEMMA CutAt ==
    ASSUME NEW c \in Cuts, NEW u \in Uids
    PROVE  KindOf[u] \in Range(Kinds) /\ c[KindOf[u]] \in 0..Now
BY SyncAssumption DEF Cuts

\* A cut stays a cut.
LEMMA PastCuts == ASSUME Past, NEW c \in Cuts PROVE c \in Cuts'
BY DEF Past, Cuts

\* Events that were true stay true.
LEMMA PastEvents ==
    ASSUME Past, NEW es \in Seq(Event), NEW v \in Cuts, NEW w \in Cuts,
           Continues(es, v, w)
    PROVE  Continues(es, v, w)'
<1>1. \A i \in DOMAIN es : es[i].rv \in 1..Now => WatchEvent(es[i].rv)' = WatchEvent(es[i].rv)
  BY DEF Past, WatchEvent
<1>2. \A i \in DOMAIN es : es[i].rv \in 1..Now' /\ es[i] = WatchEvent(es[i].rv)'
  BY <1>1 DEF Continues, Past
<1>3. \A k \in Range(Kinds) : \A x \in (v[k] + 1)..w[k] : x \in 1..Now
  BY DEF Cuts, Past
<1>4. \A k \in Range(Kinds) : \A x \in (v[k] + 1)..w[k] :
          KindOf[log'[x].uid] = k => \E i \in DOMAIN es : es[i].rv = x
  BY <1>3 DEF Continues, Past
<1> QED
  BY <1>2, <1>4 DEF Continues

\* A picture of the past stays one while the projection does.
LEMMA PastPicture ==
    ASSUME Past, NEW c \in Cuts, UNCHANGED <<lifecycle, resource_version>>, PicturedAt(c)
    PROVE  PicturedAt(c)'
<1> SUFFICES ASSUME NEW u \in Uids PROVE Pictured(u, c[KindOf[u]])'
  BY DEF PicturedAt
<1>1. c[KindOf[u]] \in 0..Now
  BY CutAt
<1>2. PICK v \in 0..Now : v = c[KindOf[u]]
  BY <1>1
<1>3. VersionAt(u, v)' = VersionAt(u, v) /\ (GoneBy(u, v)' <=> GoneBy(u, v))
  BY PastVersions
<1>4. Pictured(u, v)
  BY <1>2 DEF PicturedAt
<1>5. Pictured(u, v)'
  BY <1>3, <1>4 DEF Pictured, ShowsVersion
<1> QED
  BY <1>2, <1>5

\* So does what was seen.
LEMMA PastSeen ==
    ASSUME Past, NEW u, NEW v \in 0..Now, UNCHANGED <<lifecycle, resource_version>>,
           Seen(u, v)
    PROVE  Seen(u, v)'
BY PastVersions DEF Seen

\* No events, from a cut to itself.
LEMMA ContinuesNothing ==
    ASSUME NEW v \in Cuts, Now \in Nat
    PROVE  Continues(<<>>, v, v)
<1>1. \A k \in Range(Kinds) : v[k] \in Nat
  BY DEF Cuts
<1> QED
  BY <1>1 DEF Continues

\* What is known of one event.
LEMMA EventOf ==
    ASSUME NEW es \in Seq(Event), NEW v, NEW w, Continues(es, v, w),
           NEW i \in 1..Len(es)
    PROVE  /\ es[i].rv \in 1..Now
           /\ es[i] = WatchEvent(es[i].rv)
           /\ es[i].uid \in Uids
           /\ KindOf[es[i].uid] \in Range(Kinds)
           /\ v[KindOf[es[i].uid]] < es[i].rv
           /\ es[i].rv <= w[KindOf[es[i].uid]]
<1>1. DOMAIN es = 1..Len(es) /\ es[i] \in Event
  OBVIOUS
<1>2. es[i].uid \in Uids
  BY <1>1 DEF Event
<1>3. KindOf[es[i].uid] \in Range(Kinds)
  BY <1>2, SyncAssumption
<1>4. i \in DOMAIN es
  BY <1>1
<1> QED
  BY <1>2, <1>3, <1>4 DEF Continues

\* The next change of a kind, at the end.
LEMMA ContinuesAppend ==
    ASSUME LogInv, NEW es \in Seq(Event), NEW v \in Cuts, NEW w \in Cuts,
           Continues(es, v, w), NEW k \in Range(Kinds), NEW x \in (w[k] + 1)..Now,
           KindOf[log[x].uid] = k,
           \A j \in (w[k] + 1)..(x - 1) : KindOf[log[j].uid] # k
    PROVE  /\ Continues(Append(es, WatchEvent(x)), v, [w EXCEPT ![k] = x])
           /\ [w EXCEPT ![k] = x] \in Cuts
<1> DEFINE fs == Append(es, WatchEvent(x))
           n  == Len(es)
           z  == [w EXCEPT ![k] = x]
<1>0. Now \in Nat /\ w[k] \in 0..Now /\ x \in 1..Now /\ x \in Nat
  BY DEF LogInv, Now, Cuts
<1>1. z \in Cuts /\ z[k] = x /\ \A j \in Range(Kinds) : j # k => z[j] = w[j]
  BY <1>0 DEF Cuts
<1>2. /\ n \in Nat /\ DOMAIN es = 1..n /\ DOMAIN fs = 1..(n + 1)
      /\ \A i \in 1..n : fs[i] = es[i]
      /\ fs[n + 1] = WatchEvent(x)
  BY DEF WatchEvent
<1>3. WatchEvent(x).rv = x /\ KindOf[WatchEvent(x).uid] = k
  BY DEF WatchEvent
<1>4. \A i \in 1..n : /\ es[i].rv \in 1..Now /\ es[i] = WatchEvent(es[i].rv)
                      /\ v[KindOf[es[i].uid]] < es[i].rv
                      /\ es[i].rv <= w[KindOf[es[i].uid]]
                      /\ KindOf[es[i].uid] \in Range(Kinds)
  BY EventOf
<1>5. \A j \in Range(Kinds) : v[j] \in 0..Now /\ w[j] \in 0..Now /\ v[j] <= w[j]
  BY DEF Cuts, Continues
<1>6. \A j \in Range(Kinds) : w[j] <= z[j] /\ v[j] <= z[j] /\ z[j] \in Nat
  BY <1>0, <1>1, <1>5
<1> HIDE DEF fs, z, n
<1>7. ASSUME NEW i \in DOMAIN fs
      PROVE  /\ fs[i].rv \in 1..Now /\ fs[i] = WatchEvent(fs[i].rv)
             /\ v[KindOf[fs[i].uid]] < fs[i].rv
             /\ fs[i].rv <= z[KindOf[fs[i].uid]]
  <2>1. CASE i = n + 1
    <3>1. v[k] < x
      BY <1>0, <1>5
    <3>2. /\ fs[i] = WatchEvent(x) /\ fs[i].rv = x /\ KindOf[fs[i].uid] = k
      BY <1>2, <1>3, <2>1
    <3> QED
      BY <1>0, <1>1, <3>1, <3>2
  <2>2. CASE i \in 1..n
    <3>1. fs[i] = es[i]
      BY <1>2, <2>2
    <3>2. KindOf[es[i].uid] \in Range(Kinds) /\ es[i].rv \in Nat
      BY <1>0, <1>4, <2>2
    <3>3. es[i].rv <= z[KindOf[es[i].uid]]
      BY <1>4, <1>5, <1>6, <2>2, <3>2
    <3> QED
      BY <1>4, <2>2, <3>1, <3>3
  <2> QED
    BY <1>2, <2>1, <2>2
<1>8. ASSUME NEW i \in DOMAIN fs, NEW j \in DOMAIN fs, i < j,
             KindOf[fs[i].uid] = KindOf[fs[j].uid]
      PROVE  fs[i].rv < fs[j].rv
  <2>1. i \in 1..n
    BY <1>2, <1>8
  <2>2. CASE j \in 1..n
    <3>1. /\ i \in DOMAIN es /\ j \in DOMAIN es /\ fs[i] = es[i] /\ fs[j] = es[j]
      BY <1>2, <2>1, <2>2
    <3>2. KindOf[es[i].uid] = KindOf[es[j].uid]
      BY <1>8, <3>1
    <3>3. es[i].rv < es[j].rv
      BY <1>8, <3>1, <3>2 DEF Continues
    <3>4. fs[i].rv = es[i].rv /\ fs[j].rv = es[j].rv
      BY <3>1
    <3> QED
      BY <3>3, <3>4
  <2>3. CASE j = n + 1
    <3>1. fs[i] = es[i] /\ fs[j] = WatchEvent(x)
      BY <1>2, <2>1, <2>3
    <3>2. KindOf[es[i].uid] = k
      BY <1>3, <1>8, <3>1
    <3>3. es[i].rv <= w[k] /\ es[i].rv \in Nat
      BY <1>0, <1>4, <2>1, <3>2
    <3> QED
      BY <1>0, <1>3, <3>1, <3>3
  <2> QED
    BY <1>2, <2>2, <2>3
<1>9. ASSUME NEW j \in Range(Kinds), NEW y \in (v[j] + 1)..z[j], KindOf[log[y].uid] = j
      PROVE  \E i \in DOMAIN fs : fs[i].rv = y
  <2>1. CASE y <= w[j]
    <3>1. y \in (v[j] + 1)..w[j]
      BY <1>5, <2>1
    <3>2. PICK i \in DOMAIN es : es[i].rv = y
      BY <1>9, <3>1 DEF Continues
    <3> QED
      BY <1>2, <3>2
  <2>2. CASE w[j] < y
    <3>1. j = k
      BY <1>1, <1>5, <1>6, <2>2
    <3>2. y \in (w[k] + 1)..x
      BY <1>1, <1>5, <1>6, <2>2, <3>1
    <3>3. y = x
      BY <1>0, <1>9, <3>1, <3>2
    <3> QED
      BY <1>2, <1>3, <3>3
  <2>3. y \in Nat /\ w[j] \in Nat
    BY <1>5, <1>6
  <2> QED
    BY <2>1, <2>2, <2>3
<1>10. Continues(fs, v, z)
  BY <1>6, <1>7, <1>8, <1>9 DEF Continues
<1> QED
  BY <1>1, <1>10 DEF fs, z

\* What is posted and what stays in the queue meet at a cut.
LEMMA ContinuesSplit ==
    ASSUME LogInv, NEW es \in Seq(Event), NEW v \in Cuts, NEW w \in Cuts,
           Continues(es, v, w), NEW n \in 1..Len(es)
    PROVE  \E z \in Cuts : /\ Continues(SubSeq(es, 1, n), v, z)
                           /\ Continues(SubSeq(es, n + 1, Len(es)), z, w)
<1> DEFINE L == Len(es)
           After(k) == {i \in (n + 1)..L : KindOf[es[i].uid] = k}
           First(k) == CHOOSE i \in After(k) : \A j \in After(k) : i <= j
           z == [k \in Range(Kinds) |->
                    IF After(k) = {} THEN w[k] ELSE es[First(k)].rv - 1]
           fs == SubSeq(es, 1, n)
           gs == SubSeq(es, n + 1, L)
<1>0. /\ Now \in Nat /\ L \in Nat /\ n \in Nat /\ n <= L
      /\ DOMAIN es = 1..L
  BY DEF LogInv, Now
<1>1. ASSUME NEW k \in Range(Kinds)
      PROVE  \/ After(k) = {} /\ z[k] = w[k]
             \/ /\ First(k) \in (n + 1)..L
                /\ KindOf[es[First(k)].uid] = k
                /\ \A j \in (n + 1)..L : KindOf[es[j].uid] = k => First(k) <= j
                /\ z[k] = es[First(k)].rv - 1
  <2> DEFINE S == After(k)
  <2>1. CASE S # {}
    <3>1. S \subseteq Nat
      BY <1>0
    <3> HIDE DEF S
    <3>2. \E m \in S : \A j \in S : m <= j
      BY <2>1, <3>1, LeastExists
    <3> USE DEF S
    <3>3. First(k) \in After(k) /\ \A j \in After(k) : First(k) <= j
      BY <3>2
    <3> QED
      BY <2>1, <3>3
  <2> QED
    BY <2>1
<1>2. \A k \in Range(Kinds) : v[k] \in 0..Now /\ w[k] \in 0..Now /\ v[k] <= w[k]
  BY DEF Cuts, Continues
<1>3. ASSUME NEW i \in 1..L
      PROVE  /\ es[i].rv \in 1..Now
             /\ es[i] = WatchEvent(es[i].rv)
             /\ es[i].uid \in Uids
             /\ KindOf[es[i].uid] \in Range(Kinds)
             /\ v[KindOf[es[i].uid]] < es[i].rv
             /\ es[i].rv <= w[KindOf[es[i].uid]]
  BY EventOf
<1>4. ASSUME NEW i \in 1..L, NEW j \in 1..L, i < j, KindOf[es[i].uid] = KindOf[es[j].uid]
      PROVE  es[i].rv < es[j].rv
  BY <1>0, <1>4 DEF Continues
<1> HIDE DEF z, First, After
<1>5. ASSUME NEW k \in Range(Kinds)
      PROVE  /\ z[k] \in 0..Now /\ v[k] <= z[k] /\ z[k] <= w[k]
             /\ \A i \in 1..n : KindOf[es[i].uid] = k => es[i].rv <= z[k]
             /\ \A i \in (n + 1)..L : KindOf[es[i].uid] = k => z[k] < es[i].rv
  <2>1. CASE After(k) = {} /\ z[k] = w[k]
    <3>1. \A i \in 1..n : KindOf[es[i].uid] = k => es[i].rv <= z[k]
      BY <1>0, <1>3, <2>1
    <3>2. \A i \in (n + 1)..L : KindOf[es[i].uid] # k
      BY <2>1 DEF After
    <3> QED
      BY <1>2, <2>1, <3>1, <3>2
  <2>2. ASSUME NEW f \in (n + 1)..L, KindOf[es[f].uid] = k, z[k] = es[f].rv - 1,
               \A j \in (n + 1)..L : KindOf[es[j].uid] = k => f <= j
        PROVE  /\ z[k] \in 0..Now /\ v[k] <= z[k] /\ z[k] <= w[k]
               /\ \A i \in 1..n : KindOf[es[i].uid] = k => es[i].rv <= z[k]
               /\ \A i \in (n + 1)..L : KindOf[es[i].uid] = k => z[k] < es[i].rv
    <3>0. f \in 1..L
      BY <1>0
    <3>1. es[f].rv \in 1..Now /\ v[k] < es[f].rv /\ es[f].rv <= w[k]
      BY <1>3, <2>2, <3>0
    <3>2. z[k] \in 0..Now /\ v[k] <= z[k] /\ z[k] <= w[k]
      BY <1>0, <1>2, <2>2, <3>1
    <3>3. ASSUME NEW i \in 1..n, KindOf[es[i].uid] = k PROVE es[i].rv <= z[k]
      <4>1. i \in 1..L /\ i < f
        BY <1>0
      <4>2. es[i].rv < es[f].rv /\ es[i].rv \in Nat
        BY <1>0, <1>3, <1>4, <2>2, <3>0, <3>3, <4>1
      <4> QED
        BY <2>2, <3>1, <4>2
    <3>4. ASSUME NEW i \in (n + 1)..L, KindOf[es[i].uid] = k PROVE z[k] < es[i].rv
      <4>1. i \in 1..L /\ f <= i
        BY <1>0, <2>2, <3>4
      <4>2. CASE i = f
        BY <2>2, <3>1, <4>2
      <4>3. CASE i # f
        <5>1. f < i
          BY <3>0, <4>1, <4>3
        <5>2. es[f].rv < es[i].rv /\ es[i].rv \in Nat
          BY <1>0, <1>3, <1>4, <2>2, <3>0, <3>4, <4>1, <5>1
        <5> QED
          BY <2>2, <3>1, <5>2
      <4> QED
        BY <4>2, <4>3
    <3> QED
      BY <3>2, <3>3, <3>4
  <2> QED
    BY <1>1, <2>1, <2>2
<1>6. z \in Cuts
  <2>1. z \in [Range(Kinds) -> {z[k] : k \in Range(Kinds)}]
    BY DEF z
  <2> QED
    BY <1>5, <2>1 DEF Cuts
<1>7. /\ DOMAIN fs = 1..n /\ \A i \in 1..n : fs[i] = es[i]
      /\ DOMAIN gs = 1..(L - n) /\ \A i \in 1..(L - n) : gs[i] = es[i + n]
  <2>1. \A i \in (n + 1)..L : i \in 1..L
    BY <1>0
  <2> QED
    BY <1>0
<1> HIDE DEF fs, gs, L
<1>8. Continues(fs, v, z)
  <2>1. \A i \in DOMAIN fs : /\ fs[i].rv \in 1..Now
                             /\ fs[i] = WatchEvent(fs[i].rv)
                             /\ v[KindOf[fs[i].uid]] < fs[i].rv
                             /\ fs[i].rv <= z[KindOf[fs[i].uid]]
    <3> SUFFICES ASSUME NEW i \in 1..n
                 PROVE  /\ es[i].rv \in 1..Now
                        /\ es[i] = WatchEvent(es[i].rv)
                        /\ v[KindOf[es[i].uid]] < es[i].rv
                        /\ es[i].rv <= z[KindOf[es[i].uid]]
      BY <1>7
    <3>1. i \in 1..L
      BY <1>0
    <3> QED
      BY <1>3, <1>5, <3>1
  <2>2. \A i, j \in DOMAIN fs :
          i < j /\ KindOf[fs[i].uid] = KindOf[fs[j].uid] => fs[i].rv < fs[j].rv
    BY <1>0, <1>4, <1>7
  <2>3. ASSUME NEW k \in Range(Kinds), NEW x \in (v[k] + 1)..z[k], KindOf[log[x].uid] = k
        PROVE  \E i \in DOMAIN fs : fs[i].rv = x
    <3>1. x \in (v[k] + 1)..w[k]
      BY <1>2, <1>5
    <3>2a. \E i \in DOMAIN es : es[i].rv = x
      BY <2>3, <3>1 DEF Continues
    <3>2. PICK i \in 1..L : es[i].rv = x
      BY <1>0, <3>2a
    <3>2b. es[i] = WatchEvent(x)
      BY <1>3, <3>2
    <3>3. KindOf[es[i].uid] = k
      BY <2>3, <3>2b DEF WatchEvent
    <3>4. i \in 1..n
      <4> SUFFICES ASSUME i \in (n + 1)..L PROVE FALSE
        BY <1>0
      <4>1. z[k] < x
        BY <1>5, <3>2, <3>3
      <4> QED
        BY <1>2, <1>5, <4>1
    <3> QED
      BY <1>7, <3>2, <3>4
  <2> QED
    BY <1>5, <2>1, <2>2, <2>3 DEF Continues
<1>9. Continues(gs, z, w)
  <2>1. \A i \in DOMAIN gs : /\ gs[i].rv \in 1..Now
                             /\ gs[i] = WatchEvent(gs[i].rv)
                             /\ z[KindOf[gs[i].uid]] < gs[i].rv
                             /\ gs[i].rv <= w[KindOf[gs[i].uid]]
    <3> SUFFICES ASSUME NEW i \in 1..(L - n)
                 PROVE  /\ gs[i].rv \in 1..Now
                        /\ gs[i] = WatchEvent(gs[i].rv)
                        /\ z[KindOf[gs[i].uid]] < gs[i].rv
                        /\ gs[i].rv <= w[KindOf[gs[i].uid]]
      BY <1>7
    <3>1. gs[i] = es[i + n] /\ i + n \in 1..L /\ i + n \in (n + 1)..L
      BY <1>0, <1>7
    <3> QED
      BY <1>3, <1>5, <3>1
  <2>2. ASSUME NEW i \in DOMAIN gs, NEW j \in DOMAIN gs, i < j,
               KindOf[gs[i].uid] = KindOf[gs[j].uid]
        PROVE  gs[i].rv < gs[j].rv
    <3>1. /\ gs[i] = es[i + n] /\ gs[j] = es[j + n]
          /\ i + n \in 1..L /\ j + n \in 1..L /\ i + n < j + n
      BY <1>0, <1>7, <2>2
    <3> QED
      BY <1>4, <2>2, <3>1
  <2>3. ASSUME NEW k \in Range(Kinds), NEW x \in (z[k] + 1)..w[k], KindOf[log[x].uid] = k
        PROVE  \E i \in DOMAIN gs : gs[i].rv = x
    <3>1. x \in (v[k] + 1)..w[k]
      BY <1>2, <1>5
    <3>2a. \E i \in DOMAIN es : es[i].rv = x
      BY <2>3, <3>1 DEF Continues
    <3>2. PICK i \in 1..L : es[i].rv = x
      BY <1>0, <3>2a
    <3>2b. es[i] = WatchEvent(x)
      BY <1>3, <3>2
    <3>3. KindOf[es[i].uid] = k
      BY <2>3, <3>2b DEF WatchEvent
    <3>4. i \in (n + 1)..L
      <4> SUFFICES ASSUME i \in 1..n PROVE FALSE
        BY <1>0
      <4>1. x <= z[k]
        BY <1>5, <3>2, <3>3
      <4> QED
        BY <1>2, <1>5, <4>1
    <3>5. i - n \in 1..(L - n) /\ (i - n) + n = i
      BY <1>0, <3>4
    <3> QED
      BY <1>7, <3>2, <3>5
  <2> QED
    BY <1>5, <2>1, <2>2, <2>3 DEF Continues
<1> QED
  BY <1>6, <1>8, <1>9 DEF fs, gs, L

----------------------------------------------------------------------------
(* How the projection moves.                                               *)

\* What a batch says last of a resource, if it says anything.
LEMMA LastEvent ==
    ASSUME LogInv, NEW es \in Seq(Event), NEW c \in Cuts, NEW w \in Cuts,
           Continues(es, c, w), NEW u \in Uids
    PROVE  LET k == KindOf[u] IN
           \/ /\ \A i \in DOMAIN es : es[i].uid # u
              /\ VersionAt(u, w[k]) = VersionAt(u, c[k])
           \/ \E i \in DOMAIN es :
                 /\ es[i].uid = u
                 /\ \A j \in DOMAIN es : es[j].uid = u => j <= i
                 /\ c[k] < es[i].rv /\ es[i].rv <= w[k]
                 /\ log[es[i].rv].uid = u /\ log[es[i].rv].deleted = es[i].deleted
                 /\ VersionAt(u, w[k]) = IF es[i].deleted THEN 0 ELSE es[i].rv
<1> DEFINE k == KindOf[u]
           S == {i \in DOMAIN es : es[i].uid = u}
<1>0. /\ k \in Range(Kinds) /\ c[k] \in 0..Now /\ w[k] \in 0..Now /\ c[k] <= w[k]
      /\ Now \in Nat /\ DOMAIN es = 1..Len(es) /\ Len(es) \in Nat
  BY CutAt DEF Continues, LogInv, Now
<1>1. ASSUME NEW x \in (c[k] + 1)..w[k], log[x].uid = u
      PROVE  \E i \in S : es[i].rv = x
  <2>1. PICK i \in DOMAIN es : es[i].rv = x
    BY <1>0, <1>1 DEF Continues
  <2>2. es[i] = WatchEvent(x)
    BY <1>0, <2>1, EventOf
  <2> QED
    BY <1>1, <2>1, <2>2 DEF WatchEvent
<1>2. CASE S = {}
  <2>1. \A i \in (c[k] + 1)..w[k] : log[i].uid # u
    BY <1>1, <1>2
  <2>2. VersionAt(u, w[k]) = VersionAt(u, c[k])
    BY <1>0, <2>1, VersionStays
  <2> QED
    BY <1>2, <2>2
<1>3. CASE S # {}
  <2> DEFINE i == Max(S)
  <2>1. S \subseteq 0..Len(es)
    BY <1>0
  <2>2. i \in S /\ \A j \in S : j <= i
    <3> HIDE DEF S
    <3> QED
      BY <1>0, <1>3, <2>1, LargestIsMax
  <2> HIDE DEF i
  <2>3. i \in 1..Len(es) /\ es[i].uid = u /\ i \in DOMAIN es
    BY <1>0, <2>2
  <2>4. /\ es[i].rv \in 1..Now /\ es[i] = WatchEvent(es[i].rv)
        /\ c[k] < es[i].rv /\ es[i].rv <= w[k]
    BY <2>3, EventOf
  <2>5. log[es[i].rv].uid = u /\ log[es[i].rv].deleted = es[i].deleted
    BY <2>3, <2>4 DEF WatchEvent
  <2>6. ASSUME NEW j \in 1..w[k], log[j].uid = u PROVE j <= es[i].rv
    <3>1. CASE j <= c[k]
      BY <1>0, <2>4, <3>1
    <3>2. CASE j > c[k]
      <4>1. j \in (c[k] + 1)..w[k]
        BY <1>0, <3>2
      <4>2. PICK x \in S : es[x].rv = j
        BY <1>1, <2>6, <4>1
      <4>3. x <= i /\ x \in DOMAIN es /\ es[x].uid = u
        BY <2>2, <4>2
      <4>4. CASE x = i
        BY <2>4, <4>2, <4>4
      <4>5. CASE x # i
        <5>1. x < i
          BY <1>0, <2>3, <4>3, <4>5
        <5>2. KindOf[es[x].uid] = KindOf[es[i].uid]
          BY <2>3, <4>3
        <5>3. es[x].rv < es[i].rv
          BY <2>3, <4>3, <5>1, <5>2 DEF Continues
        <5> QED
          BY <2>4, <4>2, <5>3
      <4> QED
        BY <4>4, <4>5
    <3> QED
      BY <1>0, <3>1, <3>2
  <2>7. es[i].rv \in 1..w[k]
    BY <1>0, <2>4
  <2>8. VersionAt(u, w[k]) = IF es[i].deleted THEN 0 ELSE es[i].rv
    BY <1>0, <2>5, <2>6, <2>7, VersionOf
  <2> QED
    BY <2>2, <2>3, <2>4, <2>5, <2>8
<1> QED
  BY <1>2, <1>3

\* The rows a batch leaves.
LEMMA RowsAfterEvents ==
    ASSUME NEW es \in Seq(Event), NEW u \in Uids, NEW i \in DOMAIN es,
           es[i].uid = u, \A j \in DOMAIN es : es[j].uid = u => j <= i
    PROVE  /\ es[i].deleted =>
                 /\ LifecycleAfter(es, u) =
                       IF lifecycle[u] = "active" \/ LastUpsert(es, u) # {}
                       THEN "missing" ELSE lifecycle[u]
                 /\ \/ VersionAfter(es, u) = resource_version[u]
                    \/ \E j \in DOMAIN es : es[j].uid = u /\ VersionAfter(es, u) = es[j].rv
           /\ ~es[i].deleted =>
                 /\ LifecycleAfter(es, u) = "active"
                 /\ VersionAfter(es, u) = es[i].rv
<1>0. DOMAIN es \subseteq Nat
  OBVIOUS
<1>1. CASE es[i].deleted
  <2>1. \A j \in DOMAIN es : j > i => es[j].uid # u
    BY <1>0
  <2>2. EndsDeleted(es, u)
    BY <1>1, <2>1 DEF EndsDeleted
  <2>3. CASE LastUpsert(es, u) = {}
    BY <1>1, <2>2, <2>3 DEF LifecycleAfter, VersionAfter
  <2>4. CASE LastUpsert(es, u) # {}
    <3> DEFINE j == CHOOSE j \in LastUpsert(es, u) : TRUE
    <3>1. j \in LastUpsert(es, u)
      BY <2>4
    <3>2. VersionAfter(es, u) = es[j].rv
      BY <2>4 DEF VersionAfter
    <3>3. j \in DOMAIN es /\ es[j].uid = u
      BY <3>1 DEF LastUpsert
    <3> QED
      BY <1>1, <2>2, <3>2, <3>3 DEF LifecycleAfter
  <2> QED
    BY <2>3, <2>4
<1>2. CASE ~es[i].deleted
  <2>1. LastUpsert(es, u) = {i}
    <3>1. i \in LastUpsert(es, u)
      BY <1>0, <1>2 DEF LastUpsert
    <3>2. ASSUME NEW j \in LastUpsert(es, u) PROVE j = i
      <4>1. j \in DOMAIN es /\ es[j].uid = u
        BY DEF LastUpsert
      <4>2. ~(i > j)
        BY <1>2 DEF LastUpsert
      <4> QED
        BY <1>0, <4>1, <4>2
    <3> QED
      BY <3>1, <3>2
  <2>2. ~EndsDeleted(es, u)
    <3> SUFFICES ASSUME NEW j \in DOMAIN es, es[j].uid = u, es[j].deleted,
                        \A x \in DOMAIN es : x > j => es[x].uid # u
                 PROVE  FALSE
      BY DEF EndsDeleted
    <3>1. j <= i /\ ~(i > j)
      OBVIOUS
    <3>2. j = i
      BY <1>0, <3>1
    <3> QED
      BY <1>2, <3>2
  <2>3. (CHOOSE j \in LastUpsert(es, u) : TRUE) = i
    BY <2>1
  <2> QED
    BY <1>2, <2>1, <2>2, <2>3 DEF LifecycleAfter, VersionAfter
<1> QED
  BY <1>1, <1>2

\* A batch that continues the picture carries it on, and forward.
LEMMA EventsMove ==
    ASSUME LogInv, ProjectionTypes, NEW es \in Seq(Event), NEW c \in Cuts, NEW w \in Cuts,
           Continues(es, c, w), PicturedAt(c), UNCHANGED log,
           lifecycle' = [u \in Uids |-> LifecycleAfter(es, u)],
           resource_version' = [u \in Uids |-> VersionAfter(es, u)]
    PROVE  PicturedAt(w)' /\ ForwardStep
<1> SUFFICES ASSUME NEW u \in Uids
             PROVE  /\ Pictured(u, w[KindOf[u]])'
                    /\ resource_version'[u] >= resource_version[u]
                    /\ lifecycle[u] = "missing" => lifecycle'[u] = "missing"
  BY DEF PicturedAt, ForwardStep
<1> DEFINE k == KindOf[u]
<1>0. /\ k \in Range(Kinds) /\ c[k] \in 0..Now /\ w[k] \in 0..Now /\ c[k] <= w[k]
      /\ Now \in Nat
  BY CutAt DEF Continues, LogInv, Now
<1>1. PICK v \in 0..Now : v = c[k]
  BY <1>0
<1>2. PICK z \in 0..Now : z = w[k]
  BY <1>0
<1>3. v \in Nat /\ z \in Nat /\ v <= z
  BY <1>0, <1>1, <1>2
<1>4. /\ lifecycle[u] \in {"absent", "active", "missing"}
      /\ resource_version[u] \in Nat
      /\ (lifecycle[u] = "active") <=> (VersionAt(u, v) # 0)
      /\ lifecycle[u] = "active" => resource_version[u] = VersionAt(u, v)
      /\ lifecycle[u] = "missing" => GoneBy(u, v)
      /\ lifecycle[u] = "absent" => resource_version[u] = 0
  BY <1>1 DEF PicturedAt, Pictured, ShowsVersion, ProjectionTypes
<1>5. /\ lifecycle'[u] = LifecycleAfter(es, u)
      /\ resource_version'[u] = VersionAfter(es, u)
  OBVIOUS
<1>6. VersionAt(u, z)' = VersionAt(u, z) /\ (GoneBy(u, z)' <=> GoneBy(u, z))
  BY <1>3, PastSame, PastVersions
<1>7. SUFFICES /\ (lifecycle'[u] = "active") <=> (VersionAt(u, z) # 0)
               /\ lifecycle'[u] = "active" => resource_version'[u] = VersionAt(u, z)
               /\ lifecycle'[u] = "missing" => GoneBy(u, z)
               /\ lifecycle'[u] = "absent" => resource_version'[u] = 0
               /\ resource_version'[u] >= resource_version[u]
               /\ lifecycle[u] = "missing" => lifecycle'[u] = "missing"
  <2>1. Pictured(u, z)'
    BY <1>6, <1>7 DEF Pictured, ShowsVersion
  <2> QED
    BY <1>2, <1>7, <2>1
<1>8. lifecycle[u] = "missing" => GoneBy(u, z)
  BY <1>3, <1>4, GoneStays
<1>9. CASE /\ \A i \in DOMAIN es : es[i].uid # u
           /\ VersionAt(u, z) = VersionAt(u, v)
  <2>1. LifecycleAfter(es, u) = lifecycle[u] /\ VersionAfter(es, u) = resource_version[u]
    BY <1>9 DEF LifecycleAfter, VersionAfter, EndsDeleted, LastUpsert
  <2> QED
    BY <1>4, <1>5, <1>8, <1>9, <2>1
<1>10. ASSUME NEW i \in DOMAIN es, es[i].uid = u,
              \A j \in DOMAIN es : es[j].uid = u => j <= i,
              v < es[i].rv, es[i].rv <= z, log[es[i].rv].uid = u,
              log[es[i].rv].deleted = es[i].deleted,
              VersionAt(u, z) = IF es[i].deleted THEN 0 ELSE es[i].rv
       PROVE  /\ (lifecycle'[u] = "active") <=> (VersionAt(u, z) # 0)
              /\ lifecycle'[u] = "active" => resource_version'[u] = VersionAt(u, z)
              /\ lifecycle'[u] = "missing" => GoneBy(u, z)
              /\ lifecycle'[u] = "absent" => resource_version'[u] = 0
              /\ resource_version'[u] >= resource_version[u]
              /\ lifecycle[u] = "missing" => lifecycle'[u] = "missing"
  <2>0. /\ es[i].rv \in 1..Now
        /\ \A j \in DOMAIN es : es[j].uid = u => es[j].rv \in Nat /\ v < es[j].rv
    <3>1. \A j \in DOMAIN es : j \in 1..Len(es)
      OBVIOUS
    <3>2. \A j \in 1..Len(es) :
             es[j].rv \in 1..Now /\ c[KindOf[es[j].uid]] < es[j].rv
      BY EventOf
    <3> QED
      BY <1>1, <3>1, <3>2
  <2>1. lifecycle[u] # "missing"
    <3> SUFFICES ASSUME lifecycle[u] = "missing" PROVE FALSE
      OBVIOUS
    <3>1. PICK x \in 1..v : log[x].uid = u /\ log[x].deleted
      BY <1>4 DEF GoneBy
    <3>2. es[i].rv <= x
      <4>1. x \in 1..Now /\ es[i].rv \in 1..Now
        BY <1>0, <1>1, <2>0
      <4> QED
        BY <1>10, <3>1, <4>1 DEF LogInv
    <3> QED
      BY <1>3, <1>10, <2>0, <3>2
  <2>2. resource_version[u] <= v
    <3>1. VersionAt(u, v) \in 0..v
      BY <1>3, VersionBound
    <3> QED
      BY <1>3, <1>4, <2>1, <3>1
  <2>3. CASE es[i].deleted
    <3>1. GoneBy(u, z)
      <4>1. es[i].rv \in 1..z
        BY <1>3, <1>10, <2>0
      <4> QED
        BY <1>10, <2>3, <4>1 DEF GoneBy
    <3>2. resource_version'[u] >= resource_version[u]
      BY <1>3, <1>4, <1>5, <1>10, <2>0, <2>2, <2>3, RowsAfterEvents
    <3>3. lifecycle'[u] = IF lifecycle[u] = "active" \/ LastUpsert(es, u) # {}
                          THEN "missing" ELSE lifecycle[u]
      BY <1>5, <1>10, <2>3, RowsAfterEvents
    <3>4. LastUpsert(es, u) = {} => resource_version'[u] = resource_version[u]
      BY <1>5 DEF VersionAfter
    <3> QED
      BY <1>4, <1>10, <2>1, <2>3, <3>1, <3>2, <3>3, <3>4
  <2>4. CASE ~es[i].deleted
    <3>1. lifecycle'[u] = "active" /\ resource_version'[u] = es[i].rv
      BY <1>5, <1>10, <2>4, RowsAfterEvents
    <3> QED
      BY <1>3, <1>4, <1>10, <2>0, <2>1, <2>2, <2>4, <3>1
  <2> QED
    BY <2>3, <2>4
<1> QED
  BY <1>1, <1>2, <1>9, <1>10, LastEvent

\* A snapshot that depicts a cut newer than all that was seen installs that
\* cut, and goes forward.
LEMMA SnapshotMoves ==
    ASSUME LogInv, ProjectionTypes, NEW c \in Cuts, PicturedAt(c), NEW v \in Cuts,
           UNCHANGED log, NEW s, ApplyRows(s),
           \A u \in Uids : /\ Seen(u, v[KindOf[u]])
                           /\ staging[s][u] = VersionAt(u, v[KindOf[u]])
    PROVE  PicturedAt(v)' /\ ForwardStep
<1> SUFFICES ASSUME NEW u \in Uids
             PROVE  /\ Pictured(u, v[KindOf[u]])'
                    /\ resource_version'[u] >= resource_version[u]
                    /\ lifecycle[u] = "missing" => lifecycle'[u] = "missing"
  BY DEF PicturedAt, ForwardStep
<1>0. /\ c[KindOf[u]] \in 0..Now /\ v[KindOf[u]] \in 0..Now /\ Now \in Nat
  BY CutAt DEF LogInv, Now
<1>1. PICK x \in 0..Now : x = c[KindOf[u]]
  BY <1>0
<1>2. PICK z \in 0..Now : z = v[KindOf[u]]
  BY <1>0
<1>3. x \in Nat /\ z \in Nat
  BY <1>0
<1>4. /\ lifecycle[u] \in {"absent", "active", "missing"}
      /\ resource_version[u] \in Nat
      /\ (lifecycle[u] = "active") <=> (VersionAt(u, x) # 0)
      /\ lifecycle[u] = "active" => resource_version[u] = VersionAt(u, x)
      /\ lifecycle[u] = "absent" => resource_version[u] = 0
  BY <1>1 DEF PicturedAt, Pictured, ShowsVersion, ProjectionTypes
<1>5. /\ lifecycle[u] = "active" => resource_version[u] <= z
      /\ lifecycle[u] = "missing" => GoneBy(u, z)
      /\ staging[s][u] = VersionAt(u, z)
  BY <1>2 DEF Seen
<1>6. /\ VersionAt(u, z) # 0 => lifecycle'[u] = "active" /\ resource_version'[u] = VersionAt(u, z)
      /\ VersionAt(u, z) = 0 =>
            /\ resource_version'[u] = resource_version[u]
            /\ lifecycle'[u] = IF lifecycle[u] = "active" THEN "missing" ELSE lifecycle[u]
  BY <1>5 DEF ApplyRows, LifecycleIfApplied, Staged
<1>7. VersionAt(u, z)' = VersionAt(u, z) /\ (GoneBy(u, z)' <=> GoneBy(u, z))
  BY PastSame, PastVersions
<1>8. VersionAt(u, z) # 0 =>
         /\ lifecycle[u] # "missing"
         /\ VersionAt(u, z) >= resource_version[u]
  <2> SUFFICES ASSUME VersionAt(u, z) # 0
               PROVE  /\ lifecycle[u] # "missing"
                      /\ VersionAt(u, z) >= resource_version[u]
    OBVIOUS
  <2>1. lifecycle[u] # "missing"
    BY <1>3, <1>5, GoneIsGone
  <2>2. VersionAt(u, z) \in Nat
    BY <1>3, VersionBound
  <2>3. CASE lifecycle[u] = "active"
    <3>1. /\ resource_version[u] \in 1..x /\ log[resource_version[u]].uid = u
      BY <1>3, <1>4, <2>3, VersionIsChange
    <3>2. resource_version[u] \in 1..z
      BY <1>3, <1>5, <2>3, <3>1
    <3>3. PICK i \in 1..z :
             /\ \A j \in 1..z : log[j].uid = u => j <= i
             /\ VersionAt(u, z) = IF log[i].deleted THEN 0 ELSE i
      BY <1>3, <3>1, <3>2, VersionIs
    <3> QED
      BY <2>1, <3>1, <3>2, <3>3
  <2> QED
    BY <1>4, <2>1, <2>2, <2>3
<1>9. lifecycle[u] = "active" /\ VersionAt(u, z) = 0 => GoneBy(u, z)
  <2> SUFFICES ASSUME lifecycle[u] = "active", VersionAt(u, z) = 0 PROVE GoneBy(u, z)
    OBVIOUS
  <2>1. /\ resource_version[u] \in 1..x /\ log[resource_version[u]].uid = u
    BY <1>3, <1>4, VersionIsChange
  <2>2. resource_version[u] \in 1..z
    BY <1>3, <1>5, <2>1
  <2>3. PICK i \in 1..z :
           /\ log[i].uid = u
           /\ VersionAt(u, z) = IF log[i].deleted THEN 0 ELSE i
    BY <1>3, <2>1, <2>2, VersionIs
  <2>4. log[i].deleted
    BY <2>3
  <2> QED
    BY <2>3, <2>4 DEF GoneBy
<1>10. Pictured(u, z)'
  <2>1. /\ (lifecycle'[u] = "active") <=> (VersionAt(u, z) # 0)
        /\ lifecycle'[u] = "active" => resource_version'[u] = VersionAt(u, z)
        /\ lifecycle'[u] = "missing" => GoneBy(u, z)
        /\ lifecycle'[u] = "absent" => resource_version'[u] = 0
    BY <1>4, <1>5, <1>6, <1>9
  <2> QED
    BY <1>7, <2>1 DEF Pictured, ShowsVersion
<1> QED
  BY <1>2, <1>4, <1>6, <1>8, <1>10

\* With no event left, and none in the cluster, the picture is today's.
LEMMA CaughtUpShows ==
    ASSUME LogInv, NEW c \in Cuts, NEW w \in Cuts, Continues(<<>>, c, w), PicturedAt(c),
           \A k \in Range(Kinds) : \A x \in (w[k] + 1)..Now : KindOf[log[x].uid] # k
    PROVE  \A u \in Uids : ShowsVersion(u, Now)
<1> SUFFICES ASSUME NEW u \in Uids PROVE ShowsVersion(u, Now)
  OBVIOUS
<1> DEFINE k == KindOf[u]
<1>0. /\ k \in Range(Kinds) /\ c[k] \in 0..Now /\ w[k] \in 0..Now /\ c[k] <= w[k]
      /\ Now \in Nat
  BY CutAt DEF Continues, LogInv, Now
<1>1. \A x \in (c[k] + 1)..Now : log[x].uid # u
  <2> SUFFICES ASSUME NEW x \in (c[k] + 1)..Now, log[x].uid = u PROVE FALSE
    OBVIOUS
  <2>1. x \in (c[k] + 1)..w[k] \/ x \in (w[k] + 1)..Now
    BY <1>0
  <2>2. x \in (c[k] + 1)..w[k] => \E i \in DOMAIN <<>> : TRUE
    BY <1>0 DEF Continues
  <2> QED
    BY <1>0, <2>1, <2>2
<1>2. VersionAt(u, Now) = VersionAt(u, c[k])
  BY <1>0, <1>1, VersionStays
<1>3. ShowsVersion(u, c[k])
  BY DEF PicturedAt, Pictured
<1> QED
  BY <1>2, <1>3 DEF ShowsVersion

\* If the next change of a kind is none, then no change is to come.
LEMMA NoNextChange ==
    ASSUME LogInv, NEW a, NEW k \in Range(Kinds), session[a].versions \in Cuts,
           NextChange(a, k) = {}
    PROVE  \A x \in (session[a].versions[k] + 1)..Now : KindOf[log[x].uid] # k
<1> DEFINE v == session[a].versions[k]
           S == {x \in (v + 1)..Now : KindOf[log[x].uid] = k}
<1>0. v \in 0..Now /\ Now \in Nat
  BY DEF Cuts, LogInv, Now
<1> SUFFICES ASSUME S # {} PROVE FALSE
  OBVIOUS
<1>1. PICK m \in S : \A n \in S : m <= n
  <2>1. S \subseteq Nat
    BY <1>0
  <2> HIDE DEF S
  <2> QED
    BY <2>1, LeastExists
<1>2. m \in NextChange(a, k)
  <2>1. \A j \in (v + 1)..(m - 1) : KindOf[log[j].uid] # k
    BY <1>0, <1>1
  <2> QED
    BY <1>1, <2>1 DEF NextChange
<1> QED
  BY <1>2

\* A projection that stands at a cut is a consistent cut, and what it misses
\* is gone.
LEMMA PicturedIsTrue ==
    ASSUME LogInv, Projected
    PROVE  ConsistentCut /\ MissingIsGone
<1>1. PICK c \in Cuts : PicturedAt(c)
  BY DEF Projected
<1>2. ConsistentCut
  <2> SUFFICES ASSUME NEW k \in Range(Kinds)
               PROVE  \E v \in 0..Now : \A u \in Uids : KindOf[u] = k => ShowsVersion(u, v)
    BY DEF ConsistentCut
  <2>1. c[k] \in 0..Now
    BY DEF Cuts
  <2>2. \A u \in Uids : KindOf[u] = k => ShowsVersion(u, c[k])
    BY <1>1 DEF PicturedAt, Pictured
  <2> QED
    BY <2>1, <2>2
<1>3. MissingIsGone
  <2> SUFFICES ASSUME NEW u \in Uids, lifecycle[u] = "missing" PROVE VersionAt(u, Now) = 0
    BY DEF MissingIsGone
  <2>1. c[KindOf[u]] \in 0..Now /\ Now \in Nat
    BY CutAt DEF LogInv, Now
  <2>2. GoneBy(u, c[KindOf[u]])
    BY <1>1 DEF PicturedAt, Pictured
  <2> QED
    BY <2>1, <2>2, GoneIsGone
<1> QED
  BY <1>2, <1>3

\* What is shown today was seen.
LEMMA PicturedIsSeen ==
    ASSUME LogInv, Projected, NEW u \in Uids
    PROVE  Seen(u, Now)
<1>1. PICK c \in Cuts : PicturedAt(c)
  BY DEF Projected
<1>2. c[KindOf[u]] \in 0..Now /\ Now \in Nat
  BY CutAt DEF LogInv, Now
<1>3. Pictured(u, c[KindOf[u]])
  BY <1>1 DEF PicturedAt
<1>4. lifecycle[u] = "active" => resource_version[u] <= Now
  BY <1>2, <1>3, VersionBound DEF Pictured, ShowsVersion
<1>5. lifecycle[u] = "missing" => GoneBy(u, Now)
  BY <1>2, <1>3, GoneStays DEF Pictured
<1> QED
  BY <1>4, <1>5 DEF Seen

----------------------------------------------------------------------------
(* What the agents say is true of the cluster.                             *)

\* The kinds that the session x has listed.
Listed(x) == {Kinds[i] : i \in 1..x.listed}

InPages(s, u) == \E m \in net : m.type = "page" /\ m.snap = s
                     /\ \E i \in DOMAIN m.content : m.content[i].uid = u

TrueRow(r, v) == r.rv = VersionAt(r.uid, v[KindOf[r.uid]])

\* Row r is of a kind the session x listed, and true of the version listed.
ListedRow(x, r) == KindOf[r.uid] \in Listed(x) /\ TrueRow(r, x.versions)

InBuffer(x, u) == \E i \in DOMAIN x.buffer : x.buffer[i].uid = u

\* What the session x sent and holds is what its lists saw: nothing false,
\* nothing left out, and nothing the API knows is newer while it may apply.
TrueLists(x) ==
    /\ \A m \in net : m.type = "page" /\ m.snap = x.snap =>
          \A i \in DOMAIN m.content : ListedRow(x, m.content[i])
    /\ \A i \in DOMAIN x.buffer : ListedRow(x, x.buffer[i])
    /\ \A u \in Uids :
          KindOf[u] \in Listed(x) /\ VersionAt(u, x.versions[KindOf[u]]) # 0 =>
             InPages(x.snap, u) \/ InBuffer(x, u)
    /\ status[x.snap] = "pending" =>
          \A u \in Uids : KindOf[u] \in Listed(x) => Seen(u, x.versions[KindOf[u]])
    /\ x.phase = "completing" => x.listed = Len(Kinds) /\ x.buffer = <<>>

TruthOf(a) ==
    /\ session[a].phase # "idle" => session[a].versions \in Cuts
    /\ Collects(a) => TrueLists(session[a])

SessionTruth == \A a \in Agents : TruthOf(a)

\* The snapshot s is the cluster at the cut v.
Depicts(s, v) ==
    /\ \A m \in net : m.type = "page" /\ m.snap = s =>
          \A i \in DOMAIN m.content : TrueRow(m.content[i], v)
    /\ \A u \in Uids : VersionAt(u, v[KindOf[u]]) # 0 => InPages(s, u)
    /\ status[s] = "pending" => \A u \in Uids : Seen(u, v[KindOf[u]])

CompleteTruth ==
    \A m \in net : m.type = "complete" => \E v \in Cuts : Depicts(m.snap, v)

----------------------------------------------------------------------------
(* The projection.                                                         *)

Active(a) == a = active_agent

\* The batch es continues what the projection shows.
Continuing(es) == \E c, w \in Cuts : PicturedAt(c) /\ Continues(es, c, w)

\* Events that would still be applied continue the projection.
LiveEvents ==
    \A m \in net :
        /\ m.type = "events" /\ Active(m.agent) /\ Fresh(m.agent)
        /\ m.seq = last_sequence[m.agent] + 1
        => Continuing(m.events)

\* The API took the begin of the agent's session.
Anchored(a) ==
    \/ Collects(a) /\ status[session[a].snap] # "absent"
    \/ Watches(a)

\* No straggler of an anchored agent can be applied.
OnlyRequestLives(a) ==
    \A m \in net : m.type # "begin" /\ m.agent = a => m.seq <= last_sequence[a] \/ m = request[a]

\* The complete of the agent's session is still to be applied, if ever.
NotApplied(a) ==
    /\ status[session[a].snap] # "complete"
    /\ answer[a] # "ok"
    /\ status[session[a].snap] = "pending" => last_sequence[a] < sequence[a]

\* It was applied: the projection is what the agent listed.
Applied(a) ==
    /\ PicturedAt(session[a].versions)
    /\ request[a].seq <= last_sequence[a]
    /\ status[session[a].snap] # "pending"
    /\ Fresh(a) => last_sequence[a] <= sequence[a]

\* The queue continues what the API shows.
QueueFits(a) ==
    \E c \in Cuts : PicturedAt(c) /\ Continues(session[a].queue, c, session[a].versions)

\* The batch under way does, and the queue the batch.
BatchFits(a) ==
    \E c, w \in Cuts :
       /\ PicturedAt(c)
       /\ Continues(request[a].events, c, w)
       /\ Continues(session[a].queue, w, session[a].versions)

\* The API has all that was sent.
CaughtUp(a) ==
    /\ request[a] = None \/ request[a].seq <= last_sequence[a]
    /\ QueueFits(a)

\* A batch is still to be taken.
InFlight(a) ==
    /\ request[a] # None /\ answer[a] # "ok"
    /\ Fresh(a) => request[a].seq = last_sequence[a] + 1
    /\ BatchFits(a)

\* Between the API and an anchored session nothing is lost.
Keeps(a) ==
    /\ OnlyRequestLives(a)
    /\ session[a].phase = "snapshot" /\ status[session[a].snap] = "pending" =>
          last_sequence[a] <= sequence[a]
    /\ session[a].phase = "completing" => NotApplied(a) \/ Applied(a)
    /\ Watches(a) => /\ Fresh(a) => last_sequence[a] <= sequence[a]
                     /\ CaughtUp(a) \/ InFlight(a)

\* A complete is accepted only of a snapshot whose begin was.
OkMeansOpened ==
    \A a \in Agents :
        answer[a] = "ok" /\ session[a].phase = "completing" => status[session[a].snap] # "absent"

AnchoredFacts == \A a \in Agents : Active(a) /\ Anchored(a) => Keeps(a)

PictureInv ==
    SessionTruth /\ CompleteTruth /\ Projected /\ LiveEvents /\ OkMeansOpened /\ AnchoredFacts

----------------------------------------------------------------------------
(* What the agents say stays true.                                         *)

\* A row that was true of a version stays true of it.
LEMMA PastRow ==
    ASSUME Past, NEW v \in Cuts, NEW r, r.uid \in Uids
    PROVE  TrueRow(r, v)' <=> TrueRow(r, v)
<1>1. PICK u \in Uids : u = r.uid
  OBVIOUS
<1>2. PICK w \in 0..Now : w = v[KindOf[u]]
  BY CutAt
<1>3. VersionAt(u, w)' = VersionAt(u, w)
  BY PastVersions
<1> QED
  BY <1>1, <1>2, <1>3 DEF TrueRow

\* The rows of a page name resources.
LEMMA PageRows ==
    ASSUME BaseInv, NEW m \in net, m.type = "page", NEW i \in DOMAIN m.content
    PROVE  m.content[i].uid \in Uids /\ m.content[i].rv \in Nat \ {0}
<1>1. m.content \in Seq(Resource)
  BY BaseNet
<1>2. m.content[i] \in Resource
  BY <1>1, ElementOf
<1> QED
  BY <1>2 DEF Resource

\* The pages of a snapshot only grow in number.
LEMMA PagesStay ==
    ASSUME NEW s, NEW u, net \subseteq net', InPages(s, u)
    PROVE  InPages(s, u)'
BY DEF InPages

\* What a session sent and holds stays true while it stays as it is.
LEMMA TrueListsStay ==
    ASSUME BaseInv, Past, NEW x \in Collecting, x.versions \in Cuts, TrueLists(x),
           net \subseteq net', \A m \in net' \ net : m.type = "page" => m.snap # x.snap,
           status'[x.snap] = "pending" =>
              \/ x.listed = 0
              \/ status[x.snap] = "pending" /\ UNCHANGED <<lifecycle, resource_version>>
    PROVE  TrueLists(x)'
<1> DEFINE v == x.versions
<1>0. x.buffer \in Seq(Resource) /\ x.listed \in 0..Len(Kinds)
  BY CollectingFields
<1>1. ASSUME NEW m \in net', m.type = "page", m.snap = x.snap, NEW i \in DOMAIN m.content
      PROVE  ListedRow(x, m.content[i])'
  <2>1. m \in net
    BY <1>1
  <2>2. ListedRow(x, m.content[i])
    BY <1>1, <2>1 DEF TrueLists
  <2>3. m.content[i].uid \in Uids
    BY <1>1, <2>1, PageRows
  <2>4. TrueRow(m.content[i], v)' <=> TrueRow(m.content[i], v)
    BY <2>3, PastRow
  <2> QED
    BY <2>2, <2>4 DEF ListedRow, Listed
<1>2. ASSUME NEW i \in DOMAIN x.buffer
      PROVE  ListedRow(x, x.buffer[i])'
  <2>1. ListedRow(x, x.buffer[i])
    BY DEF TrueLists
  <2>2. x.buffer[i] \in Resource
    BY <1>0, ElementOf
  <2>3. TrueRow(x.buffer[i], v)' <=> TrueRow(x.buffer[i], v)
    BY <2>2, PastRow DEF Resource
  <2> QED
    BY <2>1, <2>3 DEF ListedRow, Listed
<1>3. ASSUME NEW u \in Uids, KindOf[u] \in Listed(x), VersionAt(u, v[KindOf[u]])' # 0
      PROVE  InPages(x.snap, u)' \/ InBuffer(x, u)
  <2>1. PICK w \in 0..Now : w = v[KindOf[u]]
    BY CutAt
  <2>2. VersionAt(u, w)' = VersionAt(u, w)
    BY PastVersions
  <2>3. VersionAt(u, v[KindOf[u]]) # 0
    BY <1>3, <2>1, <2>2
  <2>4. InPages(x.snap, u) \/ InBuffer(x, u)
    BY <1>3, <2>3 DEF TrueLists
  <2> QED
    BY <2>4, PagesStay
<1>4. ASSUME status'[x.snap] = "pending", NEW u \in Uids, KindOf[u] \in Listed(x)
      PROVE  Seen(u, v[KindOf[u]])'
  <2>1. x.listed # 0
    BY <1>4 DEF Listed
  <2>2. status[x.snap] = "pending" /\ UNCHANGED <<lifecycle, resource_version>>
    BY <1>4, <2>1
  <2>3. PICK w \in 0..Now : w = v[KindOf[u]]
    BY CutAt
  <2>4. Seen(u, w)
    BY <1>4, <2>2, <2>3 DEF TrueLists
  <2>5. Seen(u, w)'
    BY <2>2, <2>4, PastSeen
  <2> QED
    BY <2>3, <2>5 DEF Seen, GoneBy
<1>5. x.phase = "completing" => x.listed = Len(Kinds) /\ x.buffer = <<>>
  BY DEF TrueLists
<1> HIDE DEF v
<1> QED
  BY <1>1, <1>2, <1>3, <1>4, <1>5 DEF TrueLists, Listed, InBuffer, v

\* What a complete stands for stays what it stands for.
LEMMA DepictsStay ==
    ASSUME BaseInv, Past, NEW s, NEW v \in Cuts, Depicts(s, v),
           net \subseteq net', \A m \in net' \ net : m.type = "page" => m.snap # s,
           status'[s] = "pending" =>
              status[s] = "pending" /\ UNCHANGED <<lifecycle, resource_version>>
    PROVE  Depicts(s, v)' /\ v \in Cuts'
<1>0. v \in Cuts'
  BY PastCuts
<1>1. ASSUME NEW m \in net', m.type = "page", m.snap = s, NEW i \in DOMAIN m.content
      PROVE  TrueRow(m.content[i], v)'
  <2>1. m \in net
    BY <1>1
  <2>2. TrueRow(m.content[i], v)
    BY <1>1, <2>1 DEF Depicts
  <2>3. m.content[i].uid \in Uids
    BY <1>1, <2>1, PageRows
  <2> QED
    BY <2>2, <2>3, PastRow
<1>2. ASSUME NEW u \in Uids, VersionAt(u, v[KindOf[u]])' # 0
      PROVE  InPages(s, u)'
  <2>1. PICK w \in 0..Now : w = v[KindOf[u]]
    BY CutAt
  <2>2. VersionAt(u, w)' = VersionAt(u, w)
    BY PastVersions
  <2>3. VersionAt(u, v[KindOf[u]]) # 0
    BY <1>2, <2>1, <2>2
  <2>4. InPages(s, u)
    BY <2>3 DEF Depicts
  <2> QED
    BY <2>4, PagesStay
<1>3. ASSUME status'[s] = "pending", NEW u \in Uids
      PROVE  Seen(u, v[KindOf[u]])'
  <2>2. status[s] = "pending" /\ UNCHANGED <<lifecycle, resource_version>>
    BY <1>3
  <2>3. PICK w \in 0..Now : w = v[KindOf[u]]
    BY CutAt
  <2>4. Seen(u, w)
    BY <2>2, <2>3 DEF Depicts
  <2>5. Seen(u, w)'
    BY <2>2, <2>4, PastSeen
  <2> QED
    BY <2>3, <2>5 DEF Seen, GoneBy
<1> QED
  BY <1>0, <1>1, <1>2, <1>3 DEF Depicts

\* A session that has listed everything and sent it has drawn the cluster.
LEMMA CompletingDepicts ==
    ASSUME SyncAssumption, NEW x \in Collecting, TrueLists(x),
           x.listed = Len(Kinds), x.buffer = <<>>
    PROVE  Depicts(x.snap, x.versions)
<1>1. \A u \in Uids : KindOf[u] \in Listed(x)
  <2> SUFFICES ASSUME NEW u \in Uids PROVE KindOf[u] \in Listed(x)
    OBVIOUS
  <2>1. KindOf[u] \in Range(Kinds)
    BY DEF SyncAssumption
  <2>2. PICK i \in DOMAIN Kinds : Kinds[i] = KindOf[u]
    BY <2>1 DEF Range
  <2>3. i \in 1..Len(Kinds)
    BY <2>2 DEF SyncAssumption
  <2> QED
    BY <2>2, <2>3 DEF Listed
<1>2. \A u \in Uids : ~InBuffer(x, u)
  BY DEF InBuffer
<1> QED
  BY <1>1, <1>2 DEF TrueLists, Depicts, ListedRow

----------------------------------------------------------------------------
(* What a complete puts into the projection.                               *)

\* A pending snapshot that is whole was staged as its agent listed it.
LEMMA StagedIsTrue ==
    ASSUME BaseInv, TrafficFacts, NEW m \in net, m.type = "complete",
           status[m.snap] = "pending", PageNumbers(m.snap) = 1..m.totalPages,
           NEW v \in Cuts, Depicts(m.snap, v), NEW u \in Uids
    PROVE  staging[m.snap][u] = VersionAt(u, v[KindOf[u]])
<1>1. PICK s \in Snapshots : s = m.snap
  BY BaseNet
<1>2. Stream!StagedFromPages(s)
  BY <1>1 DEF BaseInv, Stream!StagingAgrees
<1>3. RowsSent /\ PagesAgree /\ m.totalPages \in Nat
  BY BaseNet DEF TrafficFacts
<1>4. CASE staging[s][u] # 0
  <2>1. PICK p \in pages[s] : \E i \in DOMAIN p.content :
           p.content[i] = [uid |-> u, rv |-> staging[s][u]]
    BY <1>2, <1>4 DEF Stream!StagedFromPages
  <2>2. PICK i \in DOMAIN p.content : p.content[i] = [uid |-> u, rv |-> staging[s][u]]
    BY <2>1
  <2>3. PICK n \in net : n.type = "page" /\ n.snap = s /\ n.content = p.content
    BY <1>3 DEF RowsSent
  <2>4. TrueRow(n.content[i], v)
    BY <1>1, <2>2, <2>3 DEF Depicts
  <2>5. n.content[i].uid = u /\ n.content[i].rv = staging[s][u]
    BY <2>2, <2>3
  <2> QED
    BY <1>1, <2>4, <2>5 DEF TrueRow
<1>5. CASE staging[s][u] = 0
  <2> SUFFICES ASSUME VersionAt(u, v[KindOf[u]]) # 0 PROVE FALSE
    BY <1>1, <1>5
  <2>1. InPages(s, u)
    BY <1>1 DEF Depicts
  <2>2. PICK n \in net : n.type = "page" /\ n.snap = s
                            /\ \E i \in DOMAIN n.content : n.content[i].uid = u
    BY <2>1 DEF InPages
  <2>3. n.number <= m.totalPages /\ n.number \in Nat \ {0}
    BY <1>1, <1>3, <2>2, BaseNet DEF PagesAgree
  <2>4. n.number \in PageNumbers(s)
    BY <1>1, <1>3, <2>3
  <2>5. PICK p \in pages[s] : p.number = n.number
    BY <2>4 DEF PageNumbers
  <2>6. PICK z \in net : z.type = "page" /\ z.snap = s /\ z.number = p.number /\ z.content = p.content
    BY <1>3 DEF RowsSent
  <2>7. p.content = n.content
    BY <1>3, <2>2, <2>5, <2>6 DEF PagesAgree
  <2> QED
    BY <1>2, <1>5, <2>2, <2>7 DEF Stream!StagedFromPages
<1> QED
  BY <1>4, <1>5

\* A complete moves the whole projection to the versions of its lists.
LEMMA CompleteMoves ==
    ASSUME BaseInv, TrafficFacts, Projected, NEW m \in net, m.type = "complete",
           status[m.snap] = "pending", Continuous(m.snap, m.totalPages, m.totalResources),
           ApplySnapshot(m.agent, m.snap, m.seq), UNCHANGED log,
           NEW v \in Cuts, Depicts(m.snap, v)
    PROVE  PicturedAt(v)' /\ ForwardStep
<1>1. PICK s : s = m.snap
  OBVIOUS
<1>2. ApplyRows(s)
  BY <1>1 DEF ApplySnapshot
<1>3. \A u \in Uids : /\ Seen(u, v[KindOf[u]])
                      /\ staging[s][u] = VersionAt(u, v[KindOf[u]])
  <2>1. PageNumbers(m.snap) = 1..m.totalPages
    BY DEF Continuous
  <2>2. \A u \in Uids : staging[m.snap][u] = VersionAt(u, v[KindOf[u]])
    BY <2>1, StagedIsTrue
  <2>3. \A u \in Uids : Seen(u, v[KindOf[u]])
    BY DEF Depicts
  <2> QED
    BY <1>1, <2>2, <2>3
<1>4. PICK c \in Cuts : PicturedAt(c)
  BY DEF Projected
<1>5. LogInv /\ ProjectionTypes
  BY BaseTypes DEF BaseInv
<1> QED
  BY <1>2, <1>3, <1>4, <1>5, SnapshotMoves

----------------------------------------------------------------------------
(* What stays while the API stands still.                                  *)

\* The projection stays a picture of the cluster.
LEMMA ProjectedStays ==
    ASSUME Past, UNCHANGED <<lifecycle, resource_version>>, Projected
    PROVE  Projected'
<1>1. PICK c \in Cuts : PicturedAt(c)
  BY DEF Projected
<1>2. PicturedAt(c)' /\ c \in Cuts'
  BY <1>1, PastPicture, PastCuts
<1> QED
  BY <1>2 DEF Projected

\* What continues the projection, goes on doing so.
LEMMA ContinuingStays ==
    ASSUME Past, UNCHANGED <<lifecycle, resource_version>>, NEW es \in Seq(Event), Continuing(es)
    PROVE  Continuing(es)'
<1>1. PICK c \in Cuts, w \in Cuts : PicturedAt(c) /\ Continues(es, c, w)
  BY DEF Continuing
<1>2. PicturedAt(c)' /\ c \in Cuts' /\ w \in Cuts'
  BY <1>1, PastPicture, PastCuts
<1>3. Continues(es, c, w)'
  BY <1>1, PastEvents
<1> QED
  BY <1>2, <1>3 DEF Continuing

\* No new batch, and no batch that becomes the next one.
LEMMA LiveEventsStay ==
    ASSUME BaseInv, LiveEvents, Past, UNCHANGED <<lifecycle, resource_version, active_agent>>,
           \A m \in net' \ net : m.type # "events",
           \A a \in Agents : Fresh(a)' => Fresh(a),
           \A m \in net : m.type = "events" /\ m.seq = last_sequence'[m.agent] + 1 =>
                             m.seq = last_sequence[m.agent] + 1
    PROVE  LiveEvents'
<1> SUFFICES ASSUME NEW m \in net', m.type = "events", Active(m.agent)', Fresh(m.agent)',
                    m.seq = last_sequence'[m.agent] + 1
             PROVE  Continuing(m.events)'
  BY DEF LiveEvents
<1>1. m \in net
  OBVIOUS
<1>2. m.agent \in Agents /\ m.events \in Seq(Event)
  BY <1>1, BaseNet
<1>3. Active(m.agent) /\ Fresh(m.agent) /\ m.seq = last_sequence[m.agent] + 1
  BY <1>1, <1>2 DEF Active
<1>4. Continuing(m.events)
  BY <1>1, <1>3 DEF LiveEvents
<1> QED
  BY <1>2, <1>4, ContinuingStays

\* What fits goes on fitting.
LEMMA QueueStays ==
    ASSUME BaseInv, SessionTruth, Past, UNCHANGED <<lifecycle, resource_version>>,
           NEW a \in Agents, Watches(a), session'[a] = session[a], QueueFits(a)
    PROVE  QueueFits(a)'
<1> PICK x : x = session[a]
  OBVIOUS
<1>0. session'[a] = x
  OBVIOUS
<1>1. x.queue \in Seq(Event) /\ x.versions \in Cuts
  BY SessionFields, WatchingFields DEF SessionTruth, TruthOf, BaseInv, Watches
<1>2. PICK c \in Cuts : PicturedAt(c) /\ Continues(x.queue, c, x.versions)
  BY DEF QueueFits
<1>3. PicturedAt(c)' /\ c \in Cuts'
  BY <1>2, PastPicture, PastCuts
<1>4. Continues(x.queue, c, x.versions)'
  BY <1>1, <1>2, PastEvents
<1>5. Continues(session[a].queue, c, session[a].versions)'
  BY <1>0, <1>4 DEF Continues, WatchEvent
<1> QED
  BY <1>3, <1>5, Zenon DEF QueueFits

\* A batch under way stays right while the cluster only grows.
LEMMA BatchStays ==
    ASSUME BaseInv, SessionTruth, Past, UNCHANGED <<lifecycle, resource_version>>,
           NEW a \in Agents, Watches(a), session'[a] = session[a], request'[a] = request[a],
           request[a] # None, BatchFits(a)
    PROVE  BatchFits(a)'
<1> PICK x : x = session[a]
  OBVIOUS
<1> PICK r : r = request[a]
  OBVIOUS
<1>0. session'[a] = x /\ request'[a] = r
  OBVIOUS
<1>1. x.queue \in Seq(Event) /\ x.versions \in Cuts
  BY SessionFields, WatchingFields DEF SessionTruth, TruthOf, BaseInv, Watches
<1>2. PICK c \in Cuts, w \in Cuts :
         PicturedAt(c) /\ Continues(r.events, c, w) /\ Continues(x.queue, w, x.versions)
  BY DEF BatchFits
<1>3. PicturedAt(c)' /\ c \in Cuts' /\ w \in Cuts'
  BY <1>2, PastPicture, PastCuts
<1>4. r.events \in Seq(Event)
  <2>1. r \in net /\ r # None
    BY DEF BaseInv, BeginInv, AgentFacts
  <2>2. r.type = "events"
    BY <2>1 DEF BaseInv, SessionFacts, Shape, Watches
  <2> QED
    BY <2>1, <2>2, BaseNet
<1>5. Continues(x.queue, w, x.versions)'
  BY <1>1, <1>2, PastEvents
<1>6. Continues(r.events, c, w)'
  BY <1>2, <1>4, PastEvents
<1>7. Continues(session[a].queue, w, session[a].versions)'
  BY <1>0, <1>5 DEF Continues, WatchEvent
<1>8. Continues(request[a].events, c, w)'
  BY <1>0, <1>6 DEF Continues, WatchEvent
<1> QED
  BY <1>3, <1>7, <1>8, Zenon DEF BatchFits

\* What was listed and shown stays so while the cluster only grows.
LEMMA ListedStays ==
    ASSUME SessionTruth, Past, UNCHANGED <<lifecycle, resource_version>>,
           NEW a \in Agents, session[a].phase # "idle", session'[a] = session[a],
           PicturedAt(session[a].versions)
    PROVE  PicturedAt(session[a].versions)'
<1> PICK x : x = session[a]
  OBVIOUS
<1>1. session'[a] = x
  OBVIOUS
<1>2. x.versions \in Cuts
  BY DEF SessionTruth, TruthOf
<1>3. PicturedAt(x.versions)'
  BY <1>2, PastPicture
<1> QED
  BY <1>1, <1>3 DEF PicturedAt, Pictured, ShowsVersion

\* An agent that waits stays as it was with the API.
LEMMA KeepsStay ==
    ASSUME BaseInv, SessionTruth, Past, UNCHANGED <<lifecycle, resource_version>>,
           NEW a \in Agents, Keeps(a),
           session'[a] = session[a], request'[a] = request[a], sequence'[a] = sequence[a],
           \/ answer'[a] = answer[a] \/ answer'[a] # "ok"
           \/ /\ session[a].phase = "completing" => ~NotApplied(a)
              /\ Watches(a) => ~InFlight(a),
           last_sequence'[a] = last_sequence[a], Fresh(a)' => Fresh(a),
           \A m \in net' \ net : m.agent = a => m.type = "begin",
           Collects(a) =>
              \/ status'[session[a].snap] = status[session[a].snap]
              \/ status'[session[a].snap] \in {"discarded", "pruned"}
    PROVE  Keeps(a)'
<1> PICK x : x = session[a]
  OBVIOUS
<1> PICK r : r = request[a]
  OBVIOUS
<1>0. session'[a] = x /\ request'[a] = r
  OBVIOUS
<1>1. OnlyRequestLives(a)'
  <2>1. OnlyRequestLives(a)
    BY DEF Keeps
  <2> QED
    BY <1>0, <2>1 DEF OnlyRequestLives
<1>2. ASSUME x.phase = "snapshot", status'[x.snap] = "pending"
      PROVE  last_sequence'[a] <= sequence'[a]
  BY <1>2 DEF Keeps, Collects
<1>3. ASSUME x.phase = "completing"
      PROVE  NotApplied(a)' \/ Applied(a)'
  <2>0. \/ status'[x.snap] = status[x.snap]
        \/ status'[x.snap] \in {"discarded", "pruned"}
    BY <1>3 DEF Collects
  <2>1. CASE NotApplied(a)
    BY <1>0, <1>3, <2>0, <2>1 DEF NotApplied
  <2>2. CASE Applied(a)
    <3>1. PicturedAt(session[a].versions)'
      BY <1>3, <2>2, ListedStays DEF Applied
    <3> QED
      BY <1>0, <2>0, <2>2, <3>1 DEF Applied
  <2> QED
    BY <1>3, <2>1, <2>2 DEF Keeps
<1>4. ASSUME x.phase = "watch"
      PROVE  /\ Fresh(a)' => last_sequence'[a] <= sequence'[a]
             /\ CaughtUp(a)' \/ InFlight(a)'
  <2>0. /\ Fresh(a) => last_sequence[a] <= sequence[a]
        /\ CaughtUp(a) \/ InFlight(a)
        /\ Watches(a)
    BY <1>4 DEF Keeps, Watches
  <2>1. CASE CaughtUp(a)
    <3>1. QueueFits(a)'
      BY <2>0, <2>1, QueueStays DEF CaughtUp
    <3>2. request'[a] = None \/ request'[a].seq <= last_sequence'[a]
      BY <1>0, <2>1 DEF CaughtUp
    <3>3. CaughtUp(a)'
      BY <3>1, <3>2 DEF CaughtUp
    <3> QED
      BY <2>0, <3>3
  <2>2. CASE InFlight(a)
    <3>1. BatchFits(a)'
      BY <2>0, <2>2, BatchStays DEF InFlight
    <3>2. request'[a] # None /\ answer'[a] # "ok"
          /\ (Fresh(a)' => request'[a].seq = last_sequence'[a] + 1)
      BY <1>0, <2>0, <2>2 DEF InFlight
    <3>3. InFlight(a)'
      BY <3>1, <3>2 DEF InFlight
    <3> QED
      BY <2>0, <3>3
  <2> QED
    BY <2>0, <2>1, <2>2
<1> QED
  BY <1>0, <1>1, <1>2, <1>3, <1>4 DEF Keeps, Watches

----------------------------------------------------------------------------
(* The truth of lists and completes, while nothing new is listed.          *)

\* A begin that was not answered yet is its session's request, and that
\* session has listed nothing.
LEMMA NotBegunNotListed ==
    ASSUME BaseInv, TrafficFacts, NEW a \in Agents, Collects(a), ~Begun(session[a].snap)
    PROVE  session[a].listed = 0
<1>1. Sent(a)
  BY DEF TrafficFacts
<1>2. request[a] # None /\ request[a].type = "begin"
  BY <1>1 DEF Sent
<1>3. Shape(a)
  BY DEF BaseInv, SessionFacts
<1> QED
  BY <1>2, <1>3 DEF Shape, Collects

\* Lists and completes stay true while no agent lists anything new.
LEMMA TruthStays ==
    ASSUME BaseInv, TrafficFacts, SessionTruth, CompleteTruth, Past, net \subseteq net',
           \A s \in Snapshots : status'[s] = "pending" =>
              \/ status[s] = "pending" /\ UNCHANGED <<lifecycle, resource_version>>
              \/ ~Begun(s),
           \A b \in Agents :
              \/ /\ session'[b] = session[b]
                 /\ Collects(b) => \A m \in net' \ net : m.type = "page" => m.snap # session[b].snap
              \/ TruthOf(b)',
           \A m \in net' \ net : m.type = "complete" => \E v \in Cuts' : Depicts(m.snap, v)',
           \A m \in net : \A n \in net' \ net :
              m.type = "complete" /\ n.type = "page" => n.snap # m.snap
    PROVE  SessionTruth' /\ CompleteTruth'
<1>1. ASSUME NEW b \in Agents PROVE TruthOf(b)'
  <2>1. CASE /\ session'[b] = session[b]
             /\ Collects(b) => \A m \in net' \ net : m.type = "page" => m.snap # session[b].snap
    <3>0. TruthOf(b)
      BY DEF SessionTruth
    <3> PICK x : x = session[b]
      OBVIOUS
    <3>1. x.phase # "idle" => x.versions \in Cuts /\ x.versions \in Cuts'
      BY <3>0, PastCuts DEF TruthOf
    <3>2. ASSUME x.phase \in {"snapshot", "completing"} PROVE TrueLists(x)'
      <4>0. Collects(b) /\ x \in Collecting /\ x.snap \in Snapshots
        BY <3>2, SessionFields, CollectingFields DEF Collects, BaseInv
      <4>1. TrueLists(x)
        BY <3>0, <4>0 DEF TruthOf
      <4>2. status'[x.snap] = "pending" =>
              \/ x.listed = 0
              \/ status[x.snap] = "pending" /\ UNCHANGED <<lifecycle, resource_version>>
        BY <4>0, NotBegunNotListed
      <4>3. x.versions \in Cuts
        BY <3>1, <3>2
      <4>4. \A m \in net' \ net : m.type = "page" => m.snap # x.snap
        BY <2>1, <4>0
      <4> QED
        BY <4>0, <4>1, <4>2, <4>3, <4>4, TrueListsStay
    <3>3. session'[b] = x
      BY <2>1
    <3>4. session'[b].phase # "idle" => session'[b].versions \in Cuts'
      BY <3>1, <3>3
    <3>5. Collects(b)' => TrueLists(session[b])'
      BY <3>2, <3>3 DEF Collects, TrueLists, Listed, ListedRow, TrueRow, InPages, InBuffer
    <3> QED
      BY <3>4, <3>5 DEF TruthOf
  <2> QED
    BY <2>1
<1>2. ASSUME NEW m \in net', m.type = "complete" PROVE \E v \in Cuts' : Depicts(m.snap, v)'
  <2>1. CASE m \in net
    <3> PICK s : s = m.snap
      OBVIOUS
    <3>1. PICK v \in Cuts : Depicts(s, v)
      BY <1>2, <2>1 DEF CompleteTruth
    <3>2. Begun(s) /\ s \in Snapshots
      BY <1>2, <2>1, BaseNet DEF TrafficFacts, BegunFirst
    <3>3. status'[s] = "pending" =>
              status[s] = "pending" /\ UNCHANGED <<lifecycle, resource_version>>
      BY <3>2
    <3>4. \A n \in net' \ net : n.type = "page" => n.snap # s
      BY <1>2, <2>1
    <3>5. Depicts(s, v)' /\ v \in Cuts'
      BY <3>1, <3>3, <3>4, DepictsStay
    <3> QED
      BY <3>5
  <2> QED
    BY <1>2, <2>1
<1> QED
  BY <1>1, <1>2 DEF SessionTruth, CompleteTruth

----------------------------------------------------------------------------
(* What a message does to the API, seen from the pipeline.                 *)

Untouched == UNCHANGED <<active_agent, last_sequence, status, inventory_state,
                         lifecycle, resource_version>>

\* A begin opens a snapshot.
Opens(m) ==
    /\ m.type = "begin" /\ status[m.snap] = "absent"
    /\ last_sequence[m.agent] < m.seq
    /\ OpenSnapshot(m.agent, m.snap, m.seq)

\* A page takes its number.
TakesPage(m) ==
    /\ m.type = "page" /\ status[m.snap] = "pending"
    /\ m.seq = last_sequence[m.agent] + 1
    /\ AdvanceSequence(m.agent, m.seq)
    /\ UNCHANGED <<status, inventory_state, lifecycle, resource_version>>

\* A complete moves the projection.
Completes(m) ==
    /\ m.type = "complete" /\ status[m.snap] = "pending"
    /\ m.seq = last_sequence[m.agent] + 1
    /\ Continuous(m.snap, m.totalPages, m.totalResources)
    /\ ApplySnapshot(m.agent, m.snap, m.seq)

\* A batch of events does.
TakesEvents(m) ==
    /\ m.type = "events"
    /\ Fresh(m.agent) /\ pending_snapshot = None
    /\ m.seq = last_sequence[m.agent] + 1
    /\ ApplyEvents(m.agent, m.events, m.seq)

\* A handled message does one of four things, or nothing that matters.
LEMMA HandledKinds ==
    ASSUME BaseInv, NEW m \in net, Handle(m)
    PROVE  \/ Untouched
           \/ /\ Active(m.agent) /\ UNCHANGED active_agent
              /\ Opens(m) \/ TakesPage(m) \/ Completes(m) \/ TakesEvents(m)
<1>0. /\ m.seq \in Nat /\ last_sequence[m.agent] \in Nat /\ m.agent \in Agents
      /\ m.type \in {"begin", "page", "complete", "events"}
      /\ m.type # "events" => m.snap \in Snapshots
      /\ status \in [Snapshots -> Statuses]
  BY BaseNet, BaseTypes
<1>1. UNCHANGED ingestVars => Untouched
  BY DEF ingestVars, Untouched, writerVars, snapshotVars, agentVars, projection, shownRows
<1>2. ASSUME NEW d, Refuse(m.agent, d) PROVE Untouched
  BY <1>2 DEF Refuse, Untouched, writerVars, snapshotVars, agentVars, projection, shownRows
<1>3. CASE m.type = "begin"
  <2>1. ASSUME m.agent = active_agent,
               status[m.snap] \notin {"pending", "complete", "discarded", "pruned"},
               ~(m.seq <= last_sequence[m.agent]), OpenSnapshot(m.agent, m.snap, m.seq)
        PROVE  Active(m.agent) /\ UNCHANGED active_agent /\ Opens(m)
    <3>1. status[m.snap] = "absent"
      BY <1>0, <1>3, <2>1 DEF Statuses
    <3>2. UNCHANGED active_agent
      BY <2>1 DEF OpenSnapshot
    <3> QED
      BY <1>0, <1>3, <2>1, <3>1, <3>2 DEF Opens, Active
  <2> QED
    BY <1>1, <1>3, <2>1, BeginOutcome
<1>4. CASE m.type = "page"
  <2>1. ASSUME m.agent = active_agent, status[m.snap] = "pending",
               m.seq = last_sequence[m.agent] + 1,
               \/ KeepSequence(m.agent, m.seq)
               \/ StorePage(m.agent, m.snap, m.number, m.content, m.seq)
        PROVE  Active(m.agent) /\ UNCHANGED active_agent /\ TakesPage(m)
    <3>1. /\ UNCHANGED <<active_agent, status, inventory_state, lifecycle, resource_version>>
          /\ AdvanceSequence(m.agent, m.seq)
      BY <2>1 DEF KeepSequence, StorePage, writerVars, snapshotVars, projection, shownRows
    <3> QED
      BY <1>4, <2>1, <3>1 DEF TakesPage, Active
  <2> QED
    BY <1>0, <1>1, <1>2, <1>4, <2>1, PageOutcome
<1>5. CASE m.type = "complete"
  <2>1. ASSUME m.agent = active_agent, status[m.snap] = "pending",
               m.seq = last_sequence[m.agent] + 1,
               Continuous(m.snap, m.totalPages, m.totalResources),
               ApplySnapshot(m.agent, m.snap, m.seq)
        PROVE  Active(m.agent) /\ UNCHANGED active_agent /\ Completes(m)
    <3>1. UNCHANGED active_agent
      BY <2>1 DEF ApplySnapshot
    <3> QED
      BY <1>5, <2>1, <3>1 DEF Completes, Active
  <2> QED
    BY <1>0, <1>1, <1>2, <1>5, <2>1, CompleteOutcome
<1>6. CASE m.type = "events"
  <2>1. ASSUME m.agent = active_agent, Fresh(m.agent), pending_snapshot = None,
               m.seq = last_sequence[m.agent] + 1,
               ApplyEvents(m.agent, m.events, m.seq)
        PROVE  Active(m.agent) /\ UNCHANGED active_agent /\ TakesEvents(m)
    <3>1. UNCHANGED active_agent
      BY <2>1 DEF ApplyEvents, writerVars
    <3> QED
      BY <1>6, <2>1, <3>1 DEF TakesEvents, Active
  <2> QED
    BY <1>0, <1>1, <1>2, <1>6, <2>1, EventsOutcome
<1> QED
  BY <1>0, <1>3, <1>4, <1>5, <1>6

\* Whatever moves the projection leaves no snapshot pending.
LEMMA NothingPends ==
    ASSUME BaseInv, NEW m \in net, Completes(m) \/ TakesEvents(m), NEW s \in Snapshots
    PROVE  status'[s] # "pending"
<1>1. \A t \in Snapshots : status[t] = "pending" => pending_snapshot = t
  BY DEF BaseInv, Stream!WriterInv, Stream!NewestPending
<1>2. status \in [Snapshots -> Statuses]
  BY BaseTypes
<1>3. CASE Completes(m)
  <2>1. m.snap \in Snapshots /\ pending_snapshot = m.snap
    BY <1>1, <1>3, BaseNet DEF Completes
  <2>2. status' = [status EXCEPT ![m.snap] = "complete"]
    BY <1>3 DEF Completes, ApplySnapshot
  <2>3. CASE s = m.snap
    BY <1>2, <2>1, <2>2, <2>3
  <2>4. CASE s # m.snap
    BY <1>1, <1>2, <2>1, <2>2, <2>4
  <2> QED
    BY <2>3, <2>4
<1>4. CASE TakesEvents(m)
  <2>1. pending_snapshot = None /\ UNCHANGED status
    BY <1>4 DEF TakesEvents, ApplyEvents, snapshotVars
  <2>2. None \notin Snapshots
    BY IngestAssumption DEF IngestAssumption
  <2> QED
    BY <1>1, <2>1, <2>2
<1> QED
  BY <1>3, <1>4

----------------------------------------------------------------------------
(* A message at the API: the picture survives each of its outcomes.        *)

\* What handling a message leaves alone.
Handled(m) ==
    /\ Handle(m)
    /\ UNCHANGED <<log, net, issued, sequence, stored, session, request>>
    /\ \A b \in Agents : \/ answer'[b] = answer[b]
                         \/ answer'[b] = "failed"
                         \/ request[b] = m /\ Accepts(m)

\* A delivered message is a handled one.
LEMMA DeliversHandled ==
    ASSUME BaseInv, NEW m, Delivers(m)
    PROVE  Handled(m)
<1>1. ASSUME NEW a \in Agents, request[a] = m,
             answer' = [answer EXCEPT ![a] = IF Accepts(m) THEN "ok" ELSE "failed"],
             NEW b \in Agents
      PROVE  \/ answer'[b] = answer[b]
             \/ answer'[b] = "failed"
             \/ request[b] = m /\ Accepts(m)
  <2>0. answer \in [Agents -> {"none", "ok", "failed"}]
    BY DEF BaseInv, BeginInv, AgentFacts
  <2>1. CASE a = b
    <3>1. answer'[b] = IF Accepts(m) THEN "ok" ELSE "failed"
      BY <1>1, <2>0, <2>1
    <3> QED
      BY <1>1, <2>1, <3>1
  <2>2. CASE a # b
    BY <1>1, <2>0, <2>2
  <2> QED
    BY <2>1, <2>2
<1> QED
  BY <1>1 DEF Delivers, Handled

\* The sequence moves to the message that is taken.
LEMMA TakenNumber ==
    ASSUME BaseInv, NEW m \in net, Opens(m) \/ TakesPage(m) \/ Completes(m) \/ TakesEvents(m)
    PROVE  /\ last_sequence' = [last_sequence EXCEPT ![m.agent] = m.seq]
           /\ last_sequence'[m.agent] = m.seq
           /\ last_sequence[m.agent] < m.seq
<1>0. /\ m.seq \in Nat /\ last_sequence[m.agent] \in Nat /\ m.agent \in Agents
      /\ last_sequence \in [Agents -> Nat]
  BY BaseNet, BaseTypes
<1>1. AdvanceSequence(m.agent, m.seq) /\ last_sequence[m.agent] < m.seq
  BY <1>0 DEF Opens, TakesPage, Completes, TakesEvents, OpenSnapshot, ApplySnapshot, ApplyEvents
<1> QED
  BY <1>0, <1>1 DEF AdvanceSequence

\* A session's lists and a complete stay true, whatever is handled.
LEMMA TruthHandled ==
    ASSUME BaseInv, TrafficFacts, SessionTruth, CompleteTruth, NEW m \in net, Handled(m)
    PROVE  SessionTruth' /\ CompleteTruth'
<1>1. Past
  BY PastSame DEF Handled, BaseInv
<1>2. UNCHANGED <<net, session>> /\ Handle(m)
  BY DEF Handled
<1>3. ASSUME NEW s \in Snapshots, status'[s] = "pending"
      PROVE  \/ status[s] = "pending" /\ UNCHANGED <<lifecycle, resource_version>>
             \/ ~Begun(s)
  <2>1. CASE Untouched \/ TakesPage(m)
    BY <1>3, <2>1 DEF Untouched, TakesPage
  <2>2. CASE Opens(m)
    <3>1. UNCHANGED <<lifecycle, resource_version>>
      BY <2>2 DEF Opens, OpenSnapshot, projection, shownRows
    <3>2. s = m.snap \/ status[s] = "pending"
      BY <1>3, <2>2 DEF Opens, OpenSnapshot, Supersede
    <3>3. ~Begun(m.snap)
      <4>1. m.seq \in Nat /\ last_sequence[m.agent] \in Nat
        BY BaseNet
      <4> QED
        BY <2>2, <4>1 DEF Opens, Begun
    <3> QED
      BY <3>1, <3>2, <3>3
  <2>3. CASE Completes(m) \/ TakesEvents(m)
    BY <1>3, <2>3, NothingPends
  <2> QED
    BY <1>2, <2>1, <2>2, <2>3, HandledKinds
<1> QED
  BY <1>1, <1>2, <1>3, TruthStays

\* The projection goes on being a picture of the cluster, and forward.
LEMMA ProjectionHandled ==
    ASSUME BaseInv, TrafficFacts, CompleteTruth, Projected, LiveEvents, NEW m \in net, Handled(m)
    PROVE  Projected' /\ (ForwardStep \/ UNCHANGED <<lifecycle, resource_version>>)
<1>1. Past
  BY PastSame DEF Handled, BaseInv
<1>2. UNCHANGED log /\ Handle(m) /\ LogInv
  BY DEF Handled, BaseInv
<1>3. CASE UNCHANGED <<lifecycle, resource_version>>
  BY <1>1, <1>3, ProjectedStays
<1>4. CASE Untouched \/ TakesPage(m) \/ Opens(m)
  BY <1>3, <1>4 DEF Untouched, TakesPage, Opens, OpenSnapshot, projection, shownRows
<1>5. CASE Completes(m)
  <2>1. PICK v \in Cuts : Depicts(m.snap, v)
    BY <1>5 DEF Completes, CompleteTruth
  <2>2. PicturedAt(v)' /\ ForwardStep
    BY <1>2, <1>5, <2>1, CompleteMoves DEF Completes
  <2>3. v \in Cuts'
    BY <1>1, PastCuts
  <2> QED
    BY <2>2, <2>3 DEF Projected
<1>6. CASE TakesEvents(m) /\ Active(m.agent)
  <2>1. Continuing(m.events)
    BY <1>6 DEF TakesEvents, LiveEvents
  <2>2. PICK c \in Cuts, w \in Cuts : PicturedAt(c) /\ Continues(m.events, c, w)
    BY <2>1 DEF Continuing
  <2>3. /\ m.events \in Seq(Event) /\ ProjectionTypes
        /\ lifecycle' = [u \in Uids |-> LifecycleAfter(m.events, u)]
        /\ resource_version' = [u \in Uids |-> VersionAfter(m.events, u)]
    BY <1>6, BaseNet, BaseTypes DEF TakesEvents, ApplyEvents
  <2>4. PICK es \in Seq(Event) : es = m.events
    BY <2>3
  <2>5. PicturedAt(w)' /\ ForwardStep
    BY <1>2, <2>2, <2>3, <2>4, EventsMove
  <2>6. w \in Cuts'
    BY <1>1, PastCuts
  <2> QED
    BY <2>5, <2>6 DEF Projected
<1> QED
  BY <1>2, <1>4, <1>5, <1>6, HandledKinds

\* No message but the one that is taken next was waiting.
LEMMA LiveHandled ==
    ASSUME BaseInv, SequenceFacts, LiveEvents, NEW m \in net, Handled(m)
    PROVE  LiveEvents'
<1>1. Past
  BY PastSame DEF Handled, BaseInv
<1>2. UNCHANGED net /\ Handle(m)
  BY DEF Handled
<1>3. CASE Untouched
  BY <1>1, <1>2, <1>3, LiveEventsStay DEF Untouched, Fresh
<1>4. CASE Active(m.agent) /\ UNCHANGED active_agent
           /\ (Opens(m) \/ TakesPage(m) \/ Completes(m) \/ TakesEvents(m))
  <2> SUFFICES ASSUME NEW n \in net, n.type = "events", Active(n.agent)',
                      n.seq = last_sequence'[n.agent] + 1
               PROVE  FALSE
    BY <1>2 DEF LiveEvents
  <2>1. n.agent = m.agent
    BY <1>4 DEF Active
  <2>2. n.seq <= last_sequence[n.agent] + 1
    BY DEF SequenceFacts
  <2>3. last_sequence[n.agent] < last_sequence'[n.agent]
    BY <1>4, <2>1, TakenNumber
  <2>4. n.seq \in Nat /\ m.seq \in Nat /\ last_sequence[n.agent] \in Nat
        /\ last_sequence'[n.agent] = m.seq
    BY <1>4, <2>1, TakenNumber, BaseNet
  <2> QED
    BY <2>2, <2>3, <2>4
<1> QED
  BY <1>2, <1>3, <1>4, HandledKinds

\* A snapshot that was opened stays known, and a complete that is accepted
\* is of one.
LEMMA OpenedStays ==
    ASSUME BaseInv, NEW m \in net, Handle(m), NEW s \in Snapshots, status[s] # "absent"
    PROVE  status'[s] # "absent"
<1>1. status \in [Snapshots -> Statuses]
  BY BaseTypes
<1>2. CASE Untouched \/ TakesPage(m) \/ TakesEvents(m)
  BY <1>2 DEF Untouched, TakesPage, TakesEvents, ApplyEvents, snapshotVars
<1>3. CASE Opens(m)
  BY <1>3 DEF Opens, OpenSnapshot, Supersede
<1>4. CASE Completes(m)
  <2>1. status' = [status EXCEPT ![m.snap] = "complete"]
    BY <1>4 DEF Completes, ApplySnapshot
  <2> QED
    BY <1>1, <2>1
<1> QED
  BY <1>2, <1>3, <1>4, HandledKinds

\* A complete that is answered with 2xx has an opened snapshot.
LEMMA OkHandled ==
    ASSUME BaseInv, OkMeansOpened, NEW m \in net, Handled(m)
    PROVE  OkMeansOpened'
<1>1. UNCHANGED session /\ Handle(m)
  BY DEF Handled
<1> SUFFICES ASSUME NEW a \in Agents, answer'[a] = "ok", session[a].phase = "completing"
             PROVE  status'[session[a].snap] # "absent"
  BY <1>1 DEF OkMeansOpened
<1>2. PICK s \in Snapshots : s = session[a].snap
  BY SessionFields, CollectingFields DEF Collects, BaseInv
<1>3. CASE answer'[a] = answer[a]
  BY <1>1, <1>2, <1>3, OpenedStays DEF OkMeansOpened
<1>4. CASE request[a] = m /\ Accepts(m)
  <2>1. m.type = "complete" /\ m.snap = s
    BY <1>2, <1>4 DEF BaseInv, SessionFacts, Shape
  <2>2. m.seq \in Nat /\ last_sequence[m.agent] \in Nat
    BY BaseNet
  <2>3. status[s] # "absent"
    BY <1>1, <1>4, <2>1, <2>2, CompleteOutcome
  <2> QED
    BY <1>1, <1>2, <2>3, OpenedStays
<1> QED
  BY <1>3, <1>4 DEF Handled

----------------------------------------------------------------------------
(* A message at the API: nothing is lost on the way to an anchored agent.  *)

\* An acceptance that changes nothing is of a request that was taken before.
LEMMA AcceptedSettles ==
    ASSUME BaseInv, NEW a \in Agents, request[a] \in net, request[a] # None,
           Handle(request[a]), Accepts(request[a]), UNCHANGED last_sequence
    PROVE  /\ session[a].phase = "completing" => ~NotApplied(a)
           /\ Watches(a) => ~InFlight(a)
<1> PICK m \in net : m = request[a]
  OBVIOUS
<1>0. /\ Handle(m) /\ Accepts(m) /\ m.agent = a /\ m.seq = sequence[a]
      /\ m.seq \in Nat /\ last_sequence[m.agent] \in Nat /\ Shape(a)
      /\ last_sequence \in [Agents -> Nat]
  BY BaseNet, BaseTypes DEF BaseInv, SessionFacts, Shape
<1>1. AdvanceSequence(m.agent, m.seq) => m.seq = last_sequence[a]
  BY <1>0 DEF AdvanceSequence
<1>2. ASSUME session[a].phase = "completing", NotApplied(a) PROVE FALSE
  <2>1. m.type = "complete" /\ m.snap = session[a].snap
    BY <1>2 DEF BaseInv, SessionFacts, Shape
  <2>2. \/ status[m.snap] = "complete"
        \/ status[m.snap] = "pending" /\ m.seq <= last_sequence[m.agent]
        \/ m.seq = last_sequence[m.agent] + 1 /\ ApplySnapshot(m.agent, m.snap, m.seq)
    BY <1>0, <2>1, CompleteOutcome
  <2>3. ~(m.seq = last_sequence[m.agent] + 1 /\ ApplySnapshot(m.agent, m.snap, m.seq))
    BY <1>0, <1>1 DEF ApplySnapshot
  <2> QED
    BY <1>0, <1>2, <2>1, <2>2, <2>3 DEF NotApplied
<1>3. ASSUME Watches(a), InFlight(a) PROVE FALSE
  <2>1. m.type = "events"
    BY <1>3 DEF BaseInv, SessionFacts, Shape
  <2>2. \/ m.seq <= last_sequence[m.agent]
        \/ m.seq = last_sequence[m.agent] + 1 /\ ApplyEvents(m.agent, m.events, m.seq)
    BY <1>0, <2>1, EventsOutcome
  <2>3. ~(m.seq = last_sequence[m.agent] + 1 /\ ApplyEvents(m.agent, m.events, m.seq))
    BY <1>0, <1>1 DEF ApplyEvents
  <2>4. Fresh(a)
    BY <1>0, <2>1 DEF Accepts, EventsResult, Fresh
  <2> QED
    BY <1>0, <1>3, <2>2, <2>3, <2>4 DEF InFlight
<1> QED
  BY <1>2, <1>3

\* A message that changes nothing loses nothing.
LEMMA KeepsUntouched ==
    ASSUME BaseInv, SyncAssumption, SessionTruth, NEW m \in net, Handled(m), Untouched,
           NEW a \in Agents, Keeps(a)
    PROVE  Keeps(a)'
<1>1. Past
  BY PastSame DEF Handled, BaseInv
<1>2. Handle(m) /\ UNCHANGED <<net, session, request, sequence>>
  BY DEF Handled
<1>3. UNCHANGED <<last_sequence, status, inventory_state, lifecycle, resource_version>>
  BY DEF Untouched
<1>4. \/ answer'[a] = answer[a] \/ answer'[a] # "ok"
      \/ /\ session[a].phase = "completing" => ~NotApplied(a)
         /\ Watches(a) => ~InFlight(a)
  <2>1. CASE request[a] = m /\ Accepts(m)
    <3>1. request[a] # None
      BY <2>1, NoRequest, BaseNet DEF WellFormed
    <3> QED
      BY <1>2, <1>3, <2>1, <3>1, AcceptedSettles
  <2> QED
    BY <2>1 DEF Handled
<1> QED
  BY <1>1, <1>2, <1>3, <1>4, KeepsStay DEF Fresh

\* After a message is taken, every earlier number of its agent is passed.
LEMMA PassedAll ==
    ASSUME BaseInv, SequenceFacts, NEW m \in net, Handled(m),
           Opens(m) \/ TakesPage(m) \/ Completes(m) \/ TakesEvents(m)
    PROVE  OnlyRequestLives(m.agent)'
<1> SUFFICES ASSUME NEW n \in net, n.type # "begin", n.agent = m.agent
             PROVE  n.seq <= last_sequence'[m.agent]
  BY DEF OnlyRequestLives, Handled
<1>1. n.seq <= last_sequence[n.agent] + 1 /\ n.seq \in Nat
  BY BaseNet DEF SequenceFacts
<1>2. last_sequence'[m.agent] = m.seq /\ last_sequence[m.agent] < m.seq
  BY TakenNumber
<1>3. m.seq \in Nat /\ last_sequence[m.agent] \in Nat
  BY BaseNet
<1> QED
  BY <1>1, <1>2, <1>3

\* An anchored agent has the message that is taken outstanding.
LEMMA TakenIsRequest ==
    ASSUME BaseInv, SyncAssumption, NEW m \in net, Keeps(m.agent), m.type # "begin",
           TakesPage(m) \/ Completes(m) \/ TakesEvents(m)
    PROVE  /\ m = request[m.agent] /\ m.seq = sequence[m.agent] /\ m # None
           /\ m.type = "page" => session[m.agent].phase = "snapshot"
           /\ m.type = "complete" => session[m.agent].phase = "completing"
                                     /\ m.snap = session[m.agent].snap
           /\ m.type = "events" => Watches(m.agent)
<1> PICK a \in Agents : a = m.agent
  BY BaseNet
<1>1. m.seq <= last_sequence[a] \/ m = request[a]
  BY DEF Keeps, OnlyRequestLives
<1>2. last_sequence[a] < m.seq /\ m.seq \in Nat /\ last_sequence[a] \in Nat
  BY TakenNumber, BaseNet
<1>3. m = request[a]
  BY <1>1, <1>2
<1>4. m # None
  BY NoRequest, BaseNet DEF WellFormed
<1>5. Shape(a) /\ session[a].phase \in {"idle", "snapshot", "completing", "watch"}
  BY SessionFields DEF BaseInv, SessionFacts
<1> QED
  BY <1>3, <1>4, <1>5 DEF Shape, Watches

\* A page that is taken loses nothing.
LEMMA KeepsPage ==
    ASSUME BaseInv, SyncAssumption, SequenceFacts, NEW m \in net, Handled(m), TakesPage(m),
           Keeps(m.agent)
    PROVE  Keeps(m.agent)'
<1>1. OnlyRequestLives(m.agent)'
  BY PassedAll
<1>2. session[m.agent].phase = "snapshot" /\ m.seq = sequence[m.agent]
  BY TakenIsRequest DEF TakesPage
<1>3. last_sequence'[m.agent] = m.seq /\ m.seq \in Nat
  BY TakenNumber, BaseNet
<1>4. UNCHANGED <<session, sequence>>
  BY DEF Handled
<1> QED
  BY <1>1, <1>2, <1>3, <1>4 DEF Keeps, Watches

\* A complete that is applied shows what the agent listed.
LEMMA KeepsComplete ==
    ASSUME BaseInv, SyncAssumption, TrafficFacts, SequenceFacts, SessionTruth, Projected,
           NEW m \in net, Handled(m), Completes(m), Keeps(m.agent)
    PROVE  Keeps(m.agent)'
<1> PICK a \in Agents : a = m.agent
  BY BaseNet
<1> PICK x : x = session[a]
  OBVIOUS
<1>1. OnlyRequestLives(m.agent)'
  BY PassedAll
<1>2. /\ m = request[a] /\ m.seq = sequence[a]
      /\ x.phase = "completing" /\ m.snap = x.snap
  BY TakenIsRequest DEF Completes
<1>3. last_sequence'[a] = m.seq /\ m.seq \in Nat
  BY TakenNumber, BaseNet
<1>4. session'[a] = x
  BY DEF Handled
<1>17. request'[a] = m /\ sequence'[a] = m.seq
  BY <1>2 DEF Handled
<1>18. UNCHANGED log
  BY DEF Handled
<1>5. Collects(a) /\ x \in Collecting /\ TruthOf(a)
  BY <1>2, SessionFields DEF Collects, BaseInv, SessionTruth
<1>6. x.versions \in Cuts /\ TrueLists(x)
  BY <1>2, <1>5 DEF TruthOf
<1>7. Depicts(m.snap, x.versions)
  BY <1>2, <1>5, <1>6, CompletingDepicts DEF TrueLists
<1>8. PicturedAt(x.versions)'
  <2>1. PICK v \in Cuts : v = x.versions
    BY <1>6
  <2>2. PicturedAt(v)'
    BY <1>18, <1>7, <2>1, CompleteMoves DEF Completes
  <2> QED
    BY <2>1, <2>2 DEF PicturedAt, Pictured, ShowsVersion
<1>9. PicturedAt(session[a].versions)'
  BY <1>4, <1>8 DEF PicturedAt, Pictured, ShowsVersion
<1>10. status'[x.snap] = "complete"
  <2>1. status' = [status EXCEPT ![m.snap] = "complete"] /\ m.snap \in Snapshots
    BY BaseNet DEF Completes, ApplySnapshot
  <2>2. status \in [Snapshots -> Statuses]
    BY BaseTypes
  <2> QED
    BY <1>2, <2>1, <2>2
<1>11. Applied(a)'
  <2>1. request'[a].seq <= last_sequence'[a] /\ last_sequence'[a] <= sequence'[a]
    BY <1>3, <1>17
  <2>2. status'[session'[a].snap] # "pending"
    BY <1>4, <1>10
  <2> QED
    BY <1>9, <2>1, <2>2 DEF Applied
<1>12. session'[a].phase = "completing"
  BY <1>2, <1>4
<1> QED
  BY <1>1, <1>11, <1>12 DEF Keeps, Watches

\* What continues up to a session's queue, by its value.
LEMMA SameQueue ==
    ASSUME NEW a, NEW x, session'[a] = x, NEW w, Continues(x.queue, w, x.versions)'
    PROVE  Continues(session[a].queue, w, session[a].versions)'
BY DEF Continues, WatchEvent

\* A batch that is applied brings the API up to its end.
LEMMA KeepsEvents ==
    ASSUME BaseInv, SyncAssumption, SequenceFacts, SessionTruth,
           NEW m \in net, Handled(m), TakesEvents(m), Keeps(m.agent)
    PROVE  Keeps(m.agent)'
<1> PICK a \in Agents : a = m.agent
  BY BaseNet
<1> PICK x : x = session[a]
  OBVIOUS
<1>0. Past /\ LogInv
  BY PastSame DEF Handled, BaseInv
<1>1. OnlyRequestLives(m.agent)'
  BY PassedAll
<1>2. m = request[a] /\ m.seq = sequence[a] /\ Watches(a) /\ m # None
  BY TakenIsRequest DEF TakesEvents
<1>3. last_sequence'[a] = m.seq /\ m.seq \in Nat /\ last_sequence[a] < m.seq /\ last_sequence[a] \in Nat
  BY TakenNumber, BaseNet
<1>4. session'[a] = x
  BY DEF Handled
<1>17. request'[a] = m /\ sequence'[a] = m.seq
  BY <1>2 DEF Handled
<1>18. UNCHANGED log
  BY DEF Handled
<1>5. InFlight(a)
  <2>1. CaughtUp(a) \/ InFlight(a)
    BY <1>2 DEF Keeps
  <2>2. ~(request[a] = None \/ request[a].seq <= last_sequence[a])
    <3>1. ~(m.seq <= last_sequence[a])
      BY <1>3
    <3> QED
      BY <1>2, <3>1
  <2> QED
    BY <2>1, <2>2 DEF CaughtUp
<1>6. x.queue \in Seq(Event) /\ x.versions \in Cuts /\ x.phase = "watch"
  BY <1>2, SessionFields, WatchingFields DEF SessionTruth, TruthOf, BaseInv, Watches
<1>7. PICK c \in Cuts, w \in Cuts :
         PicturedAt(c) /\ Continues(m.events, c, w) /\ Continues(x.queue, w, x.versions)
  BY <1>2, <1>5 DEF InFlight, BatchFits
<1>8. /\ m.events \in Seq(Event) /\ ProjectionTypes
      /\ lifecycle' = [u \in Uids |-> LifecycleAfter(m.events, u)]
      /\ resource_version' = [u \in Uids |-> VersionAfter(m.events, u)]
  BY BaseNet, BaseTypes DEF TakesEvents, ApplyEvents
<1>9. PicturedAt(w)' /\ w \in Cuts'
  BY <1>0, <1>18, <1>7, <1>8, EventsMove, PastCuts
<1>10. Continues(x.queue, w, x.versions)'
  BY <1>0, <1>6, <1>7, PastEvents
<1>11. Continues(session[a].queue, w, session[a].versions)'
  BY <1>4, <1>10, SameQueue
<1>12. QueueFits(a)'
  BY <1>9, <1>11, Zenon DEF QueueFits
<1>13. request'[a].seq <= last_sequence'[a]
  BY <1>3, <1>17
<1>14. CaughtUp(a)'
  BY <1>12, <1>13 DEF CaughtUp
<1>15. last_sequence'[a] <= sequence'[a]
  BY <1>3, <1>17
<1>16. session'[a].phase = "watch"
  BY <1>4, <1>6
<1> QED
  BY <1>1, <1>14, <1>15, <1>16 DEF Keeps, Watches

\* A begin makes the state of its agent anything but fresh, and leaves no
\* other snapshot pending.
LEMMA OpenedEffect ==
    ASSUME BaseInv, NEW m \in net, Opens(m)
    PROVE  /\ ~Fresh(m.agent)'
           /\ UNCHANGED <<lifecycle, resource_version>>
           /\ \A s \in Snapshots : s # m.snap =>
                 /\ status'[s] # "pending"
                 /\ status'[s] = status[s] \/ (status'[s] = "discarded" /\ status[s] # "absent")
<1>0. /\ m.agent \in Agents /\ m.snap \in Snapshots
      /\ inventory_state \in [Agents -> InventoryStates]
  BY BaseNet, BaseTypes DEF Opens
<1>1. inventory_state' = [inventory_state EXCEPT ![m.agent] = "reconciling"]
  BY DEF Opens, OpenSnapshot
<1>2. ~Fresh(m.agent)'
  BY <1>0, <1>1 DEF Fresh
<1>3. UNCHANGED <<lifecycle, resource_version>>
  BY DEF Opens, OpenSnapshot, projection, shownRows
<1>4. ASSUME NEW s \in Snapshots, s # m.snap
      PROVE  /\ status'[s] # "pending"
             /\ status'[s] = status[s] \/ (status'[s] = "discarded" /\ status[s] # "absent")
  <2>1. status[s] = "pending" => pending_snapshot = s
    BY DEF BaseInv, Stream!WriterInv, Stream!NewestPending
  <2>2. status'[s] = IF s = pending_snapshot /\ status[s] = "pending" THEN "discarded"
                     ELSE status[s]
    BY <1>4 DEF Opens, OpenSnapshot, Supersede
  <2> QED
    BY <2>1, <2>2
<1> QED
  BY <1>2, <1>3, <1>4

\* A begin that is accepted anchors its session.
LEMMA KeepsOpened ==
    ASSUME BaseInv, SyncAssumption, TrafficFacts, SequenceFacts, SessionTruth,
           NEW m \in net, Handled(m), Opens(m), NEW a \in Agents, m.agent = a,
           Anchored(a)', Anchored(a) => Keeps(a)
    PROVE  Keeps(a)'
<1> PICK x : x = session[a]
  OBVIOUS
<1> PICK r : r = request[a]
  OBVIOUS
<1>0. Past
  BY PastSame DEF Handled, BaseInv
<1>1. OnlyRequestLives(a)'
  BY PassedAll
<1>2. session'[a] = x /\ request'[a] = r /\ sequence'[a] = sequence[a]
  BY DEF Handled
<1>3. /\ last_sequence'[a] = m.seq /\ m.seq \in Nat
      /\ last_sequence[a] < m.seq /\ last_sequence[a] \in Nat
      /\ m.type = "begin" /\ m.snap \in Snapshots /\ ~(m.seq <= last_sequence[a])
  BY TakenNumber, BaseNet DEF Opens
<1>4. ~Fresh(a)' /\ UNCHANGED <<lifecycle, resource_version>>
  BY OpenedEffect
<1>5. Shape(a) /\ (r # None => r \in net /\ r.seq \in Nat)
  BY BaseNet DEF BaseInv, SessionFacts, BeginInv, AgentFacts
<1>6. ~Begun(m.snap)
  BY <1>3 DEF Begun
<1>7. ASSUME x.phase = "snapshot", status'[x.snap] = "pending"
      PROVE  last_sequence'[a] <= sequence'[a]
  <2>1. Collects(a) /\ x.snap \in Snapshots
    BY <1>7, SessionFields, CollectingFields DEF Collects, BaseInv
  <2>2. x.snap = m.snap
    BY <1>7, <2>1, OpenedEffect
  <2>3. Sent(a)
    BY <2>1 DEF TrafficFacts
  <2>4. r # None /\ r.type = "begin"
    BY <1>6, <2>2, <2>3 DEF Sent
  <2>5. r.snap = m.snap /\ r.seq = sequence[a] /\ r \in net
    BY <1>5, <1>7, <2>2, <2>4 DEF Shape
  <2>6. r = m
    BY <1>3, <2>4, <2>5 DEF BaseInv, BeginInv, NetFacts
  <2> QED
    BY <1>2, <1>3, <2>5, <2>6
<1>8. ASSUME x.phase = "completing"
      PROVE  NotApplied(a)' \/ Applied(a)'
  <2>1. x.snap \in Snapshots
    BY <1>8, SessionFields, CollectingFields DEF Collects, BaseInv
  <2>2. r # None /\ r \in net /\ r.type = "complete" /\ r.snap = x.snap /\ r.seq \in Nat
    BY <1>5, <1>8 DEF Shape
  <2>3. x.snap # m.snap
    BY <1>6, <2>2 DEF TrafficFacts, BegunFirst
  <2>4. /\ status'[x.snap] # "pending"
        /\ status'[x.snap] = status[x.snap]
              \/ (status'[x.snap] = "discarded" /\ status[x.snap] # "absent")
    BY <2>1, <2>3, OpenedEffect
  <2>5. Collects(a)
    BY <1>8 DEF Collects
  <2>6. status'[x.snap] # "absent"
    BY <1>2, <1>8 DEF Anchored, Collects, Watches
  <2>7. Keeps(a)
    BY <2>4, <2>5, <2>6 DEF Anchored
  <2>8. CASE NotApplied(a)
    <3>1. answer'[a] # "ok"
      BY <1>3, <2>2, <2>8 DEF Handled, NotApplied
    <3> QED
      BY <1>2, <2>4, <2>8, <3>1 DEF NotApplied
  <2>9. CASE Applied(a)
    <3>1. PicturedAt(session[a].versions)'
      BY <1>0, <1>2, <1>4, <1>8, <2>9, ListedStays DEF Applied
    <3>2. r.seq <= last_sequence'[a]
      BY <1>3, <2>2, <2>9 DEF Applied
    <3> QED
      BY <1>2, <1>4, <2>4, <3>1, <3>2 DEF Applied
  <2> QED
    BY <1>8, <2>7, <2>8, <2>9 DEF Keeps
<1>9. ASSUME x.phase = "watch"
      PROVE  CaughtUp(a)' \/ InFlight(a)'
  <2>1. Watches(a) /\ (CaughtUp(a) \/ InFlight(a))
    BY <1>9 DEF Anchored, Watches, Keeps
  <2>2. CASE CaughtUp(a)
    <3>1. QueueFits(a)'
      BY <1>0, <1>2, <1>4, <2>1, <2>2, QueueStays DEF CaughtUp
    <3>2. r = None \/ r.seq <= last_sequence'[a]
      BY <1>3, <1>5, <2>2 DEF CaughtUp
    <3> QED
      BY <1>2, <3>1, <3>2 DEF CaughtUp
  <2>3. CASE InFlight(a)
    <3>1. r # None /\ r.type = "events"
      BY <1>5, <2>1, <2>3 DEF InFlight, Shape
    <3>2. BatchFits(a)'
      BY <1>0, <1>2, <1>4, <2>1, <2>3, BatchStays DEF InFlight
    <3>3. answer'[a] # "ok"
      BY <1>3, <2>3, <3>1 DEF Handled, InFlight
    <3> QED
      BY <1>2, <1>4, <3>1, <3>2, <3>3 DEF InFlight
  <2> QED
    BY <2>1, <2>2, <2>3
<1> QED
  BY <1>1, <1>2, <1>4, <1>7, <1>8, <1>9 DEF Keeps, Watches

\* A handled message leaves nothing lost between API and writer.
LEMMA AnchoredHandled ==
    ASSUME BaseInv, SyncAssumption, TrafficFacts, SequenceFacts, SessionTruth, Projected,
           AnchoredFacts, NEW m \in net, Handled(m)
    PROVE  AnchoredFacts'
<1>1. UNCHANGED session /\ Handle(m)
  BY DEF Handled
<1> SUFFICES ASSUME NEW a \in Agents, Active(a)', Anchored(a)'
             PROVE  Keeps(a)'
  BY DEF AnchoredFacts
<1>2. CASE Untouched
  <2>1. Active(a) /\ Anchored(a)
    BY <1>1, <1>2 DEF Untouched, Active, Anchored, Collects, Watches
  <2> QED
    BY <1>2, <2>1, KeepsUntouched DEF AnchoredFacts
<1>3. CASE Active(m.agent) /\ UNCHANGED active_agent
           /\ (Opens(m) \/ TakesPage(m) \/ Completes(m) \/ TakesEvents(m))
  <2>1. m.agent = a /\ Active(a)
    BY <1>3 DEF Active
  <2>2. CASE Opens(m)
    <3>1. Anchored(a) => Keeps(a)
      BY <2>1 DEF AnchoredFacts
    <3> QED
      BY <2>1, <2>2, <3>1, KeepsOpened
  <2>3. CASE TakesPage(m) \/ Completes(m) \/ TakesEvents(m)
    <3>1. Anchored(a)
      <4>1. CASE Watches(a)
        BY <4>1 DEF Anchored
      <4>2. CASE ~Watches(a)
        <5>1. Collects(a) /\ status'[session[a].snap] # "absent"
          BY <1>1, <4>2 DEF Anchored, Collects, Watches
        <5>2. session[a].snap \in Snapshots
          BY <5>1, SessionFields, CollectingFields DEF BaseInv
        <5>3. status \in [Snapshots -> Statuses]
          BY BaseTypes
        <5>4. CASE TakesPage(m) \/ TakesEvents(m)
          <6>1. UNCHANGED status
            BY <5>4 DEF TakesPage, TakesEvents, ApplyEvents, snapshotVars
          <6> QED
            BY <5>1, <6>1 DEF Anchored
        <5>5. CASE Completes(m)
          <6>1. status' = [status EXCEPT ![m.snap] = "complete"] /\ status[m.snap] = "pending"
            BY <5>5 DEF Completes, ApplySnapshot
          <6>2. status[session[a].snap] # "absent"
            BY <5>1, <5>2, <5>3, <6>1
          <6> QED
            BY <5>1, <6>2 DEF Anchored
        <5> QED
          BY <2>3, <5>4, <5>5
      <4> QED
        BY <4>1, <4>2
    <3>2. Keeps(m.agent)
      BY <2>1, <3>1 DEF AnchoredFacts
    <3>3. Keeps(m.agent)'
      BY <2>3, <3>2, KeepsPage, KeepsComplete, KeepsEvents
    <3> QED
      BY <2>1, <3>3
  <2> QED
    BY <1>3, <2>2, <2>3
<1> QED
  BY <1>1, <1>2, <1>3, HandledKinds

\* A message at the API leaves the whole picture right.
LEMMA PictureHandled ==
    ASSUME StreamInv, SyncAssumption, PictureInv, NEW m \in net, Delivers(m)
    PROVE  PictureInv'
<1>1. BaseInv /\ TrafficFacts /\ SequenceFacts
  BY DEF StreamInv
<1>2. /\ SessionTruth /\ CompleteTruth /\ Projected /\ LiveEvents /\ OkMeansOpened
      /\ AnchoredFacts
  BY DEF PictureInv
<1>3. Handled(m)
  BY <1>1, DeliversHandled
<1>4. SessionTruth' /\ CompleteTruth'
  BY <1>1, <1>2, <1>3, TruthHandled
<1>5. Projected'
  BY <1>1, <1>2, <1>3, ProjectionHandled
<1>6. LiveEvents'
  BY <1>1, <1>2, <1>3, LiveHandled
<1>7. OkMeansOpened'
  BY <1>1, <1>2, <1>3, OkHandled
<1>8. AnchoredFacts'
  BY <1>1, <1>2, <1>3, AnchoredHandled
<1> QED
  BY <1>4, <1>5, <1>6, <1>7, <1>8 DEF PictureInv

----------------------------------------------------------------------------
(* The steps of one agent, while the API and the cluster stand still.      *)

\* What the step of agent a may touch, and what it must show for itself.
Alone(a) ==
    /\ UNCHANGED <<ingestVars, log>>
    /\ net \subseteq net'
    /\ \A m \in net' \ net : m.agent = a
    /\ \A b \in Agents : b # a =>
          /\ session'[b] = session[b] /\ request'[b] = request[b]
          /\ sequence'[b] = sequence[b] /\ answer'[b] = answer[b]

\* An agent's own step moves neither the cluster nor the API.
LEMMA AloneFacts ==
    ASSUME BaseInv, NEW a, Alone(a)
    PROVE  /\ Past /\ Untouched
           /\ UNCHANGED <<active_agent, last_sequence, status, inventory_state, lifecycle,
                          resource_version>>
<1>1. Past
  BY PastSame DEF Alone, BaseInv
<1>2. UNCHANGED <<active_agent, last_sequence, status, inventory_state, lifecycle,
                  resource_version>>
  BY DEF Alone, ingestVars, writerVars, snapshotVars, agentVars, projection, shownRows
<1> QED
  BY <1>1, <1>2 DEF Untouched

\* A true step of one agent leaves every other list true.
LEMMA TruthAlone ==
    ASSUME StreamInv, PictureInv, NEW a \in Agents, Alone(a), TruthOf(a)',
           \A m \in net' \ net : m.type = "page" =>
              Collects(a) /\ session[a].phase = "snapshot" /\ m.snap = session[a].snap,
           \A m \in net' \ net : m.type = "complete" => \E v \in Cuts' : Depicts(m.snap, v)'
    PROVE  SessionTruth' /\ CompleteTruth'
<1>1. BaseInv /\ TrafficFacts /\ SessionTruth /\ CompleteTruth
  BY DEF StreamInv, PictureInv
<1>2. Past /\ UNCHANGED <<status, lifecycle, resource_version>>
  BY <1>1, AloneFacts
<1>3. ASSUME NEW b \in Agents
      PROVE  \/ /\ session'[b] = session[b]
                /\ Collects(b) => \A m \in net' \ net : m.type = "page" => m.snap # session[b].snap
             \/ TruthOf(b)'
  <2>1. CASE b = a
    <3>1. TruthOf(a)'
      OBVIOUS
    <3>2. TruthOf(b)'
      BY <2>1, <3>1 DEF TruthOf, Collects, TrueLists, Listed, ListedRow, TrueRow, InPages, InBuffer
    <3> QED
      BY <3>2
  <2>2. CASE b # a
    <3>1. session'[b] = session[b]
      BY <2>2 DEF Alone
    <3>2. ASSUME Collects(b), NEW m \in net' \ net, m.type = "page", m.snap = session[b].snap
          PROVE  FALSE
      <4>1. Sent(b) /\ Sent(a) /\ session[a].snap = session[b].snap
        BY <1>1, <3>2 DEF TrafficFacts
      <4>2. BeganBy(session[b].snap, b) /\ BeganBy(session[b].snap, a)
        BY <4>1 DEF Sent
      <4> QED
        BY <1>1, <2>2, <4>2, OneAgent
    <3> QED
      BY <3>1, <3>2
  <2> QED
    BY <2>1, <2>2
<1>4. ASSUME NEW m \in net, NEW n \in net' \ net, m.type = "complete", n.type = "page",
             n.snap = m.snap
      PROVE  FALSE
  <2>1. Sent(a) /\ session[a].phase = "snapshot" /\ m.snap = session[a].snap
    BY <1>1, <1>4 DEF TrafficFacts
  <2> QED
    BY <1>4, <2>1 DEF Sent
<1>5. net \subseteq net'
  BY DEF Alone
<1> HIDE DEF Alone
<1>6. \A s \in Snapshots : status'[s] = "pending" =>
              \/ status[s] = "pending" /\ UNCHANGED <<lifecycle, resource_version>>
              \/ ~Begun(s)
  BY <1>2
<1> QED
  BY <1>1, <1>2, <1>3, <1>4, <1>5, <1>6, TruthStays

\* A step of one agent loses nothing of another.
LEMMA AnchoredAlone ==
    ASSUME StreamInv, PictureInv, NEW a \in Agents, Alone(a),
           \A b \in Agents : b = a /\ Active(b) /\ Anchored(b)' => Keeps(b)'
    PROVE  AnchoredFacts'
<1>1. BaseInv /\ AnchoredFacts /\ SessionTruth
  BY DEF StreamInv, PictureInv
<1>2. Past /\ UNCHANGED <<active_agent, last_sequence, status, inventory_state, lifecycle,
                          resource_version>>
  BY <1>1, AloneFacts
<1> SUFFICES ASSUME NEW b \in Agents, Active(b)', Anchored(b)'
             PROVE  Keeps(b)'
  BY DEF AnchoredFacts
<1>3. CASE b = a
  <2>1. Active(b)
    BY <1>2 DEF Active
  <2> QED
    BY <1>3, <2>1
<1>4. CASE b # a
  <2>1. /\ session'[b] = session[b] /\ request'[b] = request[b]
        /\ sequence'[b] = sequence[b] /\ answer'[b] = answer[b]
        /\ \A m \in net' \ net : m.agent # b
    BY <1>4 DEF Alone
  <2>2. Active(b) /\ Anchored(b)
    BY <1>2, <2>1 DEF Active, Anchored, Collects, Watches
  <2>3. Keeps(b)
    BY <1>1, <2>2 DEF AnchoredFacts
  <2> QED
    BY <1>1, <1>2, <2>1, <2>3, KeepsStay DEF Fresh
<1> QED
  BY <1>3, <1>4

\* An agent's own step keeps the picture, if it is true to its lists.
LEMMA PictureAlone ==
    ASSUME StreamInv, PictureInv, NEW a \in Agents, Alone(a), TruthOf(a)',
           \A m \in net' \ net : m.type = "page" =>
              Collects(a) /\ session[a].phase = "snapshot" /\ m.snap = session[a].snap,
           \A m \in net' \ net : m.type = "complete" => \E v \in Cuts' : Depicts(m.snap, v)',
           \A m \in net' \ net :
              m.type = "events" /\ Active(a) /\ Fresh(a) /\ m.seq = last_sequence[a] + 1 =>
                 Continuing(m.events)',
           answer'[a] = "ok" /\ session'[a].phase = "completing" =>
              status'[session'[a].snap] # "absent",
           \A b \in Agents : b = a /\ Active(b) /\ Anchored(b)' => Keeps(b)'
    PROVE  PictureInv'
<1>1. BaseInv /\ Projected /\ LiveEvents /\ OkMeansOpened
  BY DEF StreamInv, PictureInv
<1>2. Past /\ UNCHANGED <<active_agent, last_sequence, status, inventory_state, lifecycle,
                          resource_version>>
  BY <1>1, AloneFacts
<1>3. SessionTruth' /\ CompleteTruth'
  BY TruthAlone
<1>4. AnchoredFacts'
  BY AnchoredAlone
<1>5. Projected'
  BY <1>1, <1>2, ProjectedStays
<1>6. OkMeansOpened'
  <2> SUFFICES ASSUME NEW b \in Agents, answer'[b] = "ok", session'[b].phase = "completing"
               PROVE  status'[session'[b].snap] # "absent"
    BY DEF OkMeansOpened
  <2>1. CASE b = a
    BY <2>1
  <2>2. CASE b # a
    <3>1. answer'[b] = answer[b] /\ session'[b] = session[b]
      BY <2>2 DEF Alone
    <3> QED
      BY <1>1, <1>2, <3>1 DEF OkMeansOpened
  <2> QED
    BY <2>1, <2>2
<1>7. LiveEvents'
  <2> SUFFICES ASSUME NEW m \in net', m.type = "events", Active(m.agent)', Fresh(m.agent)',
                      m.seq = last_sequence'[m.agent] + 1
               PROVE  Continuing(m.events)'
    BY DEF LiveEvents
  <2>1. Active(m.agent) /\ Fresh(m.agent) /\ m.seq = last_sequence[m.agent] + 1
    BY <1>2 DEF Active, Fresh
  <2>2. CASE m \in net
    <3>1. m.events \in Seq(Event)
      BY <1>1, <2>2, BaseNet
    <3>2. Continuing(m.events)
      BY <1>1, <2>1, <2>2 DEF LiveEvents
    <3> QED
      BY <1>2, <3>1, <3>2, ContinuingStays
  <2>3. CASE m \notin net
    <3>1. m.agent = a
      BY <2>3 DEF Alone
    <3> QED
      BY <2>1, <2>3, <3>1
  <2> QED
    BY <2>2, <2>3
<1> QED
  BY <1>3, <1>4, <1>5, <1>6, <1>7 DEF PictureInv

\* A request out, and the session that goes with it, is the agent's own affair.
LEMMA AskAlone ==
    ASSUME BaseInv, NEW a \in Agents, NEW r, Asks(a, r), NEW y,
           session' = [session EXCEPT ![a] = y]
    PROVE  /\ Alone(a) /\ net' = net \cup {r} /\ r.agent = a /\ r.seq = sequence[a] + 1
           /\ request[a] = None /\ session'[a] = y /\ request'[a] = r /\ answer'[a] = "none"
           /\ sequence'[a] = sequence[a] + 1 /\ sequence[a] \in Nat
<1>1. /\ session \in [Agents -> {Idle} \cup Collecting \cup Watching]
      /\ request \in [Agents -> net \cup {None}]
      /\ answer \in [Agents -> {"none", "ok", "failed"}]
      /\ sequence \in [Agents -> Nat]
  BY DEF BaseInv, SessionFacts, BeginInv, AgentFacts
<1>2. /\ request[a] = None /\ r.agent = a /\ r.seq = sequence[a] + 1 /\ net' = net \cup {r}
      /\ request' = [request EXCEPT ![a] = r]
      /\ sequence' = [sequence EXCEPT ![a] = sequence[a] + 1]
      /\ answer' = [answer EXCEPT ![a] = "none"]
      /\ UNCHANGED <<ingestVars, log, faults, stored>>
  BY DEF Asks
<1> QED
  BY <1>1, <1>2 DEF Alone

\* So is what it does to its session alone.
LEMMA QuietAlone ==
    ASSUME BaseInv, NEW a \in Agents, NEW y, session' = [session EXCEPT ![a] = y],
           UNCHANGED <<ingestVars, log, net, sequence, request, answer>>
    PROVE  Alone(a) /\ session'[a] = y
<1>1. session \in [Agents -> {Idle} \cup Collecting \cup Watching]
  BY DEF BaseInv, SessionFacts
<1> QED
  BY <1>1 DEF Alone

\* What was sent before is past the number that the API is at.
LEMMA OwnRequestLives ==
    ASSUME BaseInv, SyncAssumption, NEW a \in Agents, NEW r, OnlyRequestLives(a),
           net' = net \cup {r}, request[a] = None, request'[a] = r, UNCHANGED last_sequence
    PROVE  OnlyRequestLives(a)'
<1> SUFFICES ASSUME NEW m \in net', m.type # "begin", m.agent = a
             PROVE  m.seq <= last_sequence[a] \/ m = request'[a]
  BY DEF OnlyRequestLives
<1>1. CASE m \in net
  <2>1. m # None
    BY <1>1, BaseNet, NoRequest DEF WellFormed
  <2> QED
    BY <1>1, <2>1 DEF OnlyRequestLives
<1>2. CASE m = r
  BY <1>2
<1> QED
  BY <1>1, <1>2

\* A cycle that starts has said nothing yet.
LEMMA PictureStart ==
    ASSUME StreamInv, SyncAssumption, PictureInv, NEW a \in Agents, StartCycle(a)
    PROVE  PictureInv'
<1>1. BaseInv /\ AgentFacts /\ RowFacts /\ Now \in Nat
  BY BaseTypes DEF StreamInv, BaseInv, BeginInv
<1> DEFINE y0 == [phase |-> "snapshot", snap |-> issued + 1, listed |-> 0,
                  buffer |-> <<>>, pages |-> 0, total |-> 0,
                  versions |-> [k \in Range(Kinds) |-> 0]]
<1>2. PICK r \in Requests :
         /\ Asks(a, r) /\ r.type = "begin" /\ issued + 1 \in Snapshots
         /\ session' = [session EXCEPT ![a] = y0]
  BY <1>1, StartEffect
<1> PICK y : y = y0
  OBVIOUS
<1>3. /\ y.snap = issued + 1 /\ y.listed = 0 /\ y.buffer = <<>> /\ y.phase = "snapshot"
      /\ y.versions = [k \in Range(Kinds) |-> 0]
  OBVIOUS
<1> HIDE DEF y0
<1>4. /\ Alone(a) /\ net' = net \cup {r} /\ session'[a] = y /\ answer'[a] = "none"
      /\ r.agent = a
  BY <1>1, <1>2, AskAlone
<1>5. UNCHANGED <<status, log>>
  BY <1>1, <1>4, AloneFacts DEF Alone
<1>6. status'[y.snap] = "absent"
  BY <1>1, <1>2, <1>3, <1>5 DEF RowFacts, AgentFacts
<1>7. Listed(y) = {}
  BY <1>3 DEF Listed
<1>8. \A m \in net' : m.type = "page" => m.snap # y.snap
  <2>1. ASSUME NEW m \in net, m.type = "page" PROVE m.snap # y.snap
    BY <1>1, <1>2, <1>3, <2>1, BaseNet DEF AgentFacts, SyncAssumption
  <2> QED
    BY <1>2, <1>4, <2>1
<1>9. TrueLists(y)'
  BY <1>3, <1>6, <1>7, <1>8 DEF TrueLists, Listed
<1>10. y.versions \in Cuts'
  BY <1>1, <1>3, <1>5 DEF Cuts, Now
<1>11. TruthOf(a)'
  <2>1. session'[a].phase # "idle" => session'[a].versions \in Cuts'
    BY <1>4, <1>10
  <2>2. TrueLists(session[a])'
    BY <1>4, <1>9 DEF TrueLists, Listed, ListedRow, TrueRow, InPages, InBuffer
  <2> QED
    BY <2>1, <2>2 DEF TruthOf
<1>12. ASSUME NEW b \in Agents, b = a, Anchored(b)' PROVE FALSE
  BY <1>3, <1>4, <1>6, <1>12 DEF Anchored, Watches
<1>13. \A m \in net' \ net : m = r
  BY <1>4
<1> QED
  BY <1>2, <1>3, <1>4, <1>11, <1>12, <1>13, PictureAlone

----------------------------------------------------------------------------
\* A list that arrives is the cluster as it is, and nothing is newer.
LEMMA ListingIsTrue ==
    ASSUME BaseInv, SyncAssumption, Projected, NEW x \in Collecting, x.phase = "snapshot",
           x.versions \in Cuts, TrueLists(x), x.listed < Len(Kinds), NEW k,
           k = Kinds[x.listed + 1], NEW y \in Collecting, y.phase = "snapshot",
           y.snap = x.snap, y.listed = x.listed + 1,
           y.buffer = x.buffer \o SetToSeq(ListRows(k)),
           y.versions = [x.versions EXCEPT ![k] = Now]
    PROVE  TrueLists(y) /\ y.versions \in Cuts
<1> DEFINE rows == SetToSeq(ListRows(k))
<1>1. /\ rows \in Seq(Resource)
      /\ \A i \in DOMAIN rows :
            KindOf[rows[i].uid] = k /\ rows[i].rv = VersionAt(rows[i].uid, Now)
      /\ \A u \in Uids : KindOf[u] = k /\ VersionAt(u, Now) # 0 =>
            \E i \in DOMAIN rows : rows[i].uid = u
  BY ListArrives DEF BaseInv
<1>2. y.buffer = x.buffer \o rows
  OBVIOUS
<1> HIDE DEF rows
<1>3. /\ x.listed \in Nat /\ Kinds \in Seq(Range(Kinds)) /\ IsInjective(Kinds) /\ Now \in Nat
      /\ x.buffer \in Seq(Resource)
  BY CollectingFields, BaseTypes DEF SyncAssumption
<1>4. x.listed + 1 \in 1..Len(Kinds)
  BY <1>3
<1>5. k \in Range(Kinds)
  BY <1>3, <1>4 DEF Range
<1>6. Listed(y) = Listed(x) \cup {k}
  BY <1>3, <1>4 DEF Listed
<1>7. k \notin Listed(x)
  <2> SUFFICES ASSUME NEW i \in 1..x.listed, Kinds[i] = k PROVE FALSE
    BY DEF Listed
  <2>1. i \in DOMAIN Kinds /\ x.listed + 1 \in DOMAIN Kinds
    BY <1>3, <1>4
  <2>2. i = x.listed + 1
    BY <1>3, <2>1 DEF IsInjective
  <2> QED
    BY <1>3, <2>2
<1>8. y.versions \in Cuts
  BY <1>3, <1>5 DEF Cuts
<1>9. y.versions[k] = Now /\ \A j \in Listed(x) : y.versions[j] = x.versions[j]
  <2>1. x.versions \in [Range(Kinds) -> 0..Now]
    BY DEF Cuts
  <2> QED
    BY <1>5, <1>7, <2>1
<1>10. ASSUME NEW q, ListedRow(x, q) PROVE ListedRow(y, q)
  BY <1>6, <1>9, <1>10 DEF ListedRow, TrueRow
<1>11. ASSUME NEW i \in DOMAIN y.buffer PROVE ListedRow(y, y.buffer[i])
  <2>1. CASE i \in DOMAIN x.buffer
    <3>1. y.buffer[i] = x.buffer[i]
      BY <1>1, <1>2, <1>3, <2>1
    <3> QED
      BY <1>10, <2>1, <3>1 DEF TrueLists
  <2>2. CASE i \notin DOMAIN x.buffer
    <3>1. i - Len(x.buffer) \in DOMAIN rows /\ y.buffer[i] = rows[i - Len(x.buffer)]
      BY <1>1, <1>2, <1>3, <2>2
    <3> QED
      BY <1>1, <1>6, <1>9, <3>1 DEF ListedRow, TrueRow
  <2> QED
    BY <2>1, <2>2
<1>12. ASSUME NEW u \in Uids, KindOf[u] \in Listed(y), VersionAt(u, y.versions[KindOf[u]]) # 0
       PROVE  InPages(y.snap, u) \/ InBuffer(y, u)
  <2>1. CASE KindOf[u] = k
    <3>1. VersionAt(u, Now) # 0
      BY <1>9, <1>12, <2>1
    <3>2. PICK i \in DOMAIN rows : rows[i].uid = u
      BY <1>1, <2>1, <3>1
    <3>3. Len(x.buffer) + i \in DOMAIN y.buffer /\ y.buffer[Len(x.buffer) + i] = rows[i]
      <4>1. i \in 1..Len(rows) /\ Len(x.buffer) \in Nat /\ Len(rows) \in Nat
        BY <1>1, <1>3
      <4>2. /\ Len(y.buffer) = Len(x.buffer) + Len(rows) /\ DOMAIN y.buffer = 1..Len(y.buffer)
            /\ \A j \in 1..Len(y.buffer) : j > Len(x.buffer) => y.buffer[j] = rows[j - Len(x.buffer)]
        BY <1>1, <1>2, <1>3
      <4>3. Len(x.buffer) + i \in 1..Len(y.buffer) /\ Len(x.buffer) + i > Len(x.buffer)
        BY <4>1, <4>2
      <4>4. (Len(x.buffer) + i) - Len(x.buffer) = i
        BY <4>1
      <4>5. y.buffer[Len(x.buffer) + i] = rows[(Len(x.buffer) + i) - Len(x.buffer)]
        BY <4>2, <4>3
      <4> QED
        BY <4>2, <4>3, <4>4, <4>5
    <3> QED
      BY <3>2, <3>3 DEF InBuffer
  <2>2. CASE KindOf[u] # k
    <3>1. KindOf[u] \in Listed(x) /\ VersionAt(u, x.versions[KindOf[u]]) # 0
      BY <1>6, <1>9, <1>12, <2>2
    <3>2. CASE InPages(x.snap, u)
      BY <3>2
    <3>3. CASE InBuffer(x, u)
      <4>1. PICK i \in DOMAIN x.buffer : x.buffer[i].uid = u
        BY <3>3 DEF InBuffer
      <4>2. i \in DOMAIN y.buffer /\ y.buffer[i] = x.buffer[i]
        BY <1>1, <1>2, <1>3
      <4> QED
        BY <4>1, <4>2 DEF InBuffer
    <3> QED
      BY <3>1, <3>2, <3>3 DEF TrueLists
  <2> QED
    BY <2>1, <2>2
<1>13. ASSUME status[y.snap] = "pending", NEW u \in Uids, KindOf[u] \in Listed(y)
       PROVE  Seen(u, y.versions[KindOf[u]])
  <2>1. CASE KindOf[u] = k
    <3>1. Seen(u, Now)
      BY PicturedIsSeen DEF BaseInv
    <3> QED
      BY <1>9, <2>1, <3>1
  <2>2. CASE KindOf[u] # k
    <3>1. KindOf[u] \in Listed(x) /\ y.versions[KindOf[u]] = x.versions[KindOf[u]]
      BY <1>6, <1>9, <1>13, <2>2
    <3> QED
      BY <1>13, <3>1 DEF TrueLists
  <2> QED
    BY <2>1, <2>2
<1>14. ASSUME NEW m \in net, m.type = "page", m.snap = y.snap, NEW i \in DOMAIN m.content
       PROVE  ListedRow(y, m.content[i])
  BY <1>10, <1>14 DEF TrueLists
<1> QED
  BY <1>8, <1>11, <1>12, <1>13, <1>14 DEF TrueLists

\* An agent that goes on listing keeps what it said, and the API what it holds.
LEMMA KeepsCollecting ==
    ASSUME BaseInv, NEW a \in Agents, Anchored(a) => Keeps(a),
           Collects(a), session'[a].phase = "snapshot", session'[a].snap = session[a].snap,
           UNCHANGED <<status, last_sequence>>, sequence[a] \in Nat,
           sequence'[a] \in {sequence[a], sequence[a] + 1},
           OnlyRequestLives(a) => OnlyRequestLives(a)', session[a].phase = "snapshot",
           Anchored(a)'
    PROVE  Keeps(a)'
<1>1. last_sequence[a] \in Nat
  BY BaseTypes
<1>2. Anchored(a)
  BY DEF Anchored, Collects, Watches
<1>3. OnlyRequestLives(a)'
  BY <1>2 DEF Keeps
<1>4. status[session[a].snap] = "pending" => last_sequence[a] <= sequence[a]
  BY <1>2 DEF Keeps
<1>5. /\ session'[a].phase = "snapshot" /\ status'[session'[a].snap] = "pending" =>
            last_sequence'[a] <= sequence'[a]
      /\ session'[a].phase # "completing" /\ session'[a].phase # "watch"
  BY <1>1, <1>4
<1> QED
  BY <1>3, <1>5 DEF Keeps, Watches

\* A list is taken.
LEMMA PictureList ==
    ASSUME StreamInv, SyncAssumption, PictureInv, NEW a \in Agents, ListKind(a)
    PROVE  PictureInv'
<1>1. BaseInv /\ SessionFacts /\ SessionTruth /\ Projected /\ AnchoredFacts /\ LogInv
  BY DEF StreamInv, PictureInv, BaseInv
<1> PICK x : x = session[a]
  OBVIOUS
<1> PICK k : k = Kinds[x.listed + 1]
  OBVIOUS
<1> DEFINE y0 == [phase |-> "snapshot", snap |-> x.snap, listed |-> x.listed + 1,
                  buffer |-> x.buffer \o SetToSeq(ListRows(k)), pages |-> x.pages,
                  total |-> x.total, versions |-> [x.versions EXCEPT ![k] = Now]]
<1>2. /\ x.phase = "snapshot" /\ request[a] = None /\ x.listed < Len(Kinds)
      /\ session' = [session EXCEPT ![a] = y0]
      /\ UNCHANGED <<ingestVars, log, net, issued, sequence, stored, request, answer>>
  BY <1>1, ListEffect
<1> PICK y : y = y0
  OBVIOUS
<1>3. /\ y.phase = "snapshot" /\ y.snap = x.snap /\ y.listed = x.listed + 1
      /\ y.buffer = x.buffer \o SetToSeq(ListRows(k))
      /\ y.versions = [x.versions EXCEPT ![k] = Now]
  OBVIOUS
<1>4. x \in Collecting /\ Collects(a) /\ TruthOf(a)
  BY <1>1, <1>2, SessionFields DEF Collects, SessionTruth
<1>5. x.versions \in Cuts /\ TrueLists(x)
  BY <1>2, <1>4 DEF TruthOf
<1>6. y \in Collecting
  <2>1. /\ x.snap \in Snapshots /\ x.listed \in 0..Len(Kinds) /\ x.buffer \in Seq(Resource)
        /\ x.pages \in Nat /\ x.total \in Nat /\ x.versions \in [Range(Kinds) -> Nat]
    BY <1>4, CollectingFields
  <2>0. Kinds \in Seq(Range(Kinds))
    BY DEF SyncAssumption
  <2>2. Len(Kinds) \in Nat /\ Now \in Nat
    BY <1>1, <2>0, BaseTypes
  <2>3. x.listed + 1 \in 0..Len(Kinds)
    <3>1. x.listed < Len(Kinds) /\ x.listed \in 0..Len(Kinds) /\ Len(Kinds) \in Nat
      BY <1>2, <2>1, <2>2
    <3> QED
      BY <3>1
  <2>4. SetToSeq(ListRows(k)) \in Seq(Resource)
    BY <1>1, ListArrives
  <2>5. x.buffer \o SetToSeq(ListRows(k)) \in Seq(Resource)
    BY <2>1, <2>4
  <2>6. [x.versions EXCEPT ![k] = Now] \in [Range(Kinds) -> Nat]
    BY <2>1, <2>2
  <2> QED
    BY <2>1, <2>3, <2>5, <2>6 DEF Collecting
<1> HIDE DEF y0
<1>7. Alone(a) /\ session'[a] = y
  BY <1>1, <1>2, QuietAlone
<1>8. TrueLists(y) /\ y.versions \in Cuts
  BY <1>1, <1>2, <1>3, <1>4, <1>5, <1>6, ListingIsTrue
<1>9. Past /\ UNCHANGED <<status, lifecycle, resource_version, last_sequence>>
  BY <1>1, <1>7, AloneFacts
<1>10. TrueLists(y)' /\ y.versions \in Cuts'
  BY <1>1, <1>2, <1>6, <1>8, <1>9, TrueListsStay, PastCuts
<1>11. TruthOf(a)'
  <2>1. session'[a].phase # "idle" => session'[a].versions \in Cuts'
    BY <1>7, <1>10
  <2>2. TrueLists(session[a])'
    BY <1>7, <1>10 DEF TrueLists, Listed, ListedRow, TrueRow, InPages, InBuffer
  <2> QED
    BY <2>1, <2>2 DEF TruthOf
<1>12. ASSUME NEW b \in Agents, b = a, Active(b), Anchored(b)' PROVE Keeps(b)'
  <2>1. session'[b] = y /\ session[b] = x /\ Collects(b)
    BY <1>4, <1>7, <1>12
  <2>2. OnlyRequestLives(b) => OnlyRequestLives(b)'
    BY <1>2, <1>9 DEF OnlyRequestLives
  <2>3. sequence[b] \in Nat /\ sequence'[b] = sequence[b]
    BY <1>1, <1>2 DEF BaseInv, BeginInv, AgentFacts
  <2>4. Anchored(b) => Keeps(b)
    BY <1>1, <1>12 DEF AnchoredFacts
  <2> QED
    BY <1>1, <1>2, <1>3, <1>9, <1>12, <2>1, <2>2, <2>3, <2>4, KeepsCollecting
<1>13. net' \ net = {}
  BY <1>2
<1> QED
  BY <1>3, <1>7, <1>11, <1>12, <1>13, PictureAlone

\* What is left of the buffer, and the page, say what the buffer said.
LEMMA PagingIsTrue ==
    ASSUME BaseInv, NEW x \in Collecting, x.phase = "snapshot", TrueLists(x),
           NEW n \in 1..Len(x.buffer), NEW r, net' = net \cup {r}, r.type = "page",
           r.snap = x.snap, r.content = SubSeq(x.buffer, 1, n),
           NEW y \in Collecting, y.phase = "snapshot", y.snap = x.snap, y.listed = x.listed,
           y.buffer = SubSeq(x.buffer, n + 1, Len(x.buffer)), y.versions = x.versions,
           UNCHANGED <<log, status, lifecycle, resource_version>>
    PROVE  TrueLists(y)'
<1>1. x.buffer \in Seq(Resource) /\ Len(x.buffer) \in Nat
  BY CollectingFields
<1>2. /\ DOMAIN r.content = 1..n /\ n \in Nat
      /\ \A i \in 1..n : r.content[i] = x.buffer[i] /\ i \in DOMAIN x.buffer
  BY <1>1
<1>3. /\ DOMAIN y.buffer = 1..(Len(x.buffer) - n)
      /\ \A i \in 1..(Len(x.buffer) - n) : y.buffer[i] = x.buffer[n + i]
  BY <1>1
<1>4. /\ Listed(y)' = Listed(x)
      /\ \A q : ListedRow(y, q)' <=> ListedRow(x, q)
  BY DEF Listed, ListedRow, TrueRow, VersionAt, ChangesOf
<1>5. ASSUME NEW m \in net', m.type = "page", m.snap = y.snap, NEW i \in DOMAIN m.content
      PROVE  ListedRow(y, m.content[i])'
  <2>1. CASE m \in net
    BY <1>4, <1>5, <2>1 DEF TrueLists
  <2>2. CASE m = r
    BY <1>2, <1>4, <1>5, <2>2 DEF TrueLists
  <2> QED
    BY <2>1, <2>2
<1>6. ASSUME NEW i \in DOMAIN y.buffer PROVE ListedRow(y, y.buffer[i])'
  <2>1. n + i \in DOMAIN x.buffer /\ y.buffer[i] = x.buffer[n + i]
    BY <1>1, <1>2, <1>3
  <2>2. ListedRow(x, y.buffer[i])
    BY <2>1 DEF TrueLists
  <2> QED
    BY <1>4, <2>2
<1>7. ASSUME NEW u, InBuffer(x, u) PROVE InPages(y.snap, u)' \/ InBuffer(y, u)
  <2>1. PICK i \in DOMAIN x.buffer : x.buffer[i].uid = u
    BY <1>7 DEF InBuffer
  <2>2. CASE i <= n
    <3>1. i \in DOMAIN r.content /\ r.content[i].uid = u
      BY <1>1, <1>2, <2>1, <2>2
    <3> QED
      BY <3>1 DEF InPages
  <2>3. CASE i > n
    <3>1. i - n \in 1..(Len(x.buffer) - n) /\ n + (i - n) = i
      BY <1>1, <1>2, <2>1, <2>3
    <3>2. y.buffer[i - n] = x.buffer[i]
      BY <1>3, <3>1
    <3> QED
      BY <1>3, <2>1, <3>1, <3>2 DEF InBuffer
  <2> QED
    BY <1>1, <1>2, <2>1, <2>2, <2>3
<1>8. ASSUME NEW u \in Uids, KindOf[u] \in Listed(y)', VersionAt(u, y.versions[KindOf[u]])' # 0
      PROVE  InPages(y.snap, u)' \/ InBuffer(y, u)
  <2>1. KindOf[u] \in Listed(x) /\ VersionAt(u, x.versions[KindOf[u]]) # 0
    BY <1>4, <1>8 DEF VersionAt, ChangesOf
  <2>2. InPages(x.snap, u) \/ InBuffer(x, u)
    BY <2>1 DEF TrueLists
  <2>3. InPages(x.snap, u) => InPages(y.snap, u)'
    BY DEF InPages
  <2> QED
    BY <1>7, <2>2, <2>3
<1>9. ASSUME status'[y.snap] = "pending", NEW u \in Uids, KindOf[u] \in Listed(y)'
      PROVE  Seen(u, y.versions[KindOf[u]])'
  <2>1. Seen(u, x.versions[KindOf[u]])
    BY <1>4, <1>9 DEF TrueLists
  <2> QED
    BY <2>1 DEF Seen, GoneBy
<1> HIDE DEF Listed
<1>10. \A u : InBuffer(y, u)' <=> InBuffer(y, u)
  BY DEF InBuffer
<1> QED
  BY <1>5, <1>6, <1>8, <1>9, <1>10 DEF TrueLists, InBuffer, InPages, Listed, ListedRow, TrueRow

\* The step that posts a page, with the session that it leaves.
LEMMA PageStep ==
    ASSUME BaseInv, SyncAssumption, NEW a \in Agents, PostPage(a)
    PROVE  \E r \in Requests, y \in Collecting, n \in 1..Len(session[a].buffer) :
             /\ session[a] \in Collecting /\ session[a].phase = "snapshot"
             /\ Asks(a, r) /\ session' = [session EXCEPT ![a] = y]
             /\ r.type = "page" /\ r.snap = session[a].snap
             /\ r.content = SubSeq(session[a].buffer, 1, n)
             /\ y.phase = "snapshot" /\ y.snap = session[a].snap
             /\ y.listed = session[a].listed /\ y.versions = session[a].versions
             /\ y.buffer = SubSeq(session[a].buffer, n + 1, Len(session[a].buffer))
<1> DEFINE x == session[a]
<1>1. AgentFacts /\ SessionFacts
  BY DEF BaseInv, BeginInv
<1>2. PICK r \in Requests, n \in 1..Len(x.buffer) :
         /\ x.phase = "snapshot"
         /\ Asks(a, r) /\ r.type = "page" /\ r.snap = x.snap
         /\ r.number = x.pages + 1 /\ r.content = SubSeq(x.buffer, 1, n)
         /\ UNCHANGED issued
         /\ session' = [session EXCEPT ![a] =
              [phase |-> "snapshot", snap |-> x.snap, listed |-> x.listed,
               buffer |-> SubSeq(x.buffer, n + 1, Len(x.buffer)),
               pages |-> x.pages + 1, total |-> x.total + n,
               versions |-> x.versions]]
  BY <1>1, PageEffect, Zenon
<1> DEFINE y == [phase |-> "snapshot", snap |-> x.snap, listed |-> x.listed,
                 buffer |-> SubSeq(x.buffer, n + 1, Len(x.buffer)),
                 pages |-> x.pages + 1, total |-> x.total + n,
                 versions |-> x.versions]
<1>3. x \in Collecting
  BY <1>1, <1>2, SessionFields DEF Collects
<1>4. session' = [session EXCEPT ![a] = y]
  BY <1>2
<1>5. y \in Collecting
  <2> HIDE DEF x
  <2>1. /\ x.snap \in Snapshots /\ x.listed \in 0..Len(Kinds) /\ x.buffer \in Seq(Resource)
        /\ x.pages \in Nat /\ x.total \in Nat /\ x.versions \in [Range(Kinds) -> Nat]
    BY <1>3, CollectingFields
  <2>2. SubSeq(x.buffer, n + 1, Len(x.buffer)) \in Seq(Resource)
    BY <2>1
  <2>3. x.pages + 1 \in Nat /\ x.total + n \in Nat
    BY <2>1
  <2> QED
    BY <2>1, <2>2, <2>3 DEF Collecting
<1>6. /\ y.phase = "snapshot" /\ y.snap = x.snap /\ y.listed = x.listed
      /\ y.versions = x.versions /\ y.buffer = SubSeq(x.buffer, n + 1, Len(x.buffer))
  OBVIOUS
<1> HIDE DEF y
<1> QED
  BY <1>2, <1>3, <1>4, <1>5, <1>6

\* The step that posts the complete, with the session that it leaves.
LEMMA CompleteStep ==
    ASSUME BaseInv, NEW a \in Agents, PostComplete(a)
    PROVE  \E r \in Requests, y \in Collecting :
             /\ session[a] \in Collecting /\ session[a].phase = "snapshot" /\ AllEmitted(a)
             /\ Asks(a, r) /\ session' = [session EXCEPT ![a] = y]
             /\ r.type = "complete" /\ r.snap = session[a].snap
             /\ y.phase = "completing" /\ y.snap = session[a].snap
             /\ y.listed = session[a].listed /\ y.versions = session[a].versions
             /\ y.buffer = session[a].buffer
<1> DEFINE x == session[a]
<1>1. AgentFacts /\ SessionFacts
  BY DEF BaseInv, BeginInv
<1>2. PICK r \in Requests :
         /\ x.phase = "snapshot" /\ AllEmitted(a)
         /\ Asks(a, r) /\ r.type = "complete" /\ r.snap = x.snap
         /\ r.totalPages = x.pages /\ r.totalResources = x.total
         /\ UNCHANGED issued
         /\ session' = [session EXCEPT ![a] =
              [phase |-> "completing", snap |-> x.snap, listed |-> x.listed,
               buffer |-> x.buffer, pages |-> x.pages, total |-> x.total,
               versions |-> x.versions]]
  BY <1>1, CompleteEffect, Zenon
<1> DEFINE y == [phase |-> "completing", snap |-> x.snap, listed |-> x.listed,
                 buffer |-> x.buffer, pages |-> x.pages, total |-> x.total,
                 versions |-> x.versions]
<1>3. x \in Collecting
  BY <1>1, <1>2, SessionFields DEF Collects
<1>4. session' = [session EXCEPT ![a] = y]
  BY <1>2
<1>5. y \in Collecting
  <2> HIDE DEF x
  <2>1. /\ x.snap \in Snapshots /\ x.listed \in 0..Len(Kinds) /\ x.buffer \in Seq(Resource)
        /\ x.pages \in Nat /\ x.total \in Nat /\ x.versions \in [Range(Kinds) -> Nat]
    BY <1>3, CollectingFields
  <2> QED
    BY <2>1 DEF Collecting
<1>6. /\ y.phase = "completing" /\ y.snap = x.snap /\ y.listed = x.listed
      /\ y.versions = x.versions /\ y.buffer = x.buffer
  OBVIOUS
<1> HIDE DEF y
<1> QED
  BY <1>2, <1>3, <1>4, <1>5, <1>6

\* A page goes out.
LEMMA PicturePage ==
    ASSUME StreamInv, SyncAssumption, PictureInv, NEW a \in Agents, PostPage(a)
    PROVE  PictureInv'
<1>1. BaseInv /\ SessionTruth /\ AnchoredFacts
  BY DEF StreamInv, PictureInv
<1>0. PICK r \in Requests, y \in Collecting, n \in 1..Len(session[a].buffer) :
         /\ session[a] \in Collecting /\ session[a].phase = "snapshot"
         /\ Asks(a, r) /\ session' = [session EXCEPT ![a] = y]
         /\ r.type = "page" /\ r.snap = session[a].snap
         /\ r.content = SubSeq(session[a].buffer, 1, n)
         /\ y.phase = "snapshot" /\ y.snap = session[a].snap
         /\ y.listed = session[a].listed /\ y.versions = session[a].versions
         /\ y.buffer = SubSeq(session[a].buffer, n + 1, Len(session[a].buffer))
  BY <1>1, PageStep
<1> PICK x : x = session[a]
  OBVIOUS
<1>2. /\ x \in Collecting /\ x.phase = "snapshot" /\ n \in 1..Len(x.buffer)
      /\ r.type = "page" /\ r.snap = x.snap /\ r.content = SubSeq(x.buffer, 1, n)
      /\ y.phase = "snapshot" /\ y.snap = x.snap
      /\ y.listed = x.listed /\ y.versions = x.versions
      /\ y.buffer = SubSeq(x.buffer, n + 1, Len(x.buffer))
  BY <1>0
<1>3. Asks(a, r) /\ session' = [session EXCEPT ![a] = y]
  BY <1>0
<1>4. Collects(a) /\ TruthOf(a)
  BY <1>1, <1>2 DEF Collects, SessionTruth
<1>5. x.versions \in Cuts /\ TrueLists(x)
  BY <1>2, <1>4 DEF TruthOf
<1>6. /\ Alone(a) /\ net' = net \cup {r} /\ r.agent = a /\ r.seq = sequence[a] + 1
      /\ request[a] = None /\ session'[a] = y /\ request'[a] = r /\ answer'[a] = "none"
      /\ sequence'[a] = sequence[a] + 1 /\ sequence[a] \in Nat
  BY <1>1, <1>3, AskAlone
<1>7. /\ Past /\ UNCHANGED <<status, lifecycle, resource_version, last_sequence, log>>
  BY <1>1, <1>6, AloneFacts DEF Alone
<1>9. TrueLists(y)'
  BY <1>1, <1>2, <1>5, <1>6, <1>7, PagingIsTrue
<1>10. y.versions \in Cuts'
  BY <1>2, <1>5, <1>7, PastCuts
<1>11. TruthOf(a)'
  <2>1. session'[a].phase # "idle" => session'[a].versions \in Cuts'
    BY <1>6, <1>10
  <2>2. TrueLists(session[a])'
    BY <1>6, <1>9 DEF TrueLists, Listed, ListedRow, TrueRow, InPages, InBuffer
  <2> QED
    BY <2>1, <2>2 DEF TruthOf
<1>12. ASSUME NEW b \in Agents, b = a, Active(b), Anchored(b)' PROVE Keeps(b)'
  <2>1. session'[b] = y /\ session[b] = x /\ Collects(b)
    BY <1>4, <1>6, <1>12
  <2>2. OnlyRequestLives(b) => OnlyRequestLives(b)'
    BY <1>1, <1>6, <1>7, <1>12, OwnRequestLives
  <2>3. sequence[b] \in Nat /\ sequence'[b] = sequence[b] + 1
    BY <1>6, <1>12
  <2>4. Anchored(b) => Keeps(b)
    BY <1>1, <1>12 DEF AnchoredFacts
  <2> QED
    BY <1>1, <1>2, <1>3, <1>7, <1>12, <2>1, <2>2, <2>3, <2>4, KeepsCollecting
<1>13. \A m \in net' \ net : m = r
  BY <1>6
<1> QED
  BY <1>2, <1>3, <1>4, <1>6, <1>11, <1>12, <1>13, PictureAlone

\* The complete goes out: the snapshot is the cluster at the lists' versions.
LEMMA PictureComplete ==
    ASSUME StreamInv, SyncAssumption, PictureInv, NEW a \in Agents, PostComplete(a)
    PROVE  PictureInv'
<1>1. /\ BaseInv /\ SessionFacts /\ AgentFacts /\ SessionTruth /\ AnchoredFacts
      /\ TrafficFacts /\ RowsSent
  BY DEF StreamInv, PictureInv, BaseInv, BeginInv, TrafficFacts
<1>0. PICK r \in Requests, y \in Collecting :
         /\ session[a] \in Collecting /\ session[a].phase = "snapshot" /\ AllEmitted(a)
         /\ Asks(a, r) /\ session' = [session EXCEPT ![a] = y]
         /\ r.type = "complete" /\ r.snap = session[a].snap
         /\ y.phase = "completing" /\ y.snap = session[a].snap
         /\ y.listed = session[a].listed /\ y.versions = session[a].versions
         /\ y.buffer = session[a].buffer
  BY <1>1, CompleteStep
<1> PICK x : x = session[a]
  OBVIOUS
<1>2. /\ x \in Collecting /\ x.phase = "snapshot" /\ AllEmitted(a)
      /\ r.type = "complete" /\ r.snap = x.snap
      /\ y.phase = "completing" /\ y.snap = x.snap
      /\ y.listed = x.listed /\ y.versions = x.versions /\ y.buffer = x.buffer
  BY <1>0
<1>3. Asks(a, r) /\ session' = [session EXCEPT ![a] = y]
  BY <1>0
<1>4. Collects(a) /\ TruthOf(a)
  BY <1>1, <1>2 DEF Collects, SessionTruth
<1>5. x.versions \in Cuts /\ TrueLists(x) /\ x.listed = Len(Kinds) /\ x.buffer = <<>>
  BY <1>2, <1>4 DEF TruthOf, AllEmitted
<1>6. /\ Alone(a) /\ net' = net \cup {r} /\ r.agent = a /\ r.seq = sequence[a] + 1
      /\ request[a] = None /\ session'[a] = y /\ request'[a] = r /\ answer'[a] = "none"
      /\ sequence'[a] = sequence[a] + 1 /\ sequence[a] \in Nat
  BY <1>1, <1>3, AskAlone
<1>7. /\ Past /\ UNCHANGED <<status, lifecycle, resource_version, last_sequence, log>>
  BY <1>1, <1>6, AloneFacts DEF Alone
<1>9. TrueLists(y)
  <2>1. \A q : ListedRow(y, q) <=> ListedRow(x, q)
    BY <1>2 DEF ListedRow, Listed, TrueRow
  <2>2. Listed(y) = Listed(x)
    BY <1>2 DEF Listed
  <2>3. \A u : InBuffer(y, u) <=> InBuffer(x, u)
    BY <1>2 DEF InBuffer
  <2> QED
    BY <1>2, <1>5, <2>1, <2>2, <2>3 DEF TrueLists
<1>10. \A m \in net' \ net : m = r
  BY <1>6
<1>11. TrueLists(y)' /\ y.versions \in Cuts'
  <2>1. y.versions \in Cuts /\ net \subseteq net'
    BY <1>2, <1>5, <1>6
  <2>2. \A m \in net' \ net : m.type = "page" => m.snap # y.snap
    BY <1>2, <1>10
  <2> QED
    BY <1>1, <1>7, <1>9, <2>1, <2>2, TrueListsStay, PastCuts
<1>12. TruthOf(a)'
  <2>1. session'[a].phase # "idle" => session'[a].versions \in Cuts'
    BY <1>6, <1>11
  <2>2. TrueLists(session[a])'
    BY <1>6, <1>11 DEF TrueLists, Listed, ListedRow, TrueRow, InPages, InBuffer
  <2> QED
    BY <2>1, <2>2 DEF TruthOf
<1>13. \E v \in Cuts' : Depicts(r.snap, v)'
  <2>1. Depicts(x.snap, x.versions)
    BY <1>2, <1>5, CompletingDepicts
  <2>2. PICK s, v : s = x.snap /\ v = x.versions
    OBVIOUS
  <2>3. Depicts(s, v)' /\ v \in Cuts'
    <3>1. v \in Cuts /\ net \subseteq net' /\ Depicts(s, v)
      BY <1>5, <1>6, <2>1, <2>2
    <3>2. \A m \in net' \ net : m.type = "page" => m.snap # s
      BY <1>2, <1>10
    <3> QED
      BY <1>1, <1>7, <3>1, <3>2, DepictsStay
  <2>4. s = r.snap
    BY <1>2, <2>2
  <2> QED
    BY <2>3, <2>4 DEF Depicts, InPages
<1>14. ASSUME NEW b \in Agents, b = a, Active(b), Anchored(b)' PROVE Keeps(b)'
  <2>1. session'[b] = y /\ session[b] = x /\ Collects(b)
    BY <1>4, <1>6, <1>14
  <2>2. Keeps(b)
    BY <1>1, <1>2, <1>7, <1>14, <2>1 DEF AnchoredFacts, Anchored, Collects, Watches
  <2>3. OnlyRequestLives(b)'
    BY <1>1, <1>6, <1>7, <1>14, <2>2, OwnRequestLives DEF Keeps
  <2>4. status[x.snap] # "complete"
    <3>1. x.snap \in Snapshots
      BY <1>2, CollectingFields
    <3>2. \A m \in net : m.type = "complete" => m.snap # x.snap
      BY <1>1, <1>2, <1>4 DEF TrafficFacts, Sent
    <3> QED
      BY <1>1, <3>1, <3>2 DEF RowsSent
  <2>5. status[x.snap] = "pending" => last_sequence[b] <= sequence[b]
    BY <1>2, <2>1, <2>2 DEF Keeps
  <2>6. NotApplied(b)'
    <3>1. last_sequence[b] \in Nat /\ sequence[b] \in Nat /\ sequence'[b] = sequence[b] + 1
          /\ answer'[b] = "none" /\ session'[b].snap = x.snap
      BY <1>1, <1>2, <1>6, <1>14, <2>1, BaseTypes
    <3> QED
      BY <1>7, <2>4, <2>5, <3>1 DEF NotApplied
  <2>7. session'[b].phase = "completing"
    BY <1>2, <2>1
  <2> QED
    BY <2>3, <2>6, <2>7 DEF Keeps, Watches
<1> QED
  BY <1>2, <1>4, <1>6, <1>10, <1>12, <1>13, <1>14, PictureAlone

\* A queue that continues a picture, in the session that an agent goes on with.
LEMMA QueueBecomes ==
    ASSUME Past, UNCHANGED <<lifecycle, resource_version>>, NEW a, NEW y, session'[a] = y,
           y.queue \in Seq(Event), y.versions \in Cuts,
           NEW c \in Cuts, PicturedAt(c), Continues(y.queue, c, y.versions)
    PROVE  QueueFits(a)'
<1>0. PICK q, v : q = y.queue /\ v = y.versions
  OBVIOUS
<1>1. q \in Seq(Event) /\ v \in Cuts /\ Continues(q, c, v)
  BY <1>0
<1>2. c \in Cuts' /\ PicturedAt(c)' /\ Continues(q, c, v)'
  BY <1>1, PastCuts, PastPicture, PastEvents
<1>3. Continues(y.queue, c, y.versions)'
  BY <1>0, <1>2 DEF Continues, WatchEvent
<1>4. Continues(session[a].queue, c, session[a].versions)'
  BY <1>3, SameQueue
<1> QED
  BY <1>2, <1>4 DEF QueueFits

\* Equal batches continue equal cuts.
LEMMA SameBatch ==
    ASSUME NEW es, NEW v, NEW w, NEW fs, NEW x, NEW y, es = fs, v = x, w = y,
           Continues(es, v, w)'
    PROVE  Continues(fs, x, y)'
OBVIOUS

\* The same of the batch under way, and of the queue after it.
LEMMA BatchBecomes ==
    ASSUME Past, UNCHANGED <<lifecycle, resource_version>>, NEW a, NEW y, session'[a] = y,
           y.queue \in Seq(Event), y.versions \in Cuts, NEW r, request'[a] = r,
           r.events \in Seq(Event), NEW c \in Cuts, PicturedAt(c), NEW w \in Cuts,
           Continues(r.events, c, w), Continues(y.queue, w, y.versions)
    PROVE  BatchFits(a)'
<1>0. PICK q, v, es : q = y.queue /\ v = y.versions /\ es = r.events
  OBVIOUS
<1>1. /\ q \in Seq(Event) /\ v \in Cuts /\ Continues(q, w, v)
      /\ es \in Seq(Event) /\ Continues(es, c, w)
  BY <1>0
<1>2. c \in Cuts' /\ w \in Cuts' /\ PicturedAt(c)'
  BY PastCuts, PastPicture
<1>3. Continues(q, w, v)'
  BY <1>1, PastEvents
<1>4. Continues(es, c, w)'
  BY <1>1, PastEvents
<1>5. Continues(y.queue, w, y.versions)'
  BY <1>0, <1>3, SameBatch
<1>6. Continues(session[a].queue, w, session[a].versions)'
  BY <1>5, SameQueue
<1>7. es = request'[a].events
  BY <1>0
<1>8. Continues(request[a].events, c, w)'
  BY <1>4, <1>7 DEF Continues, WatchEvent
<1> QED
  BY <1>2, <1>6, <1>8 DEF BatchFits

\* What an agent that watches is worth.
LEMMA WatchingTruth ==
    ASSUME NEW a, Past, NEW y, session'[a] = y, y.phase = "watch", y.versions \in Cuts
    PROVE  TruthOf(a)'
<1>1. y.versions \in Cuts'
  BY PastCuts
<1>2. ~Collects(a)'
  BY DEF Collects
<1> QED
  BY <1>1, <1>2 DEF TruthOf

\* A change that comes in continues the queue.
LEMMA PictureReceive ==
    ASSUME StreamInv, SyncAssumption, PictureInv, NEW a \in Agents, NEW k \in Range(Kinds),
           ReceiveChange(a, k)
    PROVE  PictureInv'
<1>1. BaseInv /\ SessionFacts /\ LogInv /\ SessionTruth /\ AnchoredFacts
  BY DEF StreamInv, PictureInv, BaseInv
<1>0. PICK i \in NextChange(a, k) :
         /\ session[a].phase = "watch"
         /\ session' = [session EXCEPT ![a] =
              [phase |-> "watch", queue |-> Append(session[a].queue, WatchEvent(i)),
               versions |-> [session[a].versions EXCEPT ![k] = i]]]
         /\ UNCHANGED <<ingestVars, log, net, issued, sequence, stored, request, answer>>
  BY <1>1, ReceiveEffect
<1> PICK x : x = session[a]
  OBVIOUS
<1> DEFINE y0 == [phase |-> "watch", queue |-> Append(x.queue, WatchEvent(i)),
                  versions |-> [x.versions EXCEPT ![k] = i]]
<1>2. x.phase = "watch" /\ session' = [session EXCEPT ![a] = y0]
  BY <1>0
<1> PICK y : y = y0
  OBVIOUS
<1>3. /\ y.phase = "watch" /\ y.queue = Append(x.queue, WatchEvent(i))
      /\ y.versions = [x.versions EXCEPT ![k] = i]
  OBVIOUS
<1> HIDE DEF y0
<1>4. Alone(a) /\ session'[a] = y
  BY <1>0, <1>1, <1>2, QuietAlone
<1>5. Past /\ UNCHANGED <<status, lifecycle, resource_version, last_sequence, inventory_state>>
  BY <1>1, <1>4, AloneFacts
<1>6. Watches(a) /\ x.queue \in Seq(Event) /\ x.versions \in Cuts
  BY <1>1, <1>2, SessionFields, WatchingFields DEF Watches, SessionTruth, TruthOf
<1>7. /\ i \in (x.versions[k] + 1)..Now /\ KindOf[log[i].uid] = k
      /\ \A j \in (x.versions[k] + 1)..(i - 1) : KindOf[log[j].uid] # k
  BY <1>0 DEF NextChange
<1>8. ASSUME NEW v \in Cuts, Continues(x.queue, v, x.versions)
      PROVE  Continues(y.queue, v, y.versions)
  BY <1>1, <1>3, <1>6, <1>7, <1>8, ContinuesAppend
<1>9. y.versions \in Cuts
  <2>1. x.versions \in [Range(Kinds) -> 0..Now] /\ Now \in Nat
    BY <1>1, <1>6, BaseTypes DEF Cuts
  <2>2. i \in 0..Now
    BY <1>7, <2>1
  <2> QED
    BY <1>3, <2>1, <2>2 DEF Cuts
<1>10. y.queue \in Seq(Event)
  <2>1. session' \in [Agents -> {Idle} \cup Collecting \cup Watching]
    <3>1. [SyncNext]_syncVars
      BY DEF SyncNext, AgentStep
    <3> QED
      BY <1>1, <3>1, SessionsNext DEF SessionFacts
  <2>2. y \in Watching
    BY <1>3, <1>4, <2>1 DEF Idle, Collecting
  <2> QED
    BY <2>2, WatchingFields
<1>11. TruthOf(a)'
  BY <1>3, <1>4, <1>5, <1>9, WatchingTruth
<1>12. ASSUME NEW b \in Agents, b = a, Active(b), Anchored(b)' PROVE Keeps(b)'
  <2>1. session'[b] = y /\ session[b] = x /\ Watches(b) /\ request'[b] = request[b]
        /\ answer'[b] = answer[b] /\ sequence'[b] = sequence[b]
    BY <1>0, <1>4, <1>6, <1>12
  <2>2. Keeps(b)
    BY <1>1, <1>12, <2>1 DEF AnchoredFacts, Anchored
  <2>3. OnlyRequestLives(b)'
    BY <1>0, <1>5, <2>2 DEF Keeps, OnlyRequestLives
  <2>4. Fresh(b)' => last_sequence'[b] <= sequence'[b]
    BY <1>5, <2>1, <2>2 DEF Keeps, Fresh
  <2>5. ASSUME CaughtUp(b) PROVE CaughtUp(b)'
    <3>1. PICK c \in Cuts : PicturedAt(c) /\ Continues(x.queue, c, x.versions)
      BY <2>1, <2>5 DEF CaughtUp, QueueFits
    <3>2. Continues(y.queue, c, y.versions)
      BY <1>8, <3>1
    <3>3. QueueFits(b)'
      BY <1>5, <1>9, <1>10, <2>1, <3>1, <3>2, QueueBecomes
    <3> QED
      BY <1>5, <2>1, <2>5, <3>3 DEF CaughtUp
  <2>6. ASSUME InFlight(b) PROVE InFlight(b)'
    <3>1. PICK c \in Cuts, w \in Cuts :
             PicturedAt(c) /\ Continues(request[b].events, c, w) /\ Continues(x.queue, w, x.versions)
      BY <2>1, <2>6 DEF InFlight, BatchFits
    <3>2. request[b].events \in Seq(Event)
      <4>1. request[b] \in net /\ request[b].type = "events"
        BY <1>1, <1>12, <2>1, <2>6
           DEF BaseInv, BeginInv, AgentFacts, InFlight, SessionFacts, Shape, Watches
      <4> QED
        BY <1>1, <4>1, BaseNet
    <3>3. PICK r : r = request[b]
      OBVIOUS
    <3>4. Continues(y.queue, w, y.versions)
      BY <1>8, <3>1
    <3>5. BatchFits(b)'
      BY <1>5, <1>9, <1>10, <2>1, <3>1, <3>2, <3>3, <3>4, BatchBecomes
    <3>6. /\ request'[b] # None /\ answer'[b] # "ok"
          /\ Fresh(b)' => request'[b].seq = last_sequence'[b] + 1
      BY <1>5, <2>1, <2>6 DEF InFlight, Fresh
    <3> QED
      BY <3>5, <3>6 DEF InFlight
  <2>7. CaughtUp(b)' \/ InFlight(b)'
    BY <2>1, <2>2, <2>5, <2>6 DEF Keeps
  <2> QED
    BY <1>3, <2>1, <2>3, <2>4, <2>7 DEF Keeps, Watches
<1>13. net' \ net = {}
  BY <1>0
<1> QED
  BY <1>3, <1>4, <1>11, <1>12, <1>13, PictureAlone

\* The step that posts events, with the session that it leaves.
LEMMA EventsStep ==
    ASSUME BaseInv, NEW a \in Agents, PostEvents(a)
    PROVE  \E r \in Requests, y \in Watching, n \in 1..Len(session[a].queue) :
             /\ session[a] \in Watching
             /\ Asks(a, r) /\ session' = [session EXCEPT ![a] = y]
             /\ r.type = "events" /\ r.events = SubSeq(session[a].queue, 1, n)
             /\ y.phase = "watch" /\ y.versions = session[a].versions
             /\ y.queue = SubSeq(session[a].queue, n + 1, Len(session[a].queue))
<1> DEFINE x == session[a]
<1>1. AgentFacts /\ SessionFacts
  BY DEF BaseInv, BeginInv
<1>2. PICK r \in Requests, n \in 1..Len(x.queue) :
         /\ x.phase = "watch"
         /\ Asks(a, r) /\ r.type = "events" /\ r.events = SubSeq(x.queue, 1, n)
         /\ UNCHANGED issued
         /\ session' = [session EXCEPT ![a] =
              [phase |-> "watch", queue |-> SubSeq(x.queue, n + 1, Len(x.queue)),
               versions |-> x.versions]]
  BY <1>1, EventsEffect, Zenon
<1> DEFINE y == [phase |-> "watch", queue |-> SubSeq(x.queue, n + 1, Len(x.queue)),
                 versions |-> x.versions]
<1>3. x \in Watching
  BY <1>1, <1>2, SessionFields DEF Watches
<1>4. session' = [session EXCEPT ![a] = y]
  BY <1>2
<1>5. y \in Watching
  <2> HIDE DEF x
  <2>1. x.queue \in Seq(Event) /\ x.versions \in [Range(Kinds) -> Nat]
    BY <1>3, WatchingFields
  <2>2. SubSeq(x.queue, n + 1, Len(x.queue)) \in Seq(Event)
    BY <2>1
  <2> QED
    BY <2>1, <2>2 DEF Watching
<1>6. /\ y.phase = "watch" /\ y.versions = x.versions
      /\ y.queue = SubSeq(x.queue, n + 1, Len(x.queue))
  OBVIOUS
<1> HIDE DEF y
<1> QED
  BY <1>2, <1>3, <1>4, <1>5, <1>6

\* The prefix of a queue is a batch of its own.
LEMMA BatchOfQueue ==
    ASSUME BaseInv, SessionTruth, NEW a \in Agents, Watches(a), session[a] \in Watching,
           QueueFits(a), NEW n \in 1..Len(session[a].queue)
    PROVE  \E c \in Cuts, z \in Cuts :
              /\ PicturedAt(c)
              /\ Continues(SubSeq(session[a].queue, 1, n), c, z)
              /\ Continues(SubSeq(session[a].queue, n + 1, Len(session[a].queue)), z,
                           session[a].versions)
<1> PICK q, v : q = session[a].queue /\ v = session[a].versions
  OBVIOUS
<1>1. q \in Seq(Event) /\ v \in Cuts /\ LogInv /\ n \in 1..Len(q)
  BY WatchingFields DEF SessionTruth, TruthOf, BaseInv, Watches
<1>2. PICK c \in Cuts : PicturedAt(c) /\ Continues(q, c, v)
  BY DEF QueueFits
<1>3. PICK z \in Cuts : /\ Continues(SubSeq(q, 1, n), c, z)
                        /\ Continues(SubSeq(q, n + 1, Len(q)), z, v)
  BY <1>1, <1>2, ContinuesSplit
<1> QED
  BY <1>2, <1>3

\* A batch goes out: it continues what the API shows, and the queue the batch.
LEMMA PictureEvents ==
    ASSUME StreamInv, SyncAssumption, PictureInv, NEW a \in Agents, PostEvents(a)
    PROVE  PictureInv'
<1>1. BaseInv /\ SessionFacts /\ SessionTruth /\ AnchoredFacts /\ SequenceFacts
  BY DEF StreamInv, PictureInv, BaseInv
<1>0. PICK r \in Requests, y \in Watching, n \in 1..Len(session[a].queue) :
         /\ session[a] \in Watching
         /\ Asks(a, r) /\ session' = [session EXCEPT ![a] = y]
         /\ r.type = "events" /\ r.events = SubSeq(session[a].queue, 1, n)
         /\ y.phase = "watch" /\ y.versions = session[a].versions
         /\ y.queue = SubSeq(session[a].queue, n + 1, Len(session[a].queue))
  BY <1>1, EventsStep
<1> PICK x : x = session[a]
  OBVIOUS
<1>2. /\ x \in Watching /\ n \in 1..Len(x.queue)
      /\ r.type = "events" /\ r.events = SubSeq(x.queue, 1, n)
      /\ y.phase = "watch" /\ y.versions = x.versions
      /\ y.queue = SubSeq(x.queue, n + 1, Len(x.queue))
  BY <1>0
<1>3. Asks(a, r) /\ session' = [session EXCEPT ![a] = y]
  BY <1>0
<1>4. x.phase = "watch" /\ Watches(a) /\ x.versions \in Cuts /\ y.queue \in Seq(Event)
  BY <1>1, <1>2, WatchingFields DEF Watches, SessionTruth, TruthOf
<1>5. r.events \in Seq(Event)
  BY <1>2, RequestShape
<1>6. /\ Alone(a) /\ net' = net \cup {r} /\ r.agent = a /\ r.seq = sequence[a] + 1
      /\ request[a] = None /\ session'[a] = y /\ request'[a] = r /\ answer'[a] = "none"
      /\ sequence'[a] = sequence[a] + 1 /\ sequence[a] \in Nat
  BY <1>1, <1>3, AskAlone
<1>7. /\ Past
      /\ UNCHANGED <<status, lifecycle, resource_version, last_sequence, inventory_state>>
  BY <1>1, <1>6, AloneFacts
<1>8. TruthOf(a)'
  BY <1>2, <1>4, <1>6, <1>7, WatchingTruth
<1>9. ASSUME NEW b \in Agents, b = a, Active(b)
      PROVE  /\ Keeps(b) /\ last_sequence[b] \in Nat
             /\ \E c \in Cuts, z \in Cuts :
                   PicturedAt(c) /\ Continues(r.events, c, z) /\ Continues(y.queue, z, y.versions)
  <2>1. Watches(b) /\ session[b] = x /\ request[b] = None
    BY <1>4, <1>6, <1>9
  <2>2. Keeps(b)
    BY <1>1, <1>9, <2>1 DEF AnchoredFacts, Anchored
  <2>3. QueueFits(b)
    BY <2>1, <2>2 DEF Keeps, CaughtUp, InFlight
  <2>4. PICK c \in Cuts, z \in Cuts :
              /\ PicturedAt(c)
              /\ Continues(SubSeq(session[b].queue, 1, n), c, z)
              /\ Continues(SubSeq(session[b].queue, n + 1, Len(session[b].queue)), z,
                           session[b].versions)
    BY <1>1, <1>2, <2>1, <2>3, BatchOfQueue
  <2>5. PicturedAt(c) /\ Continues(r.events, c, z) /\ Continues(y.queue, z, y.versions)
    BY <1>2, <2>1, <2>4
  <2> QED
    BY <1>1, <1>9, <2>2, <2>5, BaseTypes
<1>10. ASSUME NEW b \in Agents, b = a, Active(b), Anchored(b)' PROVE Keeps(b)'
  <2>1. PICK c \in Cuts, z \in Cuts :
             PicturedAt(c) /\ Continues(r.events, c, z) /\ Continues(y.queue, z, y.versions)
    BY <1>9, <1>10
  <2>2. session'[b] = y /\ request'[b] = r /\ answer'[b] = "none" /\ sequence'[b] = sequence[b] + 1
    BY <1>6, <1>10
  <2>3. BatchFits(b)'
    BY <1>2, <1>4, <1>5, <1>7, <2>1, <2>2, BatchBecomes
  <2>4. OnlyRequestLives(b) /\ (Fresh(b) => last_sequence[b] <= sequence[b])
    BY <1>4, <1>9, <1>10 DEF Keeps, Watches
  <2>5. OnlyRequestLives(b)'
    BY <1>1, <1>6, <1>7, <1>10, <2>4, OwnRequestLives
  <2>6. sequence[b] <= last_sequence[b] /\ sequence[b] \in Nat /\ last_sequence[b] \in Nat
    BY <1>1, <1>4, <1>6, <1>9, <1>10 DEF SequenceFacts, Numbers, Watches
  <2>7. Fresh(b)' => last_sequence'[b] <= sequence'[b] /\ r.seq = last_sequence'[b] + 1
    BY <1>6, <1>7, <1>10, <2>2, <2>4, <2>6 DEF Fresh
  <2>8. InFlight(b)'
    <3>1. r # None
      BY NoRequest
    <3> QED
      BY <2>2, <2>3, <2>7, <3>1 DEF InFlight
  <2> QED
    BY <1>2, <2>2, <2>5, <2>7, <2>8 DEF Keeps, Watches
<1>11. ASSUME Active(a), Fresh(a) PROVE Continuing(r.events)'
  <2>1. Continuing(r.events)
    BY <1>9, <1>11 DEF Continuing
  <2>2. PICK es : es = r.events
    OBVIOUS
  <2>3. Continuing(es)'
    BY <1>5, <1>7, <2>1, <2>2, ContinuingStays
  <2> QED
    BY <2>2, <2>3
<1>12. \A m \in net' \ net : m = r
  BY <1>6
<1>13. \A m \in net' \ net : m.type = "events" /\ Active(a) /\ Fresh(a)
                                 /\ m.seq = last_sequence[a] + 1 => Continuing(m.events)'
  BY <1>11, <1>12
<1> QED
  BY <1>2, <1>6, <1>8, <1>10, <1>12, <1>13, PictureAlone

----------------------------------------------------------------------------
\* A cycle that ends forgets what it said.
LEMMA PictureStops ==
    ASSUME StreamInv, SyncAssumption, PictureInv, NEW a \in Agents, Stops(a)
    PROVE  PictureInv'
<1>1. /\ session \in [Agents -> {Idle} \cup Collecting \cup Watching]
      /\ request \in [Agents -> net \cup {None}]
      /\ answer \in [Agents -> {"none", "ok", "failed"}]
      /\ sequence \in [Agents -> Nat]
  BY DEF StreamInv, BaseInv, SessionFacts, BeginInv, AgentFacts
<1>2. Alone(a) /\ session'[a] = Idle /\ answer'[a] = "none" /\ net' = net
  BY <1>1 DEF Stops, Alone
<1>3. session'[a].phase = "idle"
  BY <1>2 DEF Idle
<1>4. TruthOf(a)'
  BY <1>3 DEF TruthOf, Collects
<1>5. \A b \in Agents : b = a => ~Anchored(b)'
  BY <1>3 DEF Anchored, Collects, Watches
<1>6. net' \ net = {}
  BY <1>2
<1> QED
  BY <1>2, <1>4, <1>5, <1>6, PictureAlone

\* What the session said stays true when only the request goes.
LEMMA TruthOfSame ==
    ASSUME StreamInv, PictureInv, NEW a \in Agents, Alone(a), UNCHANGED <<net, session>>
    PROVE  TruthOf(a)'
<1>1. BaseInv /\ TrafficFacts /\ SessionTruth /\ CompleteTruth
  BY DEF StreamInv, PictureInv
<1>2. Past /\ UNCHANGED <<status, lifecycle, resource_version>>
  BY <1>1, AloneFacts
<1> HIDE DEF Alone
<1>3. SessionTruth'
  BY <1>1, <1>2, TruthStays
<1> QED
  BY <1>3 DEF SessionTruth

\* The transport tries again: nothing was learnt.
LEMMA PictureLoses ==
    ASSUME StreamInv, SyncAssumption, PictureInv, NEW a \in Agents, LoseAnswer(a)
    PROVE  PictureInv'
<1>1. BaseInv /\ SessionTruth /\ AnchoredFacts
  BY DEF StreamInv, PictureInv
<1>2. /\ answer \in [Agents -> {"none", "ok", "failed"}]
      /\ answer' = [answer EXCEPT ![a] = "none"]
      /\ UNCHANGED <<ingestVars, log, net, issued, sequence, stored, session, request>>
  BY <1>1 DEF LoseAnswer, BaseInv, BeginInv, AgentFacts
<1>3. Alone(a) /\ answer'[a] = "none"
  BY <1>2 DEF Alone
<1>4. Past /\ UNCHANGED <<status, lifecycle, resource_version, last_sequence, inventory_state>>
  BY <1>1, <1>3, AloneFacts
<1>5. TruthOf(a)'
  BY <1>2, <1>3, TruthOfSame
<1>6. ASSUME NEW b \in Agents, b = a, Active(b), Anchored(b)' PROVE Keeps(b)'
  <2>1. Anchored(b)
    BY <1>2, <1>4, <1>6 DEF Anchored, Collects, Watches
  <2>2. Keeps(b)
    BY <1>1, <1>6, <2>1 DEF AnchoredFacts
  <2>3. answer'[b] # "ok" /\ net' \ net = {}
    BY <1>2, <1>3, <1>6
  <2> QED
    BY <1>1, <1>2, <1>4, <2>2, <2>3, KeepsStay DEF Fresh
<1> QED
  BY <1>2, <1>3, <1>5, <1>6, PictureAlone

\* A request that was answered is no longer needed to tell what may be applied.
LEMMA AnsweredRequestPasses ==
    ASSUME BaseInv, NEW a \in Agents, OnlyRequestLives(a), request[a].seq <= last_sequence[a],
           UNCHANGED <<net, last_sequence>>
    PROVE  OnlyRequestLives(a)'
BY DEF OnlyRequestLives

\* An answered complete turns the session into a watch of what was listed.
LEMMA PictureTurns ==
    ASSUME StreamInv, SyncAssumption, PictureInv, NEW a \in Agents, Proceeds(a),
           session[a].phase = "completing"
    PROVE  PictureInv'
<1>1. /\ BaseInv /\ SessionFacts /\ SessionTruth /\ AnchoredFacts /\ OkMeansOpened
      /\ Now \in Nat
  BY BaseTypes DEF StreamInv, PictureInv, BaseInv
<1>2. /\ answer[a] = "ok"
      /\ session' = [session EXCEPT ![a] =
             [phase |-> "watch", queue |-> <<>>, versions |-> session[a].versions]]
      /\ request' = [request EXCEPT ![a] = None]
      /\ answer' = [answer EXCEPT ![a] = "none"]
      /\ UNCHANGED <<ingestVars, log, net, issued, sequence>>
  BY <1>1, ProceedEffect DEF Proceeds
<1> PICK x : x = session[a]
  OBVIOUS
<1> PICK y : y = [phase |-> "watch", queue |-> <<>>, versions |-> x.versions]
  OBVIOUS
<1>3. y.phase = "watch" /\ y.queue = <<>> /\ y.versions = x.versions
  OBVIOUS
<1>4. /\ session \in [Agents -> {Idle} \cup Collecting \cup Watching]
      /\ request \in [Agents -> net \cup {None}]
      /\ answer \in [Agents -> {"none", "ok", "failed"}]
  BY <1>1 DEF SessionFacts, BaseInv, BeginInv, AgentFacts
<1>5. /\ Alone(a) /\ session'[a] = y /\ request'[a] = None /\ answer'[a] = "none"
      /\ net' = net
  BY <1>2, <1>4 DEF Alone
<1>6. Past /\ UNCHANGED <<status, lifecycle, resource_version, last_sequence, inventory_state>>
  BY <1>1, <1>5, AloneFacts
<1>7. Collects(a) /\ x.versions \in Cuts /\ y.queue \in Seq(Event)
  BY <1>1, <1>3 DEF Collects, SessionTruth, TruthOf
<1>8. TruthOf(a)'
  BY <1>3, <1>5, <1>6, <1>7, WatchingTruth
<1>9. ASSUME NEW b \in Agents, b = a, Active(b), Anchored(b)' PROVE Keeps(b)'
  <2>1. session[b] = x /\ session'[b] = y /\ request'[b] = None /\ answer[b] = "ok" /\ Collects(b)
        /\ x.phase = "completing" /\ sequence'[b] = sequence[b]
    BY <1>2, <1>5, <1>7, <1>9
  <2>2. Anchored(b)
    BY <1>1, <2>1 DEF OkMeansOpened, Anchored
  <2>3. Keeps(b)
    BY <1>1, <1>9, <2>2 DEF AnchoredFacts
  <2>4. Applied(b)
    BY <2>1, <2>3 DEF Keeps, NotApplied
  <2>5. OnlyRequestLives(b)'
    BY <1>1, <1>5, <1>6, <2>3, <2>4, AnsweredRequestPasses DEF Keeps, Applied
  <2>6. Fresh(b)' => last_sequence'[b] <= sequence'[b]
    BY <1>6, <2>1, <2>4 DEF Applied, Fresh
  <2>7. QueueFits(b)'
    <3>1. PicturedAt(y.versions)
      BY <1>3, <2>1, <2>4 DEF Applied
    <3>2. PICK c : c = y.versions
      OBVIOUS
    <3>3. c \in Cuts /\ PicturedAt(c) /\ Continues(y.queue, c, y.versions)
      BY <1>1, <1>3, <1>7, <3>1, <3>2, ContinuesNothing
    <3> QED
      BY <1>3, <1>6, <1>7, <2>1, <3>3, QueueBecomes
  <2>8. CaughtUp(b)'
    BY <2>1, <2>7 DEF CaughtUp
  <2> QED
    BY <1>3, <2>1, <2>5, <2>6, <2>8 DEF Keeps, Watches
<1> QED
  BY <1>3, <1>5, <1>8, <1>9, PictureAlone

\* Another answer lets the cycle go on.
LEMMA PictureGoesOn ==
    ASSUME StreamInv, SyncAssumption, PictureInv, NEW a \in Agents, Proceeds(a),
           session[a].phase # "completing"
    PROVE  PictureInv'
<1>1. BaseInv /\ SessionFacts /\ SessionTruth /\ AnchoredFacts /\ SequenceFacts
  BY DEF StreamInv, PictureInv, BaseInv
<1>2. /\ answer[a] = "ok"
      /\ request' = [request EXCEPT ![a] = None]
      /\ answer' = [answer EXCEPT ![a] = "none"]
      /\ UNCHANGED <<ingestVars, log, net, issued, sequence, session>>
  BY <1>1, ProceedEffect DEF Proceeds
<1>3. /\ request \in [Agents -> net \cup {None}]
      /\ answer \in [Agents -> {"none", "ok", "failed"}]
  BY <1>1 DEF BaseInv, BeginInv, AgentFacts
<1>4. Alone(a) /\ request'[a] = None /\ answer'[a] = "none"
  BY <1>2, <1>3 DEF Alone
<1>5. Past /\ UNCHANGED <<status, lifecycle, resource_version, last_sequence, inventory_state>>
  BY <1>1, <1>4, AloneFacts
<1>6. TruthOf(a)'
  BY <1>2, <1>4, TruthOfSame
<1>7. ASSUME NEW b \in Agents, b = a, Active(b), Anchored(b)' PROVE Keeps(b)'
  <2>1. Anchored(b)
    BY <1>2, <1>5 , <1>7 DEF Anchored, Collects, Watches
  <2>2. Keeps(b)
    BY <1>1, <1>7, <2>1 DEF AnchoredFacts
  <2>3. /\ session'[b] = session[b] /\ request'[b] = None /\ answer[b] = "ok"
        /\ sequence'[b] = sequence[b] /\ session[b].phase # "completing"
    BY <1>2, <1>4, <1>7
  <2>4. request[b].seq <= last_sequence[b]
    BY <1>1, <2>3 DEF SequenceFacts, Numbers
  <2>5. OnlyRequestLives(b)'
    BY <1>1, <1>2, <1>5, <2>2, <2>4, AnsweredRequestPasses DEF Keeps
  <2>6. session'[b].phase = "snapshot" /\ status'[session'[b].snap] = "pending" =>
          last_sequence'[b] <= sequence'[b]
    BY <1>5, <2>2, <2>3 DEF Keeps
  <2>7. ASSUME Watches(b)
        PROVE  (Fresh(b)' => last_sequence'[b] <= sequence'[b]) /\ CaughtUp(b)'
    <3>1. CaughtUp(b)
      BY <2>2, <2>3, <2>7 DEF Keeps, InFlight
    <3>2. QueueFits(b)'
      BY <1>1, <1>5, <2>3, <2>7, <3>1, QueueStays DEF CaughtUp
    <3>3. CaughtUp(b)'
      BY <2>3, <3>2 DEF CaughtUp
    <3> QED
      BY <1>5, <2>2, <2>3, <2>7, <3>3 DEF Keeps, Fresh
  <2> QED
    BY <2>3, <2>5, <2>6, <2>7 DEF Keeps, Watches
<1> QED
  BY <1>2, <1>4, <1>6, <1>7, PictureAlone

----------------------------------------------------------------------------
(* The steps of the cluster and of the API by itself.                      *)

\* The cluster changes: what was true of its past stays so.
LEMMA PictureChanges ==
    ASSUME StreamInv, SyncAssumption, PictureInv, NEW u \in Uids, NEW deleted \in BOOLEAN,
           ClusterChange(u, deleted)
    PROVE  PictureInv'
<1>1. /\ BaseInv /\ TrafficFacts /\ SessionTruth /\ CompleteTruth /\ Projected /\ LiveEvents
      /\ OkMeansOpened /\ AnchoredFacts /\ LogInv
  BY DEF StreamInv, PictureInv, BaseInv
<1>2. Past
  BY <1>1, PastGrows
<1>3. /\ UNCHANGED <<net, session, request, sequence, answer>>
      /\ UNCHANGED <<active_agent, last_sequence, status, inventory_state>>
      /\ UNCHANGED <<lifecycle, resource_version>>
  BY DEF ClusterChange, ingestVars, writerVars, snapshotVars, agentVars, projection, shownRows, agentSide
<1>4. SessionTruth' /\ CompleteTruth'
  BY <1>1, <1>2, <1>3, TruthStays
<1>5. Projected'
  BY <1>1, <1>2, <1>3, ProjectedStays
<1>6. LiveEvents'
  BY <1>1, <1>2, <1>3, LiveEventsStay DEF Fresh
<1>7. OkMeansOpened'
  BY <1>1, <1>3 DEF OkMeansOpened
<1>8. ASSUME NEW b \in Agents, Active(b)', Anchored(b)' PROVE Keeps(b)'
  <2>1. Active(b) /\ Anchored(b)
    BY <1>3, <1>8 DEF Active, Anchored, Collects, Watches
  <2>2. Keeps(b)
    BY <1>1, <2>1 DEF AnchoredFacts
  <2> QED
    BY <1>1, <1>2, <1>3, <2>2, KeepsStay DEF Fresh
<1>9. AnchoredFacts'
  BY <1>8 DEF AnchoredFacts
<1> QED
  BY <1>4, <1>5, <1>6, <1>7, <1>9 DEF PictureInv

\* The API drops, expires or marks: it says less than before.
LEMMA PictureRests ==
    ASSUME StreamInv, SyncAssumption, PictureInv, Rests
    PROVE  PictureInv'
<1>1. /\ BaseInv /\ TrafficFacts /\ SessionTruth /\ CompleteTruth /\ Projected /\ LiveEvents
      /\ OkMeansOpened /\ AnchoredFacts /\ LogInv
  BY DEF StreamInv, PictureInv, BaseInv
<1>2. /\ UNCHANGED <<log, net, issued, agentSide, active_agent, last_sequence, shownRows>>
      /\ inventory_state' \in [Agents -> InventoryStates]
      /\ \A a \in Agents : \/ inventory_state'[a] = inventory_state[a]
                           \/ inventory_state'[a] = "reconcile_required"
      /\ \A s \in Snapshots :
            \/ status'[s] = status[s]
            \/ status[s] # "absent" /\ status'[s] \in {"discarded", "pruned"}
  BY <1>1, RestsEffect
<1>3. /\ UNCHANGED <<net, session, request, sequence, answer>>
      /\ UNCHANGED <<active_agent, last_sequence, lifecycle, resource_version, log>>
  BY <1>2 DEF shownRows, agentSide
<1>4. Past
  BY <1>1, <1>3, PastSame
<1>5. \A b \in Agents : Fresh(b)' => Fresh(b)
  BY <1>2 DEF Fresh
<1>6. SessionTruth' /\ CompleteTruth'
  <2>1. \A s \in Snapshots : status'[s] = "pending" => status[s] = "pending"
    BY <1>2
  <2> QED
    BY <1>1, <1>3, <1>4, <2>1, TruthStays
<1>7. Projected'
  BY <1>1, <1>3, <1>4, ProjectedStays
<1>8. LiveEvents'
  BY <1>1, <1>3, <1>4, <1>5, LiveEventsStay
<1>9. \A b \in Agents : Collects(b) => session[b].snap \in Snapshots
  BY <1>1, SessionFields, CollectingFields DEF BaseInv
<1>10. OkMeansOpened'
  BY <1>1, <1>2, <1>3, <1>9 DEF OkMeansOpened, Collects
<1>11. ASSUME NEW b \in Agents, Active(b)', Anchored(b)' PROVE Keeps(b)'
  <2>1. Active(b)
    BY <1>3, <1>11 DEF Active
  <2>2. Anchored(b)
    BY <1>2, <1>3, <1>9, <1>11 DEF Anchored, Collects, Watches
  <2>3. Keeps(b)
    BY <1>1, <2>1, <2>2 DEF AnchoredFacts
  <2>4. Collects(b) =>
              \/ status'[session[b].snap] = status[session[b].snap]
              \/ status'[session[b].snap] \in {"discarded", "pruned"}
    BY <1>2, <1>9
  <2> QED
    BY <1>1, <1>3, <1>4, <1>5, <2>3, <2>4, KeepsStay
<1>12. AnchoredFacts'
  BY <1>11 DEF AnchoredFacts
<1> QED
  BY <1>6, <1>7, <1>8, <1>10, <1>12 DEF PictureInv

\* A new agent takes over: it said nothing, and the old one lost its voice.
LEMMA PictureTakenOver ==
    ASSUME StreamInv, SyncAssumption, PictureInv, NEW a \in Agents, Takeover(a)
    PROVE  PictureInv'
<1>1. /\ BaseInv /\ TrafficFacts /\ SessionTruth /\ CompleteTruth /\ Projected /\ LiveEvents
      /\ OkMeansOpened /\ AnchoredFacts /\ LogInv
  BY DEF StreamInv, PictureInv, BaseInv
<1>2. /\ inventory_state[a] = "unenrolled" /\ active_agent' = a
      /\ UNCHANGED <<net, session, request, sequence, answer, log>>
      /\ UNCHANGED <<last_sequence, status, lifecycle, resource_version>>
  BY DEF Takeover, Enroll, Other, snapshotVars, projection, shownRows, agentSide
<1>3. Past
  BY <1>1, <1>2, PastSame
<1>4. SessionTruth' /\ CompleteTruth'
  BY <1>1, <1>2, <1>3, TruthStays
<1>5. Projected'
  BY <1>1, <1>2, <1>3, ProjectedStays
<1>6. LiveEvents'
  <2>1. ASSUME NEW m \in net, m.agent = a PROVE FALSE
    BY <1>1, <1>2, <2>1, BaseNet
  <2> QED
    BY <1>2, <2>1 DEF LiveEvents, Active
<1>7. OkMeansOpened'
  BY <1>1, <1>2 DEF OkMeansOpened
<1>8. AnchoredFacts'
  <2>1. Shape(a)
    BY <1>1 DEF BaseInv, SessionFacts
  <2>2. session[a] = Idle
    BY <1>2, <2>1 DEF Shape
  <2>3. session[a].phase = "idle"
    BY <2>2 DEF Idle
  <2>4. ASSUME NEW b \in Agents, Active(b)', Anchored(b)' PROVE FALSE
    BY <1>2, <2>3, <2>4 DEF Active, Anchored, Collects, Watches
  <2> QED
    BY <2>4 DEF AnchoredFacts
<1> QED
  BY <1>4, <1>5, <1>6, <1>7, <1>8 DEF PictureInv

\* No step of the pipeline makes the picture false.
LEMMA PictureNext ==
    SyncAssumption /\ StreamInv /\ PictureInv /\ [SyncNext]_syncVars => PictureInv'
<1> SUFFICES ASSUME SyncAssumption, StreamInv, PictureInv, [SyncNext]_syncVars
             PROVE  PictureInv'
  OBVIOUS
<1>1. AgentFacts
  BY DEF StreamInv, BaseInv, BeginInv
<1>2. CASE \E u \in Uids, deleted \in BOOLEAN : ClusterChange(u, deleted)
  BY <1>2, PictureChanges
<1>3. ASSUME NEW a \in Agents,
             \/ Takeover(a)
             \/ StartCycle(a) \/ ListKind(a) \/ PostPage(a) \/ PostComplete(a)
             \/ \E k \in Range(Kinds) : ReceiveChange(a, k)
             \/ PostEvents(a) \/ Proceeds(a) \/ Stops(a) \/ LoseAnswer(a)
      PROVE  PictureInv'
  <2>1. CASE Takeover(a)
    BY <2>1, PictureTakenOver
  <2>2. CASE StartCycle(a)
    BY <2>2, PictureStart
  <2>3. CASE ListKind(a)
    BY <2>3, PictureList
  <2>4. CASE PostPage(a)
    BY <2>4, PicturePage
  <2>5. CASE PostComplete(a)
    BY <2>5, PictureComplete
  <2>6. CASE \E k \in Range(Kinds) : ReceiveChange(a, k)
    BY <2>6, PictureReceive
  <2>7. CASE PostEvents(a)
    BY <2>7, PictureEvents
  <2>8. CASE Proceeds(a)
    BY <2>8, PictureTurns, PictureGoesOn
  <2>9. CASE Stops(a)
    BY <2>9, PictureStops
  <2>10. CASE LoseAnswer(a)
    BY <2>10, PictureLoses
  <2> QED
    BY <1>3, <2>1, <2>2, <2>3, <2>4, <2>5, <2>6, <2>7, <2>8, <2>9, <2>10
<1>4. CASE \E m \in net : Delivers(m)
  BY <1>4, PictureHandled
<1>5. CASE Rests
  BY <1>5, PictureRests
<1> QED
  BY <1>1, <1>2, <1>3, <1>4, <1>5, StepKinds

\* Before the first change an empty projection is true.
LEMMA PictureInit == SyncAssumption /\ SyncInit => PictureInv
<1> SUFFICES ASSUME SyncAssumption, SyncInit PROVE PictureInv
  OBVIOUS
<1>1. /\ IngestInit /\ log = <<>> /\ net = {} /\ session = [a \in Agents |-> Idle]
      /\ answer = [a \in Agents |-> "none"]
  BY DEF SyncInit
<1>2. Now = 0
  BY <1>1 DEF Now
<1>3. \A a \in Agents : session[a].phase = "idle"
  BY <1>1 DEF Idle
<1>4. \A a \in Agents : ~Collects(a) /\ ~Watches(a)
  BY <1>3 DEF Collects, Watches
<1>5. SessionTruth
  BY <1>3, <1>4 DEF SessionTruth, TruthOf
<1>6. CompleteTruth /\ LiveEvents
  BY <1>1 DEF CompleteTruth, LiveEvents
<1>7. OkMeansOpened
  BY <1>1 DEF OkMeansOpened
<1>8. AnchoredFacts
  BY <1>4 DEF AnchoredFacts, Anchored
<1>9. Projected
  <2> DEFINE c == [k \in Range(Kinds) |-> 0]
  <2>1. c \in Cuts
    BY <1>2 DEF Cuts
  <2>2. \A u \in Uids : lifecycle[u] = "absent" /\ resource_version[u] = 0
    BY <1>1 DEF IngestInit
  <2>3. ASSUME NEW u \in Uids PROVE Pictured(u, c[KindOf[u]])
    <3>1. c[KindOf[u]] = 0
      BY DEF SyncAssumption
    <3>2. VersionAt(u, 0) = 0
      BY VersionBound
    <3> QED
      BY <2>2, <3>1, <3>2 DEF Pictured, ShowsVersion
  <2> QED
    BY <2>1, <2>3 DEF Projected, PicturedAt
<1> QED
  BY <1>5, <1>6, <1>7, <1>8, <1>9 DEF PictureInv

\* The picture of the cluster is an invariant of the pipeline.
LEMMA PictureInvariant == SyncSpec => [](StreamInv /\ PictureInv)
<1>1. SyncInit => PictureInv
  BY PictureInit, SyncAssumption
<1>2. StreamInv /\ PictureInv /\ [SyncNext]_syncVars => PictureInv'
  BY PictureNext, SyncAssumption
<1>3. SyncInit => StreamInv
  BY BaseInit, TrafficInit DEF StreamInv
<1>4. StreamInv /\ [SyncNext]_syncVars => StreamInv'
  BY StreamNext, SyncAssumption
<1> QED
  BY <1>1, <1>2, <1>3, <1>4, PTL DEF SyncSpec

----------------------------------------------------------------------------
(* The projection is always a consistent cut (ADR-0017): at every moment   *)
(* it shows each kind exactly as the cluster had it at one version, and    *)
(* calls a resource missing only when it is gone, whatever was retried,    *)
(* late, torn, lost or taken over (inventory_service.py over engine.go).   *)
THEOREM SyncTruePicture == SyncSpec => []TruePicture
<1>1. StreamInv /\ PictureInv => TruePicture
  <2> SUFFICES ASSUME StreamInv, PictureInv PROVE TruePicture
    OBVIOUS
  <2>1. SyncTypeOK
    BY StreamShape
  <2>2. LogInv /\ Projected
    BY DEF StreamInv, BaseInv, PictureInv
  <2> QED
    BY <2>1, <2>2, PicturedIsTrue DEF TruePicture
<1> QED
  BY <1>1, PictureInvariant, PTL

(* "Data loss is surfaced as staleness, never hidden": an active writer    *)
(* that watches, has nothing in flight and has seen every change is        *)
(* showing the cluster as it is.                                           *)
THEOREM NothingIsSilentlyLost == SyncSpec => []NothingSilentlyLost
<1>1. StreamInv /\ PictureInv => NothingSilentlyLost
  <2> SUFFICES ASSUME StreamInv, PictureInv, NEW a \in Agents, a = active_agent,
                      session[a].phase = "watch", request[a] = None,
                      session[a].queue = <<>>,
                      \A k \in Range(Kinds) : NextChange(a, k) = {}
               PROVE  \A u \in Uids : ShowsVersion(u, Now)
    BY DEF NothingSilentlyLost
  <2>1. LogInv /\ AnchoredFacts /\ SessionTruth
    BY DEF StreamInv, BaseInv, PictureInv
  <2>2. Keeps(a)
    BY <2>1 DEF AnchoredFacts, Active, Anchored, Watches
  <2>3. QueueFits(a)
    BY <2>2 DEF Keeps, Watches, CaughtUp, InFlight
  <2> PICK w : w = session[a].versions
    OBVIOUS
  <2>4. w \in Cuts
    BY <2>1 DEF SessionTruth, TruthOf
  <2>5. PICK c \in Cuts : PicturedAt(c) /\ Continues(<<>>, c, w)
    BY <2>3 DEF QueueFits
  <2>6. \A k \in Range(Kinds) : \A x \in (w[k] + 1)..Now : KindOf[log[x].uid] # k
    BY <2>1, <2>4, NoNextChange
  <2> QED
    BY <2>1, <2>4, <2>5, <2>6, CaughtUpShows
<1> QED
  BY <1>1, PictureInvariant, PTL

\* No step takes a resource back to an older version, or a missing one back
\* to life: not a straggler, nor the snapshot of another writer.
THEOREM ProjectionOnlyGoesForward == SyncSpec => ProjectionGoesForward
<1>1. StreamInv /\ PictureInv /\ [SyncNext]_syncVars => ForwardStep
  <2> SUFFICES ASSUME StreamInv, PictureInv, [SyncNext]_syncVars PROVE ForwardStep
    OBVIOUS
  <2>1. BaseInv /\ TrafficFacts /\ CompleteTruth /\ Projected /\ LiveEvents /\ AgentFacts
    BY DEF StreamInv, PictureInv, BaseInv, BeginInv
  <2>2. ASSUME UNCHANGED <<lifecycle, resource_version>> PROVE ForwardStep
    <3>1. resource_version \in [Uids -> Nat]
      BY <2>1, BaseTypes DEF ProjectionTypes
    <3> QED
      BY <2>2, <3>1 DEF ForwardStep
  <2>3. CASE \E m \in net : Delivers(m)
    BY <2>1, <2>2, <2>3, DeliversHandled, ProjectionHandled
  <2>4. CASE ~\E m \in net : Delivers(m)
    <3>1. ASSUME NEW a \in Agents,
             \/ Takeover(a)
             \/ StartCycle(a) \/ ListKind(a) \/ PostPage(a) \/ PostComplete(a)
             \/ \E k \in Range(Kinds) : ReceiveChange(a, k)
             \/ PostEvents(a) \/ Proceeds(a) \/ Stops(a) \/ LoseAnswer(a)
          PROVE  UNCHANGED shownRows
      BY <3>1 DEF Takeover, Enroll, StartCycle, ListKind, PostPage, PostComplete, ReceiveChange,
         PostEvents, Proceeds, Proceed, Stops, LoseAnswer, ingestVars, projection, shownRows
    <3>2. ASSUME NEW u \in Uids, NEW deleted \in BOOLEAN, ClusterChange(u, deleted)
          PROVE  UNCHANGED shownRows
      BY <3>2 DEF ClusterChange, ingestVars, projection, shownRows
    <3>3. Rests => UNCHANGED shownRows
      BY <2>1, RestsEffect
    <3>4. UNCHANGED shownRows
      BY <2>1, <2>4, <3>1, <3>2, <3>3, StepKinds
    <3> QED
      BY <2>2, <3>4 DEF shownRows
  <2> QED
    BY <2>3, <2>4
<1> QED
  BY <1>1, PictureInvariant, PTL DEF SyncSpec, ProjectionGoesForward
=============================================================================
