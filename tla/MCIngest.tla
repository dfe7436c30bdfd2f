------------------------------ MODULE MCIngest ------------------------------
(* A small instance of IngestAnyStream: two agents (a takeover), two        *)
(* snapshot uids (a superseded or torn attempt and an applied one), pages   *)
(* that conflict or repeat a uid, batches that add, delete and bring back.  *)
EXTENDS IngestAnyStream, TLC

CONSTANTS u1, u2, MaxSequence, MaxDemands

Row(u, v) == [uid |-> u, rv |-> v]
Upsert(u, v) == [uid |-> u, rv |-> v, deleted |-> FALSE]
Delete(u) == [uid |-> u, rv |-> 1, deleted |-> TRUE]

MCUids == {u1, u2}
MCSequenceNumbers == 1..MaxSequence
MCPageNos == 1..1
MCPageContents == {<<Row(u1, 1)>>, <<Row(u1, 1), Row(u1, 2)>>}
MCTotals == {1}
MCBatches == {<<Upsert(u2, 1), Delete(u1)>>, <<Delete(u1), Upsert(u1, 2)>>}

\* Agents and snapshot uids are interchangeable.
MCSymmetry == Permutations(Agents) \cup Permutations(Snapshots)

\* Refusals of several requests may be waiting at once, up to MaxDemands.
DemandBound == Cardinality(demands) <= MaxDemands
=============================================================================
