------------------------------- MODULE MCSync -------------------------------
(* Small instances of InventorySync: three resources of two kinds, two of   *)
(* one kind, or a single one.                                               *)
EXTENDS InventorySync

CONSTANTS u1, u2, u3, k1, k2, MaxSnapshots

MCSnapshots == 1..MaxSnapshots

ThreeUids == {u1, u2, u3}
TwoKinds == <<k1, k2>>
TwoAndOne == (u1 :> k1) @@ (u2 :> k1) @@ (u3 :> k2)

TwoUids == {u1, u2}
OneUid == {u1}
OneKind == <<k1>>
BothInOne == (u1 :> k1) @@ (u2 :> k1)
OneInOne == u1 :> k1

\* Agents are interchangeable.
MCSymmetry == Permutations(Agents)

\* All but the change feed, which no action and no property here reads: states
\* that differ in it alone are explored once.
WithoutFeed == <<writerVars, snapshotVars, agentVars, shownRows, demands, log,
                 net, issued, faults, agentSide>>
=============================================================================
