SPECIFICATION SyncSpec
CONSTANTS
    Agents = {a1, a2}
    u1 = u1
    u2 = u2
    u3 = u3
    k1 = k1
    k2 = k2
    None = None
    PendingCap = 1
    HistoryLimit = 0
    PageMax = 2
    QueueCapacity = 2
    MaxVersion = 2
    MaxFaults = 1
    MaxSnapshots = 3
    Uids <- TwoUids
    Snapshots <- MCSnapshots
    Kinds <- OneKind
    KindOf <- BothInOne
SYMMETRY MCSymmetry
VIEW WithoutFeed
CHECK_DEADLOCK FALSE
INVARIANTS
    NoReusedUid
PROPERTIES
    ProjectionGoesForward
