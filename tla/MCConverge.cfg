SPECIFICATION FairSync
CONSTANTS
    Agents = {a1}
    u1 = u1
    u2 = u2
    u3 = u3
    k1 = k1
    k2 = k2
    None = None
    PendingCap = 4
    HistoryLimit = 50
    PageMax = 1
    QueueCapacity = 1
    MaxVersion = 3
    MaxFaults = 2
    MaxSnapshots = 8
    Uids <- OneUid
    Snapshots <- MCSnapshots
    Kinds <- OneKind
    KindOf <- OneInOne
CHECK_DEADLOCK FALSE
PROPERTIES
    Converges
