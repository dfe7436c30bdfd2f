SPECIFICATION IngestSpec
CONSTANTS
    Agents = {a1, a2}
    Snapshots = {s1, s2}
    u1 = u1
    u2 = u2
    None = None
    PendingCap = 1
    HistoryLimit = 0
    MaxSequence = 4
    MaxDemands = 1
    Uids <- MCUids
    SequenceNumbers <- MCSequenceNumbers
    PageNos <- MCPageNos
    PageContents <- MCPageContents
    Totals <- MCTotals
    Batches <- MCBatches
SYMMETRY MCSymmetry
CONSTRAINT DemandBound
CHECK_DEADLOCK FALSE
INVARIANTS
    GenerationsAgree
    CountersAgree
    FeedAgrees
PROPERTIES
    ProjectionProtected
    NothingComesBack
