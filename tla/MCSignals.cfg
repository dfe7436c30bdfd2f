SPECIFICATION SignalsSpec
CONSTANTS
    f1 = f1
    f2 = f2
    e1 = e1
    e2 = e2
    s1 = s1
    p1 = p1
    i1 = i1
    Fingerprints = {f1, f2}
    LabelsOf <- Labels
    Catalogs <- OneOrTwoPlaces
    OwnProject = own
    MaxMoment = 3
    MaxSent = 3
    NoValue = NoValue
    Budgets = {0, 8}
    Scale = 10
    Indicators = {"availability", "latency"}
    Thresholds = {1}
    Spans = {1}
    SloReplicas = {w1, w2}
    Instants = {1, 2}
    Ratios <- Series
    BurnRatios <- BurnSeries
    MaxPeriod = 1
    MaxDefinition = 2
    MaxJudgements = 2
    Nothing = Nothing
    Editors = {}
    Readers = {v1}
    Reads <- SomeReads
    Ages = {10, 600}
    MaxRevision = 1
    MaxUid = 1
    MaxSource = 0
    MaxEntries = 0
    QUERY_FAILED = QUERY_FAILED
    NOT_CONFIGURED = NOT_CONFIGURED
    Missing = Missing
    Policies = {p1}
    PolicyPlaces <- TwoPlaces
    Promises <- Promised
    Stories <- FourStories
    NewTypes = {3}
    Handlers = {h1, h2}
    STALE_AFTER = 1
    MaxHour = 3
    MaxIncidents = 2
    Unbound = Unbound
    Nowhere = Nowhere
    Ingesters = {i1, i2}
    WorkloadKinds = {"Deployment", "DaemonSet"}
    REPLICAS = 2
    Specs <- TwoSpecs
    MaxGeneration = 2
    MaxMinute = 2
    STALL_AFTER = 0
    SETTLE = 0
    WINDOW = 1
    CLOSED_AFTER = 1
    NoTime = NoTime
CHECK_DEADLOCK FALSE
INVARIANTS
    ScreenShowsTheNewestFact
    OncePerFact
    JudgementsAreSound
    VerdictsNeedEvidence
    ArrivalOrderIsForgotten
    RevisionsClaimFacts
PROPERTIES
    HistoryStands
