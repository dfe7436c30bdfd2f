SPECIFICATION ArrivalSpec
CONSTANTS
    s1 = s1
    c1 = c1
    Documents <- Manifests
    KnownProfiles = {"http"}
    Workloads = {"w1", "w2"}
    MaxPlanItems = 50
    MaxOutside = 3
    MaxRounds = 3
    Absent = Absent
    Sessions = {s1, s2}
    Callers = {c1, c2}
    IdemKeys = {k1, k2}
    MaxCommit = 2
    MaxPlans = 2
    NoCall = NoCall
    Pushers = {w1, w2}
    MAX_ATTEMPTS = 2
    Idle = Idle
    Repos = {r1}
    Sweepers = {w1, w2}
    Operators = {o1}
    MaxEvents = 2
    MaxFaults = 1
    MAX_DELIVERY_ATTEMPTS = 2
    Nobody = Nobody
    Environments = {e1, e2}
    Repositories <- SomeSettings
    Editors = {o1}
    Readers = {r1}
    Reads <- UpOrDown
    Ages = {10}
    MaxRevision = 2
    MaxUid = 2
    MaxSource = 1
    MaxEntries = 1
    QUERY_FAILED = QUERY_FAILED
    NOT_CONFIGURED = NOT_CONFIGURED
    Missing = Missing
CHECK_DEADLOCK FALSE
INVARIANTS
    ReceiptIsTheImport
    RequestRowsAreTrue
    ReadyIsEarned
    DoneMeansDone
    NoStaleVerdictAddressable
PROPERTIES
    ImportsSettleSafely
    ImportsFollowApproval
    PassIsNeverTakenBack
