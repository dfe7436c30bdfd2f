SPECIFICATION LoopsSpec
CONSTANTS
    None = None
    MaxRenewals = 3
    MaxFaults = 3
    MaxKeptBundles = 1
    LatePrepares = FALSE
    Replicas = {r1, r2}
    BindingCount = 3
    CycleBatch = 2
    MaxAborts = 1
    Tokens = {t1, t2}
    NoToken = NoToken
    Requests = {q1}
    Workers = {w1, w2}
    Limit = 2
    MaxTries = 2
    MaxMishaps = 2
    NoId = NoId
    RoutePolicies = {p1}
    Targets = {t1, t2}
    Events = {v1}
    EventKinds = {a, b}
    Managers = {m1, m2}
    Planners = {q1, q2}
    MaxTime = 5
    NoRow = NoRow
CHECK_DEADLOCK FALSE
INVARIANTS
    AlwaysRecoverable
    OneSilencePerMishap
    NotRetroactive
    PlannedIsComplete
PROPERTIES
    KeysMoveForward
    ReleasesOnlyItsOwn
    EndsTrusted
    EveryReachedBindingIsEvaluated
    EverySilenceSettles
