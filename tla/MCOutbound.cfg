SPECIFICATION OutboundSpec
CONSTANTS
    Events = {e1}
    Keys = {k1, k2}
    Senders = {w1, w2}
    BatchSize = 2
    MaxAttempts = 3
    MaxStops = 2
    NoOutcome = NoOutcome
    Sessions = {s1}
    Callers = {c1}
    IdemKeys = {}
    MaxCommit = 2
    MaxPlans = 1
    NoCall = NoCall
    Pushers = {p1}
    MAX_ATTEMPTS = 2
    Idle = Idle
CHECK_DEADLOCK FALSE
INVARIANT
    DeliveriesAddUp
PROPERTIES
    TerminalIsFinal
    UndisturbedDeliveriesEnd
    RequestSettles
