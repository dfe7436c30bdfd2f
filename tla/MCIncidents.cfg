SPECIFICATION LifecycleSpec
CONSTANTS
    Bindings = {b1}
    Workers = {w1, w2}
    Actors = {a1}
    IncidentIds = {i1, i2}
    Readings <- MixedReadings
    MaxClock = 4
    MaxRevision = 2
    MaxVersion = 2
    None = None
SYMMETRY Symmetry
CHECK_DEADLOCK FALSE
INVARIANTS
    IncidentsAddUp
PROPERTIES
    IncidentsFollowReadings
