SPECIFICATION HealthSpec
CONSTANTS
    Editors = {o1, o2}
    Readers = {}
    Reads = {}
    Ages = {10}
    MaxRevision = 3
    MaxUid = 1
    MaxSource = 0
    MaxEntries = 0
    QUERY_FAILED = QUERY_FAILED
    NOT_CONFIGURED = NOT_CONFIGURED
    Missing = Missing
CHECK_DEADLOCK FALSE
PROPERTIES
    EditsAreNotOverwritten
