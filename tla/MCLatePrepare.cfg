SPECIFICATION RenewalSpec
CONSTANTS
    None = None
    MaxRenewals = 3
    MaxFaults = 3
    MaxKeptBundles = 1
    LatePrepares = TRUE
CHECK_DEADLOCK FALSE
INVARIANTS
    NeverStranded
