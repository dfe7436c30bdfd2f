SPECIFICATION FairHook
CONSTANTS
    Events = {e1}
    Keys = {k1}
    Senders = {w1}
    BatchSize = 1
    MaxAttempts = 2
    MaxStops = 1
    NoOutcome = NoOutcome
PROPERTIES
    EveryDeliveryEnds
