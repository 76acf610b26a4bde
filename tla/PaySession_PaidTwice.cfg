SPECIFICATION Spec
CONSTANTS
    Modes          <- JustGossip
    MaxHtlcs       = 4
    AmountToPay    = 2
    MaxParts       = 2
    RetriesKnown   = TRUE
    RestartsUnnoted = FALSE
    MaxCalls       = 2
    MaxRestarts    = 1
    MaxReconnects  = 0
    MaxRepeats     = 0
INVARIANTS
    PaidOnce
CHECK_DEADLOCK FALSE
