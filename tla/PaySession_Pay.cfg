SPECIFICATION FairSpec
CONSTANTS
    Modes          <- AllModes
    MaxHtlcs       = 4
    AmountToPay    = 3
    MaxParts       = 2
    RetriesKnown   = FALSE
    RestartsUnnoted = FALSE
    MaxCalls       = 2
    MaxRestarts    = 1
    MaxReconnects  = 1
    MaxRepeats     = 1
INVARIANTS
    PaidOnce
    CountersAreExact
    SessionIsKept
PROPERTIES
    PaidForGood
    TakenIsPaid
    InflightEnds
CHECK_DEADLOCK FALSE
