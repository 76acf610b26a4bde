SPECIFICATION Spec
CONSTANTS
    Node           <- Both
    Funder         <- A
    InitialBalance <- AHasOne
    HtlcIds        <- OneId
    Amounts        <- Ones
    Rates          <- OneRate
    MaxAccepted    = 2
    MayAdd         <- JustA
    Removals       <- JustSettle
    Persistent     <- Both
    MayClose       <- NoOne
    CloseFees      <- OneFee
    MaxDisconnects = 0
    MaxCrashes     = 1
    MaxFeeUpdates  = 0
    MaxRestores    = 0
INVARIANTS
    NeverBlamed
CHECK_DEADLOCK FALSE
