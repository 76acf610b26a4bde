SPECIFICATION FairSpec
CONSTANTS
    Node           <- Both
    Funder         <- A
    InitialBalance <- AHasOne
    HtlcIds        <- OneId
    Amounts        <- Ones
    Rates          <- OneRate
    MaxAccepted    = 2
    MayAdd         <- JustA
    Removals       <- JustSettle
    Persistent     <- NoOne
    MayClose       <- JustA
    CloseFees      <- OneFee
    MaxDisconnects = 0
    MaxCrashes     = 0
    MaxFeeUpdates  = 0
    MaxRestores    = 0
PROPERTY ShutdownIsSent
CHECK_DEADLOCK FALSE
