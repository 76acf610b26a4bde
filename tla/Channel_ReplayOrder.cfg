SPECIFICATION Spec
CONSTANTS
    Node           <- Both
    Funder         <- A
    InitialBalance <- AHasOne
    HtlcIds        <- TwoIds
    Amounts        <- Ones
    Rates          <- OneRate
    MaxAccepted    = 2
    MayAdd         <- JustA
    Removals       <- JustFail
    Persistent     <- NoOne
    MayClose       <- NoOne
    CloseFees      <- OneFee
    MaxDisconnects = 1
    MaxCrashes     = 0
    MaxFeeUpdates  = 0
    MaxRestores    = 0
INVARIANTS
    NeverBlamed
CHECK_DEADLOCK FALSE
