SPECIFICATION Spec
CONSTANTS
    Node           <- Both
    Funder         <- A
    InitialBalance <- EachHasOne
    HtlcIds        <- OneId
    Amounts        <- Ones
    Rates          <- OneRate
    MaxAccepted    = 2
    MayAdd         <- Both
    Removals       <- JustFail
    Persistent     <- JustA
    MayClose       <- NoOne
    CloseFees      <- OneFee
    MaxDisconnects = 0
    MaxCrashes     = 0
    MaxFeeUpdates  = 0
    MaxRestores    = 1
INVARIANTS
    NeverPunished
    ToxicIfBehind
CHECK_DEADLOCK FALSE
