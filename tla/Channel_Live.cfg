SPECIFICATION FairSpec
CONSTANTS
    Node           <- Both
    Funder         <- A
    InitialBalance <- AHasOne
    HtlcIds        <- OneId
    Amounts        <- Ones
    Rates          <- TwoRates
    MaxAccepted    = 2
    MayAdd         <- JustA
    Removals       <- SettleOrFail
    Persistent     <- NoOne
    MayClose       <- JustA
    CloseFees      <- SomeFees
    MaxDisconnects = 1
    MaxCrashes     = 0
    MaxFeeUpdates  = 2
    MaxRestores    = 0
INVARIANTS
    NeverBlamed
    CtxsCoincide
    FeerateIsNewest
    ClosingTxIsAgreed
PROPERTIES
    EventuallyAdded
    EventuallyRemoved
    CloseEnds
CHECK_DEADLOCK FALSE
