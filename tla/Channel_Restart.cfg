SPECIFICATION Spec
CONSTANTS
    Node           <- Both
    Funder         <- A
    InitialBalance <- EachHasOne
    HtlcIds        <- OneId
    Amounts        <- OneOrTwo
    Rates          <- OneRate
    MaxAccepted    = 2
    MayAdd         <- Both
    Removals       <- OnlyBSettles
    Persistent     <- JustA
    MayClose       <- NoOne
    CloseFees      <- OneFee
    MaxDisconnects = 2
    MaxCrashes     = 1
    MaxFeeUpdates  = 0
    MaxRestores    = 0
INVARIANTS
    TypeOK
    NeverBlamed
    UniqueSignedCtx
    CtxsCoincide
    NoOverdraft
    FileIsNotBehind
    NeverForceClosed
PROPERTIES
    LedgerSpec
CHECK_DEADLOCK FALSE
