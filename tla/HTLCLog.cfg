SPECIFICATION Spec
CONSTANTS
    HtlcIds    <- OneId
    Amounts    <- OneAmount
    Rates      <- OneRate
    Initiators <- JustLocal
    MaxCtn     = 3
    MaxFees    = 2
    MaxQueued  = 1
INVARIANTS
    IInv
    IdsAreContiguous
    NeverSettledAndFailed
    CacheComplete
    CachedBalanceIsExact
    ReportedExactlyOnce
    ReplayEndsInOneSignature
PROPERTIES
    SignedHtlcsAreFinal
    SignedTermsAreFinal
    IrrevocableIsForever
