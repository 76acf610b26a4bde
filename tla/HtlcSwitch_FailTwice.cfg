SPECIFICATION Spec
CONSTANTS
    Peer           <- TwoPeers
    Htlc           <- TwoHtlcs
    PeerOf         <- PeersOfTwo
    PartOf         <- PartsOfTwo
    KindsOf        <- ThirdForInvoice
    Down           <- TwoDowns
    Kinds          <- JustInvoice
    ClosableKinds  = {}
    Total          = 2
    PartTotal      = 1
    CrashPoints    = {"collect", "fulfill", "fail"}
    MaxDisconnects = 1
    MaxCrashes     = 1
    MaxCloses      = 1
INVARIANT Covered
CHECK_DEADLOCK FALSE
