SPECIFICATION FairSpec
CONSTANTS
    Peer           <- TwoPeers
    Htlc           <- ThreeHtlcs
    PeerOf         <- PeersOfThree
    PartOf         <- PartsOfThree
    KindsOf        <- ThirdForInvoice
    Down           <- TwoDowns
    Kinds          <- AllKinds
    ClosableKinds  <- AllButHeld
    Total          = 2
    PartTotal      = 1
    CrashPoints    = {"fulfill", "fail", "forward"}
    MaxDisconnects = 1
    MaxCrashes     = 1
    MaxCloses      = 1
INVARIANTS
    Covered
    ForwardedOnce
    SwitchNeverRaises
PROPERTIES
    FailedForGood
    Resolved
CHECK_DEADLOCK FALSE
