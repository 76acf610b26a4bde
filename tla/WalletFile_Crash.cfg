SPECIFICATION Spec
SYMMETRY Values
CONSTANTS
    Slot        <- OneSlot
    Key         <- OneKey
    Val         = {v1, v2}
    Obj         <- TwoObjs
    Faults      <- TornOrReplace
    MaxPending  = 2
    MaxPatches  = 3
    MaxFaults   = 1
    MaxCrashes  = 1
INVARIANTS
    FileLoads
PROPERTIES
    SavedStatesSpec
CHECK_DEADLOCK FALSE
