SPECIFICATION Spec
CONSTANTS
    h1 = h1
    h2 = h2
    c1 = c1
    c2 = c2
    NoHash = NoHash
    Strategy = Strategy
    Hashes <- MCHashes
    Clients <- MCClients
    SliceSize <- MCSliceSize
    Capacity = 1
    Word = 64
    HighWater = 0
    LowWater = 0
    Faults = {"storage", "remove"}
    MaxRequests = 3
SYMMETRY Symmetry
CHECK_DEADLOCK FALSE
INVARIANTS
    TypeOK
    OneTaskPerHash
    FreshTarget
    OnlyWholeSlices
    RoundReachesGoal
PROPERTIES
    DriftOnlyFromStaleStore
