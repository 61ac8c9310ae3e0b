SPECIFICATION FairSpec
CONSTANTS
    h1 = h1
    h2 = h2
    c1 = c1
    c2 = c2
    NoHash = NoHash
    Strategy = Strategy
    Hashes <- MCHashes
    Clients <- MCClients
    SliceSize <- MCSliceSize
    Capacity = 1
    Word = 64
    HighWater = 2
    LowWater = 1
    Faults = {"chain", "mkdir", "storage", "short", "remove"}
    MaxRequests = 2
CHECK_DEADLOCK FALSE
INVARIANTS
    VouchedFileIsThere
PROPERTIES
    RequestReturns
    DownloadSettles
    RemovalSettles
    DiesOnlyFromDrift
    DrawEnds
