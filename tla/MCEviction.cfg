SPECIFICATION Spec
CONSTANTS
    h1 = h1
    h2 = h2
    h3 = h3
    Hashes <- MCHashes
    SliceSize <- MCSliceSize
    Disk = 10
    Others = {0}
    Configs <- MCConfigs
    Word = 64
    MaxStarts = 2
CHECK_DEADLOCK FALSE
INVARIANTS
    TypeOK
    OffersWhatIsThere
PROPERTIES
    StopsAtTarget
