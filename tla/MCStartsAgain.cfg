CONSTANTS
    h1 = h1
    h2 = h2
    NoHash = NoHash
    Hashes <- MCHashes
    MaxStarts = 3
SPECIFICATION Spec
CHECK_DEADLOCK FALSE
INVARIANT StartsAgain
