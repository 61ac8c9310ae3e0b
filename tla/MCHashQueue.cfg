SPECIFICATION Spec
CONSTANTS
    h1 = h1
    h2 = h2
    h3 = h3
    h4 = h4
    p1 = p1
    p2 = p2
    p3 = p3
    NoHash = NoHash
    Hashes <- MCHashes
    Senders <- MCSenders
    Capacity = 1
INVARIANTS
    TypeOK
    MarkedIsUnderWay
    OnePlace
PROPERTIES
    InsertReturns
