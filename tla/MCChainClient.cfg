SPECIFICATION FairSpec
CONSTANTS
    c1 = c1
    c2 = c2
    c3 = c3
    Callers <- MCCallers
    Commander = c1
    Retries = 3
INVARIANTS
    TypeOK
    LostOnlyWhenRefused
    SuccessLanded
    LandsOnce
PROPERTIES
    CommandEnds
