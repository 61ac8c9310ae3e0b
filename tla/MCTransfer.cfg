CONSTANTS
    Chunks = 3
    ReadBuffers = 1
SPECIFICATION FairSpec
INVARIANT TypeOK
PROPERTIES
    KeepsDownload
    Succeeds
    HandlerEnds
    ReaderSettles
CHECK_DEADLOCK FALSE
