SPECIFICATION FairSpec
CONSTANTS
    Max = 3
    MaxPages = 2
    MaxErrors = 3
    ServerCodes <- AllServerCodes
INVARIANTS
    TypeOK
    OneScan
    CompleteAtEOF
PROPERTIES
    ImplementsScan
    DoneContextEndsRecv
    IterationEnds
CHECK_DEADLOCK FALSE
