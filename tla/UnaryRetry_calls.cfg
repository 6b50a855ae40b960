SPECIFICATION FairSpec
CONSTANTS
    put = put
    range = range
    Calls = {put, range}
    Method <- PutAndRange
    Max = 3
    MaxCalls = 1
    EndpointCounts = {1, 3}
    ServerCodes <- SomeServerCodes
INVARIANTS
    TypeOK
    DuplicateOnlyAfterContextError
    NoTransportMeansUnsent
    UnavailableReadUsedAllAttempts
    BackoffEachQuorum
PROPERTIES
    ImplementsWriteOnce
    DoneContextEndsCall
    CloseEndsCalls
CHECK_DEADLOCK FALSE
