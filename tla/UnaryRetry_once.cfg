SPECIFICATION Spec
CONSTANTS
    put = put
    range = range
    Calls = {put, range}
    Method <- PutAndRange
    Max = 2
    MaxCalls = 1
    EndpointCounts = {3}
    ServerCodes <- SomeServerCodes
INVARIANT
    WriteAtMostOnce
CHECK_DEADLOCK FALSE
