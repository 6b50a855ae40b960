SPECIFICATION Spec
CONSTANTS
    c1 = c1
    c2 = c2
    Callers = {c1, c2}
    Tests <- SmallTests
    MaxAttempts = 2
    MaxByte = 2
    Keys <- ShortKeys
INVARIANTS
    TypeOK
    PrefixCovers
    RecordedIsExpected
    OrderlyUnlessOverlapped
    SequentialTestGetsItsScript
CHECK_DEADLOCK FALSE
