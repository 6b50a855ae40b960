SPECIFICATION FairSpec
CONSTANTS
    Callers = {a, b}
    HookLists <- SomeHookLists
    MaxCalls = 3
INVARIANTS
    TypeOK
    
    OutermostCounts
PROPERTIES
    ImplementsTransaction
    CallsReturn
CHECK_DEADLOCK FALSE
