SPECIFICATION FairSpec
CONSTANTS
    e1 = e1
    e2 = e2
    Endpoints = {e1, e2}
    Versions <- SomeVersions
    MaxCloses = 2
INVARIANTS
    TypeOK
    NothingLeftBehind
    AcceptedWhenAllCurrent
    ErrorIsTheCause
PROPERTY
    NewReturns
CHECK_DEADLOCK FALSE
