SPECIFICATION Spec
CONSTANTS
    e1 = e1
    e2 = e2
    Endpoints = {e1, e2}
    Versions <- OldAndCurrent
    MaxCloses = 2
INVARIANT
    AcceptedClusterIsCurrent
CHECK_DEADLOCK FALSE
