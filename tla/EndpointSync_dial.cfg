SPECIFICATION Spec
CONSTANTS
    n1 = n1
    n2 = n2
    u1 = u1
    u2 = u2
    auto = auto
    None = None
    Nodes = {n1, n2}
    Users = {u1}
    AutoSync = auto
    Memberships <- NamelessMemberships
    UserLists <- ListsWithSeed
    MaxChanges = 1
INVARIANT
    DialHasEndpoint
CHECK_DEADLOCK FALSE
