SPECIFICATION Spec
CONSTANTS
    c1 = c1
    c2 = c2
    i1 = i1
    i2 = i2
    n1 = n1
    n2 = n2
    n3 = n3
    Ws = Ws
    Missing = Missing
    Corrupt = Corrupt
    Unborn = Unborn
    Gone = Gone
    Items = {i1, i2}
    Names = {n1, n2, n3}
    Clients = {c1, c2}
    CacheAware = {c1}
    BusyItems = {i1}
    BusyNames = {n1, n2}
    Ttl = 1
    FetchSpan = 1
    MaxTime = 5
    CalmTime = 4
SYMMETRY Symmetric
INVARIANTS
    OwnChangesNeedNoClear
    BoundedStaleness
CHECK_DEADLOCK FALSE
