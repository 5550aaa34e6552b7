SPECIFICATION Spec
CONSTANTS
    c1 = c1
    c2 = c2
    w1 = w1
    w2 = w2
    n1 = n1
    n2 = n2
    NoArg = NoArg
    Missing = Missing
    Corrupt = Corrupt
    Calls = {c1, c2}
    Guids = {w1, w2}
    Names = {n1, n2}
    Requests <- MCRequests
    EnvLists <- MCEnvLists
    ConfigLists <- MCConfigLists
    Ttl = 1
    FetchSpan = 1
    MaxTime = 4
INVARIANTS
    ReadOnlyChangesNothing
    RemovalsNeedBothFlags
    OnlyListedWorkspaces
    NoHastyDenial
CHECK_DEADLOCK FALSE
