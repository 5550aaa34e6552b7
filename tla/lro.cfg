SPECIFICATION LroFairSpec
CONSTANTS
    c1 = c1
    n1 = n1
    n2 = n2
    NoName = NoName
    User = User
    System = System
    OperationId = OperationId
    Creators = {c1}
    Names = {n1, n2}
    Kinds = {"warehouse", "snapshot", "restore_point", "lakehouse", "in_place"}
    Timeout = 3
    MaxPollWait = 2
    ResultTries = 3
    NameTries = 3
    DetailTries = 3
    MaxItems = 3
INVARIANTS
    OneItemPerCall
    ReturnsOwnItem
    ReturnsOnlyAfterSuccess
    SnapshotHasParent
PROPERTIES
    PathCNotOlder
    EveryCreateEnds
CHECK_DEADLOCK FALSE
