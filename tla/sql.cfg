SPECIFICATION RunnerFairSpec
CONSTANTS
    RetryDeadline = 5
    ConnectDelays <- MCConnectDelays
    ExecuteDelays <- MCExecuteDelays
    MaxStatements = 3
INVARIANTS
    NoDoubleApply
    NoConnectionLeak
    ConnectFailureRenderable
    PrefixOrWhole
PROPERTIES
    ImplementsSqlCall
    CallEnds
CHECK_DEADLOCK FALSE
