SPECIFICATION Spec
CONSTANTS
    c1 = c1
    c2 = c2
    c3 = c3
    g1 = g1
    g2 = g2
    p1 = p1
    p2 = p2
    Keep = Keep
    Callers = {c1, c2, c3}
    AuditRequests <- MCAuditRequests
    PoolRequests <- MCPoolRequests
    Audits <- MCAudits
    PoolConfigs <- MCPoolConfigs
INVARIANTS
    NothingUnasked
    PoolsStayValid
PROPERTIES
    FreshWriteKeepsTheRest
SYMMETRY Symmetric
CHECK_DEADLOCK FALSE
