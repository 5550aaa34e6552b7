SPECIFICATION CacheFairSpec
CONSTANTS
    p1 = p1
    p2 = p2
    n1 = n1
    w1 = w1
    k1 = k1
    g1 = g1
    NoProc = NoProc
    Procs = {p1, p2}
    Ops <- MCOps
    Ttl = 1
    Missing = Missing
    Corrupt = Corrupt
PROPERTIES
    ImplementsAtomicCache
    CallsEnd
CHECK_DEADLOCK FALSE
