SPECIFICATION FairSpec
CONSTANTS
    c1 = c1
    c2 = c2
    NoCaller = NoCaller
    Callers <- MCCallers
    Methods <- MCMethods
    Scopes <- MCScopes
    MaxAttempts = 2
    Max429 = 2
    Deadline = 1
    MaxWait = 2
    Rps = 2
    TokenLife = 2
    RefreshBuffer = 1
INVARIANTS
    NoDuplicateEffect
    SendsBounded
    AtMostOneLateSend
    NoRedundantFetch
PROPERTIES
    EveryRequestEnds
