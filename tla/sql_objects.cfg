SPECIFICATION Spec
CONSTANTS
    c1 = c1
    c2 = c2
    s1 = s1
    s2 = s2
    a = a
    b = b
    t1 = t1
    Itself = Itself
    Callers = {c1, c2}
    Schemas = {s1, s2}
    Names = {a, b, t1}
    Plans <- MCPlans
    Catalogs <- MCCatalogs
INVARIANTS
    AllOrNothing
PROPERTIES
    NotFoundHasCause
    EndpointKeepsTables
SYMMETRY Symmetric
CHECK_DEADLOCK FALSE
