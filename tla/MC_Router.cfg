CONSTANTS
    k1 = k1
    k2 = k2
    k3 = k3
    ida = ida
    idb = idb
    ua = ua
    ub = ub
    w1 = w1
    w2 = w2
    p1 = p1
    None = None
    Conns = {k1, k2, k3}
    Identities = {ida, idb}
    Whole = {w1, w2}
    Parts = {p1}
    UriOf <- MCUri
    TypeOf <- MCType
    Scenarios <- MCScenarios
SPECIFICATION Spec
INVARIANT TypeOK
INVARIANT WholeMessages
INVARIANT MapsAgree
SYMMETRY Symmetric
CHECK_DEADLOCK FALSE
