CONSTANTS
    ta = ta
    tb = tb
    k1 = k1
    k2 = k2
    u1 = u1
    s1 = s1
    s2 = s2
    p1 = p1
    p2 = p2
    Conns = {k1, k2}
    Subscribers = {s1, s2}
    Publishers = {p1, p2}
    Modulus = 6
    UriOf <- MCUri
    Topics <- MCTopics
    Messages <- MCMessages
    Scenarios <- MCScenarios
SPECIFICATION Spec
SYMMETRY Symmetric
INVARIANT TypeOK
INVARIANT MatchSound
INVARIANT PeersKnown
CHECK_DEADLOCK FALSE
