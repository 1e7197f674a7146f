SPECIFICATION Spec
CONSTANTS
    Connecters = {c1, c2}
    RECONNECT_IVL = 2
    RECONNECT_IVL_MAX = 7
    DefaultIvl = 1
    ExpCap = 2
    RxCap = 1
    MaxLags = 0
    Reachable = FALSE
    MaxConnects = 1
    None = None
PROPERTY TermEndsConnecters
CHECK_DEADLOCK FALSE
