SPECIFICATION Spec
CONSTANTS
    Connecters = {c1, c2}
    RECONNECT_IVL = 2
    RECONNECT_IVL_MAX = 7
    DefaultIvl = 1
    ExpCap = 2
    RxCap = 1
    MaxLags = 1
    Reachable = TRUE
    MaxConnects = 1
    None = None
INVARIANTS
    TypeOK
    NeverForgotten
    NoStorm
PROPERTIES
    Reconnects
    AllEnds
CHECK_DEADLOCK FALSE
