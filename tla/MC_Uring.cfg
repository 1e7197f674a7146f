CONSTANTS
    Scenarios <- MCScenarios
    MaxPings = 1
    SndHwm = 2
    Budget = 2
    SqSize = 3
    PoolSize = 1
    RecvBufs = 2
SPECIFICATION Spec
INVARIANT TypeOK
INVARIANT WireOrder
INVARIANT UpstreamOrder
INVARIANT NothingForgotten
CHECK_DEADLOCK FALSE
