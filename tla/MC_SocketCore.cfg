SPECIFICATION Spec
CONSTANTS
    Listeners = {l1}
    Sessions = {s1}
    Inprocs = {i1}
    Uri <- DistinctUri
    BusCap = 3
    OthersFrom = 3
    OthersMax = 1
    SndHwm = 1
    Linger = "finite"
    None = None
INVARIANTS
    TypeOK
    PendingWillReport
    EndpointsHaveActors
    PipesFollowEndpoints
PROPERTIES
    ShutdownCompletes
    SessionsEnd
CHECK_DEADLOCK FALSE
