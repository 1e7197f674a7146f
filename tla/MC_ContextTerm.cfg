SPECIFICATION Spec
CONSTANTS
    s1 = s1
    c1 = c1
    Users <- MC_Users
    Sockets <- MC_Sockets
    Parent <- MC_Parent
    Waiters = {w1, w2}
INVARIANTS
    TypeOK
    CountTracksActors
    TermOutlivesRegistered
PROPERTY WakeReachesEnrolled
CHECK_DEADLOCK FALSE
