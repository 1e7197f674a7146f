SPECIFICATION Spec
CONSTANTS
    Peers = {p1}
    Senders = {s1, s2}
    Proc = proc
    Timeos = {"none"}
    SndHwm = 1
    PipeCap = 1
    MaxMsgs = 4
    MaxCancels = 1
    MaxQueue = 2
    CloseBefore = 3
    None = None
SYMMETRY SenderSymmetry
INVARIANTS
    TypeOK
    ExactlyOnce
    QueueBound
CHECK_DEADLOCK FALSE
