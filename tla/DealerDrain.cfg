SPECIFICATION Spec
CONSTANTS
    Peers = {p1}
    Senders = {s1}
    Proc = proc
    Timeos = {"zero"}
    SndHwm = 3
    PipeCap = 1
    MaxMsgs = 3
    MaxCancels = 0
    MaxQueue = 4
    CloseBefore = 4
    None = None
PROPERTY QueueDrains
CHECK_DEADLOCK FALSE
