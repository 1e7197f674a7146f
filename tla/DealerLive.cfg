SPECIFICATION Spec
CONSTANTS
    Peers = {p1}
    Senders = {s1, s2}
    Proc = proc
    Timeos = {"zero", "some"}
    SndHwm = 1
    PipeCap = 1
    MaxMsgs = 2
    MaxCancels = 1
    MaxQueue = 1
    CloseBefore = 2
    None = None
PROPERTIES
    NotifiedServes
    SendsReturn
CHECK_DEADLOCK FALSE
