SPECIFICATION Spec
CONSTANTS
    Kinds = {"v2", "v3"}
    Configs <- MC_Configs
    MaxData = 1
    MaxPings = 1
INVARIANTS
    TypeOK
    OnlyCompatibleMeet
    NoSpuriousError
    InOrderOnce
    IdentityOfPeer
PROPERTY HandshakeSettles
CHECK_DEADLOCK FALSE
