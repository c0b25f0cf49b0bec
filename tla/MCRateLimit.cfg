SPECIFICATION HalvesSpec
CONSTANTS
    Req = {r1, r2}
    Ip = {home}
    User = {alice}
    Limit <- Limits
    Window <- Windows
    Call = {r1, r2}
    Client = {k1, k2, k3}
    None = None
INVARIANTS
    CountersExpire
    TwiceTheLimit
    ReturnsVerified
    AloneReconnects
PROPERTIES
    LetInAgain
