SPECIFICATION Spec
CONSTANTS
    User = {u1}
    Ip = {ip1}
    Call = {c1, c2}
    State = {s1}
    JwtTtl = 1
    PreTtl = 1
    StateTtl = 1
    Window = 1
    MaxFailed = 1
    MaxDraw = 1
    CodesPerSet = 2
    None = None
PROPERTIES
    RecoveryOnce
