SPECIFICATION Spec
CONSTANTS
    User = {u1}
    Ip = {ip1}
    Call = {c1, c2}
    State = {s1}
    JwtTtl = 2
    PreTtl = 1
    StateTtl = 1
    Window = 1
    MaxFailed = 1
    MaxDraw = 2
    CodesPerSet = 1
    None = None
SYMMETRY Symmetry
INVARIANTS
    TypeOK
    ActiveWasVerified
    FailuresBounded
    SsoOnce
PROPERTIES
    ConsumedUnlessOvertaken
    DisabledOnlyDrain
