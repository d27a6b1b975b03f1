SPECIFICATION LFairSpec
CONSTANTS
    Role = {r1}
    Policy = {narrow, wide}
    Token = {t1}
    Call = {c1, c2}
    JwtTtl = 2
    TokenTtl = 1
    MaxSecret = 3
    None = None
INVARIANTS
    TypeOK
    SingleUse
    StandingTakesHold
PROPERTIES
    LockoutTakesHold
    PolicyTakesHold
