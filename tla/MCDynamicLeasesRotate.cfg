SPECIFICATION FairSpec
CONSTANTS
    Path = {p1}
    LeaseId = {l1}
    Backend = {db1}
    Request = {q1}
    Reaper = {r1}
    Ttl = {1}
    Horizon = 2
    MaxRotations = 1
    MaxCrashes = 0
    None = None
PROPERTIES
    AutoRevoked
CHECK_DEADLOCK FALSE
