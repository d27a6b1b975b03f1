SPECIFICATION FairSpec
CONSTANTS
    Identity = {agent1}
    Path = {p1}
    LeaseId = {l1, l2}
    Stdio = {t1}
    Ttl = {1, 2}
    RequestTtl = {1}
    AutoTtl = 1
    Horizon = 2
    None = None
INVARIANTS
    TypeOK
    NoOrphanLease
    GateNeedsApproval
    
PROPERTIES
    WindowHolds
    RequestsSettle
    LapsedAreRevoked
CHECK_DEADLOCK FALSE
