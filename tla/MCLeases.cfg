SPECIFICATION Spec
CONSTANTS
    Identity = {agent1}
    Path = {p1, p2}
    LeaseId = {l1, l2}
    Stdio = {}
    Ttl = {1, 2}
    RequestTtl = {1}
    AutoTtl = 1
    Horizon = 2
    None = None
SYMMETRY Symmetry
INVARIANTS
    ReleaseApproved
PROPERTIES
    ImplementsWindow
\* The clock stops at Horizon and ids run out: the model may stop there.
CHECK_DEADLOCK FALSE
