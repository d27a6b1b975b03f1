SPECIFICATION Spec
CONSTANTS
    Path = {p1}
    LeaseId = {l1, l2}
    Backend = {db1, db2}
    Request = {q1}
    Reaper = {r1, r2}
    Ttl = {1}
    Horizon = 2
    MaxRotations = 1
    MaxCrashes = 1
    None = None
SYMMETRY Symmetry
INVARIANTS
    TypeOK
    NothingLost
PROPERTIES
    ReaperSparesActive
    ImplementsCustody
\* The clock stops at Horizon and ids run out: the model may stop there.
CHECK_DEADLOCK FALSE
