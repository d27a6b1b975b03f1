\* Two calls at once: windows that roll over, limits, the setting and failing writes.
SPECIFICATION Spec
CONSTANTS
    c1 = c1
    c2 = c2
    r1 = r1
    s1 = s1
    None = None
    Missing = Missing
    Call = {c1, c2}
    Role = {r1}
    Secret = {s1}
    Axis = {"minute"}
    Length <- MinuteOnly
    Limit = {1}
    Timeout = {1}
    Ceiling = {1}
    DefaultTimeout = 2
    Horizon = 1
    MaxSent = 3
    MaxLost = 1
SYMMETRY Symmetry
VIEW Seen
INVARIANTS
    TypeOK
    Covered
    Accounted
    CacheCoherent
PROPERTY Throttled
CHECK_DEADLOCK FALSE
