SPECIFICATION Spec
CONSTANTS
    Path = {p1}
    DynPath = {d1}
    Value = {v1, v2}
    Metadata = {m1, m2}
    Stdio = {agent}
    MaxVersion = 3
    MaxKey = 2
    None = None
SYMMETRY Symmetry
INVARIANTS
    TypeOK
    OneWrappingKey
PROPERTIES
    ImplementsStore
    ConfigsFollowKey
