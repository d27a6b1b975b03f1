\* Two agents calling with two secrets: the window, the totals, partial recordings and offers.
SPECIFICATION Spec
CONSTANTS
    a1 = a1
    a2 = a2
    p = p
    q = q
    s = s
    t = t
    None = None
    Agent = {a1, a2}
    Path = {p, q}
    Shape = {s}
    MaxOutcomes = 3
    MaxSuggest = 1
    MaxCalls = 4
SYMMETRY Symmetry
INVARIANTS
    TypeOK
    Tallied
PROPERTY FailingIsDropped
