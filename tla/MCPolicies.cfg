\* Files, rows and the two maps, with failing writes and imports.
SPECIFICATION Spec
CONSTANTS
    c1 = c1
    c2 = c2
    a = a
    b = b
    admin = admin
    full = full
    x = x
    None = None
    Name = {admin, a, b}
    Admin = admin
    Rules = {full, x}
    AdminRules = full
    Granting = {full}
    Caller = {c1, c2}
    PoliciesOf <- Tokens
INVARIANTS
    TypeOK
    MapFollowsRows
PROPERTY ImportOnlyAdds
