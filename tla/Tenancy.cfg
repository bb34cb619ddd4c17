SPECIFICATION TenancySpec
CONSTANTS
    u1 = u1
    u2 = u2
    o1 = o1
    o2 = o2
    p1 = p1
    a1 = a1
    s1 = s1
    e1 = e1
    t1 = t1
    Users = {u1, u2}
    Admins = {u1, u2}
    Rows = {o1, o2, p1, a1, s1, e1, t1}
    Kind <- MCKind
    NoRow = NoRow
SYMMETRY MCSymmetry
INVARIANT TenantIsolation
CHECK_DEADLOCK FALSE
