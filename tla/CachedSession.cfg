SPECIFICATION Spec
CONSTANTS
    s1 = s1
    s2 = s2
    i1 = i1
    i2 = i2
    i3 = i3
    a = a
    b = b
    Session = {s1, s2}
    Id = {i1, i2}
    Value = {a, b}
    None = None
    Query = {a}
    MaxCachedIds = 2
    MaxWrites = 1
    StableOrder = TRUE
    UseTx = TRUE
    Faults = {"cacheDelete"}
VIEW MCViewWithoutSeen
SYMMETRY MCSymmetry
INVARIANTS OnlyCommitted FindOneRowPerId
CHECK_DEADLOCK FALSE
