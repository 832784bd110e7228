SPECIFICATION Spec
CONSTANTS
    s1 = s1
    s2 = s2
    i1 = i1
    i2 = i2
    i3 = i3
    a = a
    b = b
    Session = {s1}
    Id = {i1}
    Value = {a, b}
    None = None
    Query = {i1}
    MaxCachedIds = 2
    MaxWrites = 1
    StableOrder = TRUE
    UseTx = TRUE
    Faults = {}
INVARIANT ReadsFromDatabase
CHECK_DEADLOCK FALSE
