SPECIFICATION Spec
CONSTANTS
    s1 = s1
    s2 = s2
    i1 = i1
    i2 = i2
    i3 = i3
    a = a
    b = b
    Session = {s1}
    Id = {i1, i2, i3}
    Value = {a, b}
    None = None
    Query = {i1, a}
    MaxCachedIds = 2
    MaxWrites = 3
    StableOrder = TRUE
    UseTx = FALSE
    Faults = {"read"}
INVARIANTS GetMatches CacheFresh
CHECK_DEADLOCK FALSE
