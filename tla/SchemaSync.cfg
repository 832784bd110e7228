SPECIFICATION FairSpec
CONSTANTS
    p1 = p1
    p2 = p2
    Proc = {p1, p2}
    Setups <- MCSetups
    MaxFaults = 1
INVARIANTS
    ColumnsSettle
    IndexesSettle
    TypesRoundTrip
PROPERTIES
    OptionsKept
    EverySyncEnds
CHECK_DEADLOCK FALSE
