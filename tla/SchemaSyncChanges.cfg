SPECIFICATION FairSpec
CONSTANTS
    p1 = p1
    p2 = p2
    Proc = {p1, p2}
    Setups <- MCShorter
    MaxFaults = 0
PROPERTIES
    ChangesNothing
CHECK_DEADLOCK FALSE
