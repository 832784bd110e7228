SPECIFICATION FairSpec
CONSTANTS
    p1 = p1
    p2 = p2
    Proc = {p1, p2}
    N = 3
    Reversible <- MCReversible
    MaxFaults = 2
    MaxRollbacks = 2
INVARIANT ListInStep
PROPERTY EveryMigrateEnds
CHECK_DEADLOCK FALSE
