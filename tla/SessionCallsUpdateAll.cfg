CONSTANTS
    RowCount = 5
    Match <- MCMatch
    Dialects = {"mssql", "mysql", "postgres"}
    Calls <- UpdateCalls
    MaxChain = 3
SPECIFICATION Spec
INVARIANT AllCondsRestrict
CHECK_DEADLOCK FALSE
