CONSTANTS
    RowCount = 5
    Match <- MCMatch
    Dialects <- AllDialects
    Calls <- AllCalls
    MaxChain = 3
SPECIFICATION Spec
INVARIANTS
    ClausesInOrder
    PageIsRight
    CondsRestrict
    DeletedHidden
    LimitExact
    SetOnce
    InsertListsAgree
    FindAndCountTotal
    BufferedAsUnbuffered
    CleanAfterCall
CHECK_DEADLOCK FALSE
