SPECIFICATION FairSpec
CONSTANTS
    Kind <- MCKind
    Bean <- MCProcessor
    Processor <- MCProcessor
    Query <- MCQuery
    MaxTx = 2
    MaxClosures = 2
    Faults <- MCAllFaults
    SeqDialect = TRUE
INVARIANTS CloseRollsBack ClosedReleasesTx NoOrphanTx HooksAfterTxEnds StmtRunsInCurrentTx HooksRunOnce
PROPERTIES ReadsRunPending EveryTxEnds
CHECK_DEADLOCK FALSE
