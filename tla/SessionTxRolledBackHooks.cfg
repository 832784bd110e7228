SPECIFICATION Spec
CONSTANTS
    Kind <- MCKind
    Bean <- MCBean
    Processor <- MCProcessor
    Query <- MCQuery
    MaxTx = 2
    MaxClosures = 1
    Faults = {}
    SeqDialect = FALSE
INVARIANT ProcessorMeansPersisted
CHECK_DEADLOCK FALSE
