SPECIFICATION FairSpec
CONSTANTS
    MaxUpdates = 4
    RowKey <- MCRowKey
    Kind <- MCMixedKind
    QueueSize = 2
    BufferSize = 2
    MaxDbFaults = 1
INVARIANTS TypeOK NoUnexplainedLoss OrderlyStop AckBalance OnlyOverflowStallsDrain FreshestSurvive
PROPERTIES ShutdownCompletes UpdatesSettle ImplementsLedger
CHECK_DEADLOCK FALSE
