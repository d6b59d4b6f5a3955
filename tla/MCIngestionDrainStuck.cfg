SPECIFICATION Spec
CONSTANTS
    MaxUpdates = 4
    RowKey <- MCRowKey
    Kind <- MCAllOk
    QueueSize = 1
    BufferSize = 2
    MaxDbFaults = 1
INVARIANTS DrainNotStuck
CHECK_DEADLOCK FALSE
