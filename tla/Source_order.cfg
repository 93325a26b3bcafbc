CONSTANTS
    Partitions = {p1}
    LogEnd = 2
    MaxPoll = 2
    CommitBatch = 2
    SyncInterval = 1
    MaxRetries = 1
    DLQEnabled = FALSE
    MetricLabels = 4
    SerialPromises = TRUE
    MaxStarts = 1
SPECIFICATION Spec
INVARIANT OrderPreserved
CHECK_DEADLOCK FALSE
