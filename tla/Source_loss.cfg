CONSTANTS
    Partitions = {p1}
    LogEnd = 2
    MaxPoll = 1
    CommitBatch = 1
    SyncInterval = 1
    MaxRetries <- NoAttempts
    DLQEnabled = FALSE
    MetricLabels = 3
    SerialPromises = TRUE
    MaxStarts = 1
SPECIFICATION Spec
INVARIANT AtLeastOnce
CHECK_DEADLOCK FALSE
