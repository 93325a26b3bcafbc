CONSTANTS
    Partitions = {p1, p2}
    LogEnd = 2
    MaxPoll = 1
    CommitBatch = 1
    SyncInterval = 1
    MaxRetries = 1
    DLQEnabled = TRUE
    MetricLabels = 4
    SerialPromises = TRUE
    MaxStarts = 1
SPECIFICATION FairSpec
PROPERTY OnlyRetryHoldsStop
PROPERTY OnlyRetryHoldsRecords
CHECK_DEADLOCK FALSE
