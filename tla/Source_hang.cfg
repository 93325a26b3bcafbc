CONSTANTS
    Partitions = {p1}
    LogEnd = 2
    MaxPoll = 2
    CommitBatch = 2
    SyncInterval = 1
    MaxRetries = 1
    DLQEnabled = FALSE
    MetricLabels = 3
    SerialPromises = TRUE
    MaxStarts = 1
SPECIFICATION FairSpec
PROPERTY StopCompletes
CHECK_DEADLOCK FALSE
