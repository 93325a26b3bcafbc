CONSTANTS
    Partitions = {p1, p2}
    LogEnd = 2
    MaxPoll = 1
    CommitBatch = 1
    SyncInterval = 2
    MaxRetries = 1
    DLQEnabled = TRUE
    MetricLabels = 3
    SerialPromises = TRUE
    MaxStarts = 1
SPECIFICATION Spec
SYMMETRY Symmetry
INVARIANT CommittedIsSettled
INVARIANT InflightIsExact
CHECK_DEADLOCK FALSE
