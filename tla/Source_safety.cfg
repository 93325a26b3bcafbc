CONSTANTS
    Partitions = {p1}
    LogEnd = 2
    MaxPoll = 2
    CommitBatch = 2
    SyncInterval = 1
    MaxRetries = 1
    DLQEnabled = FALSE
    MetricLabels = 4
    SerialPromises = FALSE
    MaxStarts = 2
SPECIFICATION Spec
INVARIANT TypeOK
INVARIANT CommittedIsSettled
INVARIANT InflightIsExact
INVARIANT SyncsPointAtCopies
PROPERTY CommitsAdvance
PROPERTY ReorderedOnlyByRetries
PROPERTY ImplementsMirror
CHECK_DEADLOCK FALSE
