CONSTANTS
    StartOffset = 0
    EndOffset = 5
    Log <- WholeLog
    Workers = 2
    MinSegment = 2
    RingCapacity = 3
    MaxBatch = 2
    MetricLabels = 3
    SerialPromises = TRUE
    MayFail = TRUE
    MayCancel = TRUE
SPECIFICATION Spec
INVARIANT TypeOK
INVARIANT DrainsPrefix
INVARIANT CompleteAtEnd
CHECK_DEADLOCK FALSE
