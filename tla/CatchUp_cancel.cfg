CONSTANTS
    StartOffset = 0
    EndOffset = 4
    Log <- WholeLog
    Workers = 1
    MinSegment = 2
    RingCapacity = 2
    MaxBatch = 2
    MetricLabels = 3
    SerialPromises = FALSE
    MayFail = FALSE
    MayCancel = TRUE
SPECIFICATION Spec
INVARIANT CancelFreesPut
CHECK_DEADLOCK FALSE
