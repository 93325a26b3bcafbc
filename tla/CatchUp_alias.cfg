CONSTANTS
    StartOffset = 0
    EndOffset = 4
    Log <- WholeLog
    Workers = 2
    MinSegment = 2
    RingCapacity = 2
    MaxBatch = 2
    MetricLabels = 3
    SerialPromises = TRUE
    MayFail = FALSE
    MayCancel = FALSE
SPECIFICATION Spec
INVARIANT DrainedInOrder
CHECK_DEADLOCK FALSE
