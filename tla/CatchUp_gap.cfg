CONSTANTS
    StartOffset = 0
    EndOffset = 4
    Log <- GapLog
    Workers = 2
    MinSegment = 2
    RingCapacity = 5
    MaxBatch = 2
    MetricLabels = 3
    SerialPromises = TRUE
    MayFail = FALSE
    MayCancel = FALSE
SPECIFICATION Spec
INVARIANT RangeComplete
CHECK_DEADLOCK FALSE
