CONSTANTS
    NFlows = 2
    Clusters = {"a", "b"}
    Files <- DistinctFlows
    MayCancel = TRUE
SPECIFICATION Spec
INVARIANT ValidConfigRuns
CHECK_DEADLOCK FALSE
