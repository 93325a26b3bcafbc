CONSTANTS
    NFlows = 2
    Clusters = {"a", "b"}
    Files <- SameFlowTwice
    MayCancel = TRUE
SPECIFICATION Spec
INVARIANT StartedIsWired
CHECK_DEADLOCK FALSE
