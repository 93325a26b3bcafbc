CONSTANTS
    NFlows = 2
    Clusters = {"a", "b"}
    Files <- DistinctFlows
    MayCancel = TRUE
SPECIFICATION Spec
INVARIANT TypeOK
INVARIANT ComponentsUseOpenClients
INVARIANT StartedIsWired
INVARIANT QuietAtExit
PROPERTY OnlySourcesHoldShutdown
CHECK_DEADLOCK FALSE
