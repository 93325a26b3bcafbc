CONSTANTS
    Flows = {f1}
    Width = 4
    LogEnd = 4
    MaxTarget = 5
SPECIFICATION Spec
INVARIANT LatestFirst
