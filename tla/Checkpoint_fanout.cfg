CONSTANTS
    Flows = {f1, f2}
    Width = 3
    LogEnd = 2
    MaxTarget = 3
SPECIFICATION Spec
INVARIANT FailoverMissesNothing
