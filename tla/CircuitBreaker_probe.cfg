CONSTANTS
    Callers = {c1, c2}
    FailureThreshold = 2
    HalfOpenMaxProbes = 2
    MaxRetries = 1
SPECIFICATION Spec
INVARIANT SingleProbe
