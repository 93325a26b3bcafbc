CONSTANTS
    Callers = {c1, c2, c3}
    FailureThreshold = 2
    HalfOpenMaxProbes = 2
    MaxRetries = 1
SPECIFICATION FairSpec
INVARIANT TypeOK
INVARIANT ClosedBelowThreshold
INVARIANT SuccessesOnlyHalfOpen
PROPERTY OpenEnds
