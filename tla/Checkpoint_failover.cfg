CONSTANTS
    Flows = {f1}
    Width = 4
    LogEnd = 4
    MaxTarget = 5
SPECIFICATION Spec
INVARIANT TypeOK
INVARIANT InvariantB
INVARIANT InvariantC
INVARIANT TranslationMissesNothing
INVARIANT FailoverMissesNothing
