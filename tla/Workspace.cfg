SPECIFICATION Spec
CONSTANTS
    Files = {"a", "b"}
    Checks = {lint, test}
    lint = lint
    test = test
    MaxStamp = 3
    MaxOps = 3
    MaxOutside = 1
    MaxTurns = 2
SYMMETRY CheckSymmetry
INVARIANTS
    TypeOK
    VerifiedIsPassed
    UntouchedIsTrusted
    RereadArms
PROPERTIES
    UnseenEditsSurvive
    FailedTransactionUndone
CHECK_DEADLOCK FALSE
