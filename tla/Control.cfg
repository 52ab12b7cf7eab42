SPECIFICATION Spec
CONSTANTS
    r1 = r1
    r2 = r2
    Requests = {r1, r2}
    Budget = 2
    MaxLines = 2
    SinkErrors = 2
    MaxPosts = 1
    MaxFaults = 1
    Dies = TRUE
SYMMETRY RequestSymmetry
INVARIANTS
    TypeOK
    LeakIsReported
PROPERTIES
    TerminalIsFinal
    KeepsPromise
CHECK_DEADLOCK FALSE
