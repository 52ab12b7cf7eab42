SPECIFICATION Spec
CONSTANTS
    Requests = {r1}
    Budget = 2
    MaxLines = 2
    SinkErrors = 2
    MaxPosts = 1
    MaxFaults = 1
    Dies = FALSE
INVARIANT NoCompletionWithoutCleanup
CHECK_DEADLOCK FALSE
