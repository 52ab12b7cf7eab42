SPECIFICATION Spec
CONSTANTS
    MaxCalls = 2
    MaxBatch = 2
    MaxCrashes = 1
    MaxTurns = 1
    Tools = {"MODIFY"}
    Agents = {}
INVARIANT NoOrphanAfterReconcile
CHECK_DEADLOCK FALSE
