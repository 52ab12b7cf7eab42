SPECIFICATION Spec
CONSTANTS
    MaxCalls = 2
    MaxBatch = 2
    MaxCrashes = 1
    MaxTurns = 1
    Tools = {"AGENT"}
    a1 = a1
    a2 = a2
    Agents = {a1, a2}
PROPERTY NoResumeMidEffect
CHECK_DEADLOCK FALSE
