SPECIFICATION Spec
CONSTANTS
    MaxCalls = 2
    MaxBatch = 2
    MaxCrashes = 2
    MaxTurns = 2
    Tools = {"MODIFY", "AGENT"}
    a1 = a1
    a2 = a2
    Agents = {a1, a2}
VIEW RelativeView
SYMMETRY Symmetry
INVARIANTS
    TypeOK
    
    
    UnperformedNeverRan
    
    EffectIsJournaled
    LiveCallsAnswered
PROPERTIES
    OnlyAgentsResumeMidEffect
    
CHECK_DEADLOCK FALSE
