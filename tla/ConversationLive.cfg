SPECIFICATION FairSpec
CONSTANTS
    MaxTasks = 2
    MaxNatives = 1
    MaxItems = 1
    Hosts = {"isolated"}
    Context = {"item"}
INVARIANT ContextOnce
PROPERTIES
    CancelEnds
    CloseEnds
CHECK_DEADLOCK FALSE
