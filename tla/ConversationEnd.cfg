SPECIFICATION Spec
CONSTANTS
    MaxTasks = 1
    MaxNatives = 1
    MaxItems = 1
    Hosts = {"isolated"}
    Context = {}
INVARIANT EndIsHeard
CHECK_DEADLOCK FALSE
