SPECIFICATION Spec
CONSTANTS
    MaxTasks = 2
    MaxNatives = 2
    MaxItems = 1
    Hosts = {"isolated", "session"}
    Context = {}
INVARIANTS
    TypeOK
    OwnEventsOnly
    CancelledIsOver
    OneNativeTurn
PROPERTIES
    EventsInOrder
    ServesTurns
CHECK_DEADLOCK FALSE
