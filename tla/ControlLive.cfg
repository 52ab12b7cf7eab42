SPECIFICATION FairSpec
CONSTANTS
    Requests = {r1}
    Budget = 2
    MaxLines = 2
    SinkErrors = 2
    MaxPosts = 1
    MaxFaults = 2
    Dies = FALSE
PROPERTY Settles
CHECK_DEADLOCK FALSE
