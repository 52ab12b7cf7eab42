SPECIFICATION Spec
CONSTANTS
    Peers = {"s1", "s2"}
    MaxWriters = 1
    MaxEvents = 3
INVARIANT CommitsInOrder
CHECK_DEADLOCK FALSE
