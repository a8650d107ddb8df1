SPECIFICATION Spec
CONSTANTS
    Events = {e1}
    Unreadable = {}
    Retransmitters = {r1}
    Loops = {g1}
    Limit = 2
    QueueSize = 1
    None = None
    MaxFaults = 0
INVARIANT ProcessedIsNotLost
CHECK_DEADLOCK FALSE
