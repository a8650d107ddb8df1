SPECIFICATION Spec
CONSTANTS
    Events = {e1}
    Unreadable = {}
    Retransmitters = {r1, r2}
    Loops = {g1, g2}
    Limit = 2
    QueueSize = 1
    None = None
    MaxFaults = 0
INVARIANT NeverFetchedTwice
CHECK_DEADLOCK FALSE
