SPECIFICATION FairSpec
CONSTANTS
    Events = {e1, e2}
    Unreadable = {e1, e2}
    Retransmitters = {r1}
    Loops = {g1, g2}
    Limit = 2
    QueueSize = 1
    MaxFaults = 1
    None = None
INVARIANTS
    TypeOK
    ProcessedWasDelivered
    DeliveriesBounded
    DeliveredInOrder
    LossBounded
PROPERTIES
    DeliversAtLeastOnce
    CommittedIsDelivered
    StopEnds
CHECK_DEADLOCK FALSE
