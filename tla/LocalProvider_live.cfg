SPECIFICATION FairSpec
CONSTANTS
    Publishes = {p1, p2, p3}
    Subscribes = {s2}
    Unsubscribes = {u1}
    Shutdowns = {d1}
    Nested = {}
    Async = {s2}
    ErrorHandled = {}
    Failing = {}
    Panicking = {}
    Workers = {w1}
    QueueSize = 2
    None = None
PROPERTIES
    DeliversInOrder
    CallsReturnUnlessStopped
    AcceptedIsHandled
    ShutdownReturns
CHECK_DEADLOCK FALSE
