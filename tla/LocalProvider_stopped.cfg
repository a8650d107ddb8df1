SPECIFICATION FairSpec
CONSTANTS
    Publishes = {p1, p2}
    Subscribes = {s1}
    Unsubscribes = {}
    Shutdowns = {d1}
    Nested = {}
    Async = {s1}
    ErrorHandled = {}
    Failing = {}
    Panicking = {}
    Workers = {w1}
    QueueSize = 1
    None = None
PROPERTIES
    PublishReturns
CHECK_DEADLOCK FALSE
