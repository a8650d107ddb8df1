SPECIFICATION Spec
CONSTANTS
    Publishes = {p1}
    Subscribes = {s1, s2}
    Unsubscribes = {}
    Shutdowns = {}
    Nested = {}
    Async = {s2}
    ErrorHandled = {s1, s2}
    Failing = {s1, s2}
    Panicking = {}
    Workers = {w1}
    QueueSize = 1
    None = None
INVARIANTS
    ErrorsReachErrorHandler
CHECK_DEADLOCK FALSE
