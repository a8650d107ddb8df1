SPECIFICATION Spec
CONSTANTS
    Publishes = {p1}
    Subscribes = {s1, s2, s3}
    Unsubscribes = {u1}
    Shutdowns = {}
    Nested = {}
    Async = {}
    ErrorHandled = {}
    Failing = {}
    Panicking = {}
    Workers = {w1}
    QueueSize = 1
    None = None
INVARIANTS
    SubscriptionIdsUnique
CHECK_DEADLOCK FALSE
