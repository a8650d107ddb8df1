SPECIFICATION Spec
CONSTANTS
    Publishes = {p1, p2}
    Subscribes = {s1, s2}
    Unsubscribes = {u1}
    Shutdowns = {d1, d2}
    Nested = {p2, s2, u1}
    Async = {s2}
    ErrorHandled = {s2}
    Failing = {s2}
    Panicking = {s1, s2}
    Workers = {w1}
    QueueSize = 1
    None = None
INVARIANTS
    TypeOK
    NoDispatchAfterUnsubscribe
    PublishReachesSubscribers
    NoHandlerAfterShutdown
    HangsOnlyByReentryOrStop
    WaitsForNothingElse
PROPERTIES
    NoLivelock
    MapStableWhileRead
    PublishesAtOneInstant
CHECK_DEADLOCK FALSE
