SPECIFICATION Spec
CONSTANTS
    BusCalls = {b1, b2, b3}
    Shutdowns = {d1, d2}
    Nested = {}
    Topics = {A, B}
    EmptyTopic = empty
    Types = {T}
    None = None
    Error = Error
INVARIANT ShutdownAlwaysStopsAll
CHECK_DEADLOCK FALSE
