SPECIFICATION Spec
CONSTANTS
    BusCalls = {b1, b2, b3}
    Shutdowns = {d1}
    Nested = {b3, d1}
    Topics = {A, B, empty}
    EmptyTopic = empty
    Types = {T, U}
    None = None
    Error = Error
INVARIANTS
    TypeOK
    ResultsTyped
    ShutdownStopsAll
    LockHeldByActiveCalls
    HangsOnlyByReentry
    WaitsForNothingElse
PROPERTY GetsOrCreates
SYMMETRY Symmetry
CHECK_DEADLOCK FALSE
