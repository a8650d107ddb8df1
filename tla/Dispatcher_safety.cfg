SPECIFICATION FairSpec
CONSTANTS
    Dispatches = {c1, c2, c3}
    Registers = {h1, h2}
    Nested = {c3, h2}
    Panicking = {h1}
    None = None
    Error = Error
INVARIANTS
    TypeOK
    LockHeldByActiveCalls
    HangsOnlyByReentry
    WaitsForNothingElse
PROPERTIES
    CallsReturnUnlessReentered
    FillsOneSlot
CHECK_DEADLOCK FALSE
