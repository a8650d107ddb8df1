SPECIFICATION Spec
CONSTANTS
    Calls = {c1, c2, c3}
    Nested = {c3}
    Events = {e1, e2}
    Commands = {m1, m2}
    Plain = {m2}
    WithoutMap = {e2}
    Restored = Restored
    None = None
INVARIANTS
    TypeOK
    HandlerInItsTrace
    SpansEnd
    ErrorsObserved
    RacesNeedReuse
CHECK_DEADLOCK FALSE
