SPECIFICATION FairSpec
CONSTANTS
    Op = {o1}
    Iter = {i1}
    ReadErrors = FALSE
    SeekWhenEnding = FALSE
CHECK_DEADLOCK FALSE
INVARIANTS
    OutlivesUse
    CloseRunsAlone
    IteratorUsedAlone
PROPERTIES
    ImplementsSession
    CallsAnswered
    ImplementsFairSession
