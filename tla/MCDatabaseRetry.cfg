SPECIFICATION Spec
CONSTANTS
    Op = {o1}
    Iter = {i1}
    ReadErrors = TRUE
    SeekWhenEnding = FALSE
CHECK_DEADLOCK FALSE
INVARIANTS
    CloseRunsAlone
