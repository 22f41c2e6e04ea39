SPECIFICATION Spec
CONSTANTS
    Op = {o1}
    Iter = {i1}
    ReadErrors = FALSE
    SeekWhenEnding = TRUE
CHECK_DEADLOCK FALSE
INVARIANTS
    IteratorUsedAlone
