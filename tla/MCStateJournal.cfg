SPECIFICATION Spec
CONSTANTS
    Address = {a}
    Key = {k1}
    Code = {x}
    NoCode = NoCode
    None = None
    Modulus = 2
    Ripemd = a
    Roots <- AllRoots
    MaxLog = 2
    MaxDepth = 2
    MaxNonce = 1
CHECK_DEADLOCK FALSE
INVARIANTS
    JournalIsGrounded
PROPERTIES
    ImplementsLedger
