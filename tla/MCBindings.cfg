SPECIFICATION BindingsSpec
CONSTANTS
    Op = {o1, o2}
    Iter = {i1, i2}
    ReadErrors = TRUE
    SeekWhenEnding = FALSE
    MaxKey = 4
    None = None
    Undefined = Undefined
    NoMore = NoMore
    Nothing = Nothing
    MaxBatch = 3
    OptionSets <- MCOptions
    DataOp = {o1, o2}
    Version = {0, 1}
    Writes <- MCWrites
    Reads <- MCReads
    ClearOptions <- MCClearOptions
    Addr = {"s", "c", "new", "p"}
    Signer = {"s"}
    Caller = {"c"}
    Precompiled = {"p"}
    Author = "c"
    CreateAddress <- MCCreate
    SaltAddress <- MCSalt
    Bytecode = {"x"}
    NoCode = "none"
    StoredValue = {0, 1, 2}
    Roots <- MCRoots
    BaseGas = 1
    GasPrice = 1
    NetMetering = TRUE
    SetGas = 4
    ResetGas = 2
    UnchangedGas = 1
    RefundGas = 3
    DestructGas = 4
    NoRun = NoRun
    MaxGas = 1
    MaxAmount = 1
    MaxDepth = 4
    MaxSteps = 3
    MaxNonce = 2
    MaxRuns = 1
SYMMETRY Symmetry
CHECK_DEADLOCK FALSE
INVARIANTS
    PriorityWorkCounts
    PendingCloseIsServed
    ExitLeavesNothing
    MovesFromEntries
    MomentIsKept
    MoneyIsKept
    RefundsFollowStorage
PROPERTIES
    ImplementsCursor
    NonceIsUsedUp
    FailureOnlyCosts
    CodeIsNotReplaced
