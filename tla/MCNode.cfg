SPECIFICATION NodeSpec
CONSTANTS
    MaxNibble = 1
    Key <- MCKey
    Value = {"s", "l"}
    Start <- MCStart
    MaxEdits = 2
    MaxCommits = 1
    Attempts = 2
    Tx <- MCTx
    TxVerifier = {v1}
    Limit = 2
    FutureLimit = 1
    MaxDropped = 1
    MaxUnverified = 1
    NoTx = NoTx
    Block = {1, 2, 3, 4, 5}
    Genesis = 0
    Parent <- MCParent
    Number <- MCNumber
    Difficulty <- MCDifficulty
    GasUsed <- MCGasUsed
    Invalid = {4}
    Unsound = {1}
    Shaky = {3}
    Late = {1}
    Verifier = {v1, v2}
    NoBlock = NoBlock
    MaxDrain = 2
    MaxImports = 5
    ClearBusy = FALSE
    Reader = {r1}
    NoHash = NoHash
    MaxCrashes = 1
    MaxRewinds = 1
    IndexSize = 2
    IndexLevels = 2
    Pending <- MCPending
    Capacity = 1
    Forks = {2}
    Generations = 2
    Makers = {m1}
    Own = Own
    Nobody = Nobody
    CopyCommitted = FALSE
    SameRoot = FALSE
    MaxBlocks = 4
    Base = 16
    MaxLengthBytes = 2
    Bytes <- MCBytes
    Ints = {0, 5, 300}
    ListSizes = {0, 1, 2, 3}
    Raws <- MCRaws
    MaxAppended = 4
    Peer = {p1, p2}
    Owned = {0, 1}
    Shown = {2, 5}
    Body <- MCBody
    NoBody = 0
    Rejected = {4}
    MaxRequest = 1
    MaxKnown = 1
    MaxMoves = 3
CHECK_DEADLOCK FALSE
INVARIANTS
    RootIsCanonical
    NodesAreKept
    IteratesInOrder
    QueueIsConsistent
    ReadyIsQueued
    SyncedInOrder
    StateFollowsTransactions
    SealedIsEnactable
    BestIsStored
    IndexFollowsHead
    CacheFollowsIndex
    SearchFindsAll
    EncodingIsRead
    DownloadsAreAsked
