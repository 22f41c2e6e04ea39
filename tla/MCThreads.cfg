SPECIFICATION ThreadsSpec
CONSTANTS
    Caller = {c1, c2}
    SelfEnds = TRUE
    Serial = TRUE
    Client = {m1, m2}
    MinerCount = 2
    Header = {h1, h2}
    NoHeader = NoHeader
    NoOne = NoOne
    MaxCalls = 2
    MaxFinds = 2
    Block = {1, 2, 3}
    Genesis = 0
    Parent <- MCParent
    Number <- MCNumber
    Difficulty <- MCDifficulty
    ClientTx <- MCClientTx
    Contents <- MCContents
    Mined = {1}
    Unsealed = Unsealed
    SyncAmount = 2
CHECK_DEADLOCK FALSE
INVARIANTS
    MinersFollowFarm
    TransactionsAreKept
PROPERTIES
    CallersCanRely
    CallsReturn
    SealIsSolved
    SolutionsHoldNobodyUp
