SPECIFICATION BlockQueueFairSpec
CONSTANTS
    Block = {1, 2, 3}
    Genesis = 0
    Parent <- MCParent
    Number <- MCNumber
    Difficulty <- MCDifficulty
    Invalid = {}
    Unsound = {1}
    Shaky = {}
    Late = {}
    Verifier = {v1, v2}
    NoBlock = NoBlock
    MaxDrain = 2
    MaxImports = 3
    ClearBusy = FALSE
CHECK_DEADLOCK FALSE
PROPERTY ReadyIsDrained
