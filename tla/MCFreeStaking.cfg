SPECIFICATION StakeSpec
CONSTANTS
    Address = {staker, config}
    Key = {k1}
    Code = {x}
    NoCode = NoCode
    None = None
    Modulus = 2
    Ripemd = config
    Roots <- StakedRoots
    Staker = {staker}
    Config = config
    FeeManager = config
    MaxLog = 1
    MaxDepth = 2
    MaxNonce = 1
CHECK_DEADLOCK FALSE
INVARIANTS
    StakeIsThere
