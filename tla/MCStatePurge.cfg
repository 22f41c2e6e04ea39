SPECIFICATION Spec
CONSTANTS
    Address = {a, b}
    Key = {k1}
    Code = {x}
    NoCode = NoCode
    None = None
    Modulus = 2
    Ripemd = a
    Roots <- PairRoots
    MaxLog = 1
    MaxDepth = 2
    MaxNonce = 1
CHECK_DEADLOCK FALSE
INVARIANTS
    CachesFollowTrie
