SPECIFICATION FarmSpec
CONSTANTS
    Client = {c1, c2}
    MinerCount = 2
    Header = {h1, h2}
    NoHeader = NoHeader
    NoOne = NoOne
    MaxCalls = 2
    MaxFinds = 2
CHECK_DEADLOCK FALSE
PROPERTIES SealsAreGenerated
