SPECIFICATION TrieSpec
CONSTANTS
    MaxNibble = 1
    Key <- MCKey
    Value = {"s"}
    Start <- MCStart
    MaxEdits = 1
    MaxCommits = 1
    Attempts = 10
CHECK_DEADLOCK FALSE
INVARIANT GivesUpAfterTenRefusals
