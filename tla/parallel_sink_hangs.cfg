SPECIFICATION FairSpec
CONSTANTS
    Block = {b1}
    Workers = {w1, w2}
    MaxBlocks = 7
    MaxResets = 0
    SinkMayFail = TRUE
PROPERTIES
    CloseAlwaysReturns
CHECK_DEADLOCK FALSE
