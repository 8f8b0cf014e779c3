SPECIFICATION FairSpec
CONSTANTS
    Block = {b1}
    Workers = {w1, w2}
    MaxBlocks = 2
    MaxResets = 1
    SinkMayFail = FALSE
PROPERTIES
    CloseAlwaysReturns
CHECK_DEADLOCK FALSE
