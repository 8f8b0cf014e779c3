SPECIFICATION FairSpec
CONSTANTS
    Block = {b1, b2}
    Odd = b2
    Workers = {w1, w2}
    MaxBlocks = 7
    MaxResets = 1
    SinkMayFail = TRUE
ACTION_CONSTRAINT
    AtMostOneOdd
INVARIANTS
    TypeOK
    IInv
    EachBlockInOnePlace
    NoSendOnClosedChannel
PROPERTIES
    KeepsPromise
    CallsReturn
    ShortStreamsClose
CHECK_DEADLOCK FALSE
