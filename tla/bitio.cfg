SPECIFICATION Spec
CONSTANTS
    ByteBits = 2
    AccBits = 4
    MaxBits = 3
    MaxWritten = 6
    MaxRead = 9
    SinkMayFail = TRUE
    SourceMayFail = TRUE
INVARIANTS
    TypeOK
    ExactBits
    BufferExact
    NoStrayBits
    FlushPads
    ReadsBack
PROPERTIES
    StopsAtError
CHECK_DEADLOCK FALSE
