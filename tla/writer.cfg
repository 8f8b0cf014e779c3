SPECIFICATION Spec
CONSTANTS
    ByteTop = 2
    MaxRun = 6
    BlockMax = 5
    Margin = 4
    MaxInput = 9
    SinkMayFail = TRUE
INVARIANTS
    TypeOK
    BlockDecodes
    NothingLost
    AlphabetExact
    BlockFits
PROPERTIES
    KeepsPromise
