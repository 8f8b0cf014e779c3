SPECIFICATION FairSpec
CONSTANTS
    Block = {1, 2}
    Asked = {1, 3}
    MaxParts = 6
INVARIANTS
    TypeOK
    NothingLostNorInvented
    EOFMeansComplete
    NoFalseAlarm
PROPERTIES
    ReadContract
    ReadReturns
