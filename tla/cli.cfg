SPECIFICATION Spec
CONSTANTS
    MaxSuffix = 1
    MaxArgs = 2
    MaxRuns = 2
    StatMayFail = TRUE
    OthersMayMake = TRUE
INVARIANTS
    TypeOK
    SuccessMeansConverted
    NoLeftover
PROPERTIES
    DataSafe
CHECK_DEADLOCK FALSE
