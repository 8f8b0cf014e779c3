SPECIFICATION Spec
CONSTANTS
    MaxSuffix = 1
    MaxArgs = 1
    MaxRuns = 1
    StatMayFail = TRUE
    OthersMayMake = FALSE
PROPERTIES
    OnlyForceOverwrites
CHECK_DEADLOCK FALSE
