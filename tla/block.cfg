CONSTANTS
    A = 4
    MainFrom = 6
    WorkFactors = {0, 4, 101}
    FallbackSmall = 5
    MainSmall = 3
    MainDepth = 3
    Plain = 1
    Unroll = 2
    Overshoot = 6
    MaxQuadrant = 2
    MaxTwo = 9
    MaxThree = 8
    MaxAll = 4
    MaxLen = 3
    GroupSize = 2
    GroupSteps = {6}
    NIters = 2
    RowLen = 2
    PtrBits = 4
    SelBits = 4
    NGroups = 3
    MaxSelectors = 7
    Longest = 4
    RunLimit = 10
    MaxBlock = 9
    DamageTwo = 6
    DamageAll = 3
SPECIFICATION BlockSpec
INVARIANTS
    TypeOK
    SortedSoFar
    FavouredOnce
    CodesUsable
    LengthsOptimal
    FewHalvings
    ArraysLargeEnough
    DecodesBack
    NeverPanics

PROPERTY SortsAsPromised
