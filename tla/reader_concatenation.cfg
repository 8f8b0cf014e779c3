SPECIFICATION Spec
CONSTANTS
    Block = {1, 2}
    Asked = {1, 3}
    MaxParts = 4
INVARIANTS
    ConcatenationRead
CHECK_DEADLOCK FALSE
