SPECIFICATION Spec
CONSTANTS
    Block = {1, 2}
    Asked = {1, 3}
    MaxParts = 3
INVARIANTS
    OnlyFromSource
CHECK_DEADLOCK FALSE
