CONSTANTS
    MaxLen = 4
    NumRules = 3
    Scope <- MCScope
SPECIFICATION Spec
INVARIANTS
    TypeOK
    KeptInOrder
    KeptUnlessCovered
    Tiling
    MaskedAsKept
CHECK_DEADLOCK FALSE
