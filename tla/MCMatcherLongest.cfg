CONSTANTS
    MaxLen = 4
    NumRules = 2
    Scope <- MCScope
SPECIFICATION Spec
INVARIANT
    LongestMatchWins
CHECK_DEADLOCK FALSE
