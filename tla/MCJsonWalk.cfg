CONSTANTS
    MaxTokens = 9
    Documents <- MCDocuments
    Others <- MCOthers
    Transform <- MCTransform
SPECIFICATION FairSpec
INVARIANTS
    TypeOK
    AgreesWithParser
    ContextsAgree
    RangesAreLeaves
    OnlyLeavesRewritten
PROPERTY
    Terminates
CHECK_DEADLOCK FALSE
