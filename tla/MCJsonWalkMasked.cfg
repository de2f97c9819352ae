CONSTANTS
    MaxTokens = 3
    Documents <- MCDocuments
    Others <- MCOthers
    Transform <- MCTransform
SPECIFICATION Spec
INVARIANT
    MaskedBodyIsJson
CHECK_DEADLOCK FALSE
