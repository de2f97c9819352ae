CONSTANTS
    Lowers <- MCLowers
    Uppers = {}
    Digits <- MCDigits
    Texts <- MCTexts
    Fallback <- MCFallback
    Requests <- MCRequests
    Words <- MCWords
    Responses <- MCResponses
    MaxEntries = 2
    MaxPieces = 3
SPECIFICATION Spec
INVARIANTS
    TypeOK
    ClearOnlyIfAccounted
    RoundTrips
    RequestLengthKept
PROPERTY
    PairsFrozenOnceSent
CHECK_DEADLOCK FALSE
