CONSTANTS
    Lowers <- MCLowers
    Uppers = {}
    Digits <- MCDigits
    Texts <- MCTexts
    Fallback <- MCFallback
    Requests <- MCRequests
    Words <- MCWords
    Responses <- MCResponses
    MaxEntries = 2
    MaxPieces = 3
SPECIFICATION Spec
INVARIANT
    UnmaskLengthStable
CHECK_DEADLOCK FALSE
