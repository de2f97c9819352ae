CONSTANTS
    a1 = a1
    a2 = a2
    a3 = a3
    k1 = k1
    k2 = k2
    p1 = p1
    Texts <- MCTexts
    FP <- MCFP
    Fallback <- MCFallback
    MaxEntries = 2
    MaxCalls = 5
SYMMETRY MCSymmetry
SPECIFICATION Spec
INVARIANTS
    TypeOK
    IndexConsistent
    OneToOne
    MaskIsNoEarlierOriginal
    SameMaskOnceEnrolled
    PassedThroughCounted
PROPERTY
    ImplementsPseudonyms
CHECK_DEADLOCK FALSE
