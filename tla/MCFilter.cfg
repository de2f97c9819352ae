SPECIFICATION FairSpec
INVARIANTS
    TypeOK
    UnmaskedOnlyIfMasked
    UnmaskedUnlessExcused
    ResponseRulesApplied
    LeftAlone
PROPERTY
    HandlersEnd
CHECK_DEADLOCK FALSE
