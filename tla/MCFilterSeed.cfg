SPECIFICATION Spec
INVARIANT
    MasksVaryAcrossRequests
CHECK_DEADLOCK FALSE
