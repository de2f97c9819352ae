SPECIFICATION Spec
INVARIANT
    ResponseNeverLost
CHECK_DEADLOCK FALSE
