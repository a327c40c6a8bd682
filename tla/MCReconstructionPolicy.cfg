SPECIFICATION Spec
CHECK_DEADLOCK FALSE
INVARIANTS
    TypeOK
    FailClosed
    ProfileHonoured
    ErrorNamesRemedy
PROPERTIES
    RightsMonotone
