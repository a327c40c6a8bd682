SPECIFICATION Spec
CONSTANTS
    p1 = p1
    p2 = p2
    s1 = s1
    s2 = s2
    Procs <- MCProcs
    Sessions <- MCSessions
    MaxAttempts = 2
SYMMETRY MCSymmetry
INVARIANTS
    TypeOK
    SettledIsFinal
PROPERTIES
    FollowsLifecycle
