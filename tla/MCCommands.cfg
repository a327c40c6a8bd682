SPECIFICATION Spec
CONSTANTS
    k1 = k1
    k2 = k2
    s1 = s1
    s2 = s2
    p1 = p1
    p2 = p2
    None = None
    Keys <- MCKeys
    Sessions <- MCSessions
    Profiles <- MCProfiles
SYMMETRY MCSymmetry
INVARIANTS
    TypeOK
    NothingElseSpentInVain
    ReadyMeansRunnable
PROPERTIES
    StoresSurviveKeyChange
