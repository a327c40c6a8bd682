SPECIFICATION Spec
CONSTANTS
    p1 = p1
    p2 = p2
    work = work
    home = home
    r1 = r1
    r2 = r2
    r3 = r3
    NoRefresh = NoRefresh
    Absent = Absent
    Procs <- MCProcs
    Profiles <- MCProfiles
    RefreshTokens <- MCRefreshTokens
    MaxAttempts = 2
SYMMETRY MCSymmetry
INVARIANTS
    TypeOK
    CredentialLive
    QuietLogoutIsFinal
PROPERTIES
    RefreshabilityKept
    ImplementsRegister
