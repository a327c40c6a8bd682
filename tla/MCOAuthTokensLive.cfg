SPECIFICATION Spec
CONSTANTS
    p1 = p1
    p2 = p2
    work = work
    home = home
    r1 = r1
    r2 = r2
    r3 = r3
    NoRefresh = NoRefresh
    Absent = Absent
    Procs <- MCProcs
    Profiles <- MCOneProfile
    RefreshTokens <- MCFewTokens
    MaxAttempts = 2
PROPERTIES
    CommandsEnd
