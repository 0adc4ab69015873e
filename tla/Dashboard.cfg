SPECIFICATION Spec
CONSTANTS
    Services <- MCServices
    Users <- MCUsers
    Files <- MCFiles
    Forms <- MCForms
    Urls = {u1}
    Reqs = {r1, r2}
    Tokens = {t1, t2}
    NoToken = NoToken
    SessionTtl = 1
    CacheTtl = 1
    MaxProbes = 1
    MaxRequests = 3
    MaxHands = 1
    MaxFaults = 1
    MaxClock = 2
INVARIANTS
    FileStaysNix
    SaveIsExact
    DotIsRecent
PROPERTIES
    SavedIsShown
    GateHolds
CHECK_DEADLOCK FALSE
SYMMETRY RequestSymmetry
