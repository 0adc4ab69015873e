SPECIFICATION Spec
CONSTANTS
    c1 = c1
    None = None
    Static = Static
    Codes = {c1}
    Configs <- MCConfigs
    MaxPolls = 1
    MaxFaults = 3
    MaxTokens = 5
INVARIANTS
    EnrollsOnce
    KnownKeyIsStored
    TunnelIsUp
    TokenIsCurrent
PROPERTIES
    ApprovedBoxEnrolls
    ClaimEnds
