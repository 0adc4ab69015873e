SPECIFICATION Spec
CONSTANTS
    Emails = {e1}
    NoEmail = NoEmail
    Handlers = {h1, h2}
    Sessions = {s1}
    Machines = {m1}
    Codes = {c1}
    NoCode = NoCode
    MaxUuids = 2
    MaxLinks = 2
    MaxAborts = 1
    MaxFaults = 1
CHECK_DEADLOCK FALSE
INVARIANT VerifiedOnly
INVARIANT NothingLeftBehind
INVARIANT NoZombie
PROPERTY AccountStable
SYMMETRY RequestSymmetry
