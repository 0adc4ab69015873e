SPECIFICATION Spec
CONSTANTS
    c1 = c1
    c2 = c2
    k1 = k1
    k2 = k2
    k3 = k3
    a1 = a1
    a2 = a2
    Codes = {c1, c2}
    OwnerOf <- MCOwnerOf
    KeysOf <- MCKeysOf
    Names = {n1, n2}
    Keys = {k1, k2, k3}
    NoKey = NoKey
    NoName = NoName
    NoCode = NoCode
    NoOwner = NoOwner
    Reqs = {r1}
    MaxTokens = 2
    MaxAborts = 0
CHECK_DEADLOCK FALSE
PROPERTY OnlyItsBoxRotates
