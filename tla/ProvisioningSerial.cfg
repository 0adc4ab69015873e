SPECIFICATION FairSpec
CONSTANTS
    n1 = n1
    n2 = n2
    k1 = k1
    k2 = k2
    k3 = k3
    Names = {n1, n2}
    Keys = {k1, k2, k3}
    KeysOf <- OwnKeys
    NoKey = NoKey
    NoName = NoName
    Reqs = {r1, r2}
    Capacity = 3
    MaxCounter = 4
    Overlap = {}
    MaxCrashes = 2
    MaxFaults = 1
    MaxAborts = 1
INVARIANTS
    NoOrphanListener
    IndexedIsWired
PROPERTIES
    EventuallyWired
