SPECIFICATION Spec
SYMMETRY HandlerSymmetry
CONSTANTS
    n1 = n1
    n2 = n2
    k1 = k1
    k2 = k2
    k3 = k3
    Names = {n1, n2}
    Keys = {k1, k2}
    KeysOf <- SharedKeys
    NoKey = NoKey
    NoName = NoName
    Reqs = {r1, r2}
    Capacity = 3
    MaxCounter = 3
    Overlap = {{"alloc"}, {"delete"}, {"alloc", "delete"}}
    MaxCrashes = 1
    MaxFaults = 1
    MaxAborts = 0
INVARIANTS
    NoSharedIndex
    TunnelIsolation
PROPERTIES
    ImplementsRegistry
