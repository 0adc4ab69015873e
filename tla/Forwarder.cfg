SPECIFICATION FairSpec
CONSTANTS
    Static = {s1}
    Live = {l1}
    NoForward = NoForward
    Callers = {a1, a2}
    Conns = {x1, x2}
    MaxFaults = 1
CHECK_DEADLOCK FALSE
INVARIANT DrainedIsQuiet
INVARIANT CountsRelays
INVARIANT TableIsTrue
PROPERTY Stops
