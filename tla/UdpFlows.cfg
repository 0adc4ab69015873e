SPECIFICATION UdpFairSpec
CONSTANTS
    Sources = {s1, s2}
    Flows = {f1, f2}
    NoSource = NoSource
    NoFlow = NoFlow
    Idle = 1
CHECK_DEADLOCK FALSE
INVARIANT CountsFlows
INVARIANT EntryHasRelay
INVARIANT RemovesOwnEntry
PROPERTY IdleFlowEnds
PROPERTY StopEndsAll
