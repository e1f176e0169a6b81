SPECIFICATION Watched
CONSTANTS
    Proc = {p1, p2}
    e1 = e1
    Event = {e1}
    Rule = {1, 2, 3, 4}
    Listens <- OnCall
    Triggers <- Wires
    Every <- EveryOther
    Denied = {4}
    Sends = {}
    Bare = {1, 3}
    Switched = {3}
    MaxDepth = 2
    MaxDay = 3
    MaxFaults = 1
SYMMETRY Symmetry
INVARIANTS ActsOnce RunLogTrue CascadeHolds SchedulesKept
PROPERTIES SettledStands
CONSTRAINT Apart
