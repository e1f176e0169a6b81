SPECIFICATION Watched
CONSTANTS
    Proc = {p1}
    e1 = e1
    Event = {e1}
    Rule = {1, 2, 3, 4}
    Listens <- OnCall
    Triggers <- Wires
    Every <- EveryOther
    Denied = {4}
    Sends = {1}
    Bare = {}
    Switched = {3}
    MaxDepth = 1
    MaxDay = 2
    MaxFaults = 1
INVARIANTS LeavesOnce
