SPECIFICATION FairSpec
CONSTANTS
    Doc = {1, 2, 3, 4}
    Data <- Files
    Proc = {p1, p2}
    Issued = {1, 2}
    ByHand = {3, 4}
    MaxFaults = 1
INVARIANTS AckedOnFile FinalIsTrue OneFreshSync
PROPERTIES KeepsItsPromise DaysArrive
