SPECIFICATION Spec
CONSTANTS
    Proc = {p1}
    Row = {1, 2, 3}
    Version = {v1, v2, v3}
    Steps = 2
    Outbound = TRUE
    MemoUnderKey = TRUE
    None = None
SYMMETRY Symmetries
PROPERTIES RunsWhatWasApproved

