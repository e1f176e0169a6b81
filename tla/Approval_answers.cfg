SPECIFICATION FairSpec
CONSTANTS
    Proc = {p1, p2}
    Row = {1}
    Version = {v1, v2}
    Steps = 2
    Outbound = TRUE
    MemoUnderKey = FALSE
    None = None
PROPERTIES CallsEnd

