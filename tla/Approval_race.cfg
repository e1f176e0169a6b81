SPECIFICATION Spec
CONSTANTS
    Proc = {p1, p2}
    Row = {1, 2}
    Version = {v1, v2}
    Steps = 2
    Outbound = TRUE
    MemoUnderKey = FALSE
    None = None
SYMMETRY Symmetries
INVARIANTS RejectedNeverRan OneQuestionOneAnswer ExecutedIsReal
PROPERTIES DecisionSpec
