SPECIFICATION Spec
CONSTANTS
    Proc = {p1}
    Invoice = {i1}
    Letter = {l1, l2}
    Batch = {b1}
    MayFailLetter = TRUE
    None = None
SYMMETRY Symmetries
INVARIANTS NeverTwice SentIsReal LeftIsOnRecord
