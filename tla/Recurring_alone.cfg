SPECIFICATION Spec
CONSTANTS
    Proc = {p1}
    Last = 3
    AutoIssue = TRUE
    Terms = TRUE
INVARIANTS PeriodsAccounted BillsOwnOnce
CHECK_DEADLOCK FALSE
