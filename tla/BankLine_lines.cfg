SPECIFICATION Spec
CONSTANTS
    Proc = {p1, p2}
    Line = {1, 2, 3}
    Key = {1, 2, 3, 4, 5, 6}
    Hand = {7}
    AccountOf <- Accounts
    LineOf <- KeyLine
    SeatOf <- KeySeat
    Kind <- KeyKind
    Legs <- EntryLegs
    Target <- Named
    Asked = {1, 2}
    Ruled = {1}
    None = None
SYMMETRY Symmetries
INVARIANTS OneHolder LineIsLedger TransferOnce DraftsAreQuestions RefusedNeverBooked
PROPERTIES AnswersStand
CHECK_DEADLOCK FALSE
