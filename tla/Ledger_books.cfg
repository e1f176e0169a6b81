SPECIFICATION Spec
CONSTANTS
    p1 = p1
    p2 = p2
    k1 = k1
    k2 = k2
    m1 = m1
    m2 = m2
    y1 = y1
    None = None
    Proc = {p1, p2}
    Entry = {1,2,3}
    Month = {m1, m2}
    Year = {y1}
    Key = {k1, k2}
    YearOf <- MCYearOf
    LastMonth <- MCLastMonth
    Calls <- BookCalls
    MayUnlockHard = TRUE
SYMMETRY Symmetry
INVARIANTS BooksOnce AnswersHold
PROPERTIES JournalSpec ClosedSwept
