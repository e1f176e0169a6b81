------------------------------ MODULE FeedRule ------------------------------
(***************************************************************************)
(* The successor rule of an EBICS-fed bank account (banking/ebics/feed.ts):*)
(* which day-end statements the books take, whichever door they come by.   *)
(* A document is a file: two of them may show the same statement (a copy), *)
(* or the same day with other balances.                                    *)
(***************************************************************************)
EXTENDS Integers

CONSTANTS
    Doc,    \* the statement files
    Data    \* what each of them says

Position == [year : Nat, number : Nat]

ASSUME FeedAssumptions ==
    Data \in [Doc -> [pos : Position, opening : Int, closing : Int, from : Nat, to : Nat, dayEnd : BOOLEAN]]

Pos(d) == Data[d].pos
Earlier(a, b) == a.year < b.year \/ (a.year = b.year /\ a.number < b.number)
Adjacent(a, b) == a.year = b.year /\ b.number = a.number + 1
SameDay(d, e) == Pos(d) = Pos(e)
SameBalances(d, e) == Data[d].opening = Data[e].opening /\ Data[d].closing = Data[e].closing

Below(d, book) == {b \in book : Earlier(Pos(b), Pos(d))}
Above(d, book) == {b \in book : Earlier(Pos(d), Pos(b))}
\* The nearest statement of the book below and above a position.
IsLower(b, d, book) == b \in Below(d, book) /\ \A c \in Below(d, book) : ~Earlier(Pos(b), Pos(c))
IsHigher(b, d, book) == b \in Above(d, book) /\ \A c \in Above(d, book) : ~Earlier(Pos(c), Pos(b))

OpensOn(d, lower) == Data[lower].closing = Data[d].opening
StartsInTime(d, newest) == Data[d].from >= Data[newest].to
ClosesOn_never(d, higher) == TRUE
ClosesOn(d, higher) == Adjacent(Pos(d), Pos(higher)) => Data[higher].opening = Data[d].closing

Present_file(d, book) == d \in book
Present(d, book) == \E b \in book : SameDay(b, d)
Known(d, book) == \E b \in book : SameDay(b, d) /\ SameBalances(b, d)

\* Rule 2: the first statement of the books, or one above the newest that chains to it.
Succeeds(d, book) ==
    /\ Above(d, book) = {}
    /\ \A b \in book : IsLower(b, d, book) => OpensOn(d, b) /\ StartsInTime(d, b)
\* Rule 3: a missing one between two others.
FillsHole(d, book) ==
    /\ Below(d, book) # {} /\ Above(d, book) # {}
    /\ \A b \in book : /\ IsLower(b, d, book) => OpensOn(d, b)
                       /\ IsHigher(b, d, book) => ClosesOn(d, b)
Imports(d, book) == ~Present(d, book) /\ (Succeeds(d, book) \/ FillsHole(d, book))

Final == {"imported", "already_imported", "overlap_refused"}
Pending == {"not_day_end_statement", "before_feed_start", "gap_refused"}

decideSuccessor_day(d, book) ==
    IF ~Data[d].dayEnd THEN "not_day_end_statement"
    ELSE IF Present(d, book) THEN "already_imported"
    ELSE IF Imports(d, book) THEN "imported"
    ELSE IF Below(d, book) = {} THEN "before_feed_start"
    ELSE "gap_refused"
decideSuccessor(d, book) ==
    IF ~Data[d].dayEnd THEN "not_day_end_statement"
    ELSE IF Known(d, book) THEN "already_imported"
    ELSE IF Present(d, book) THEN "overlap_refused"
    ELSE IF Imports(d, book) THEN "imported"
    ELSE IF Below(d, book) = {} THEN "before_feed_start"
    ELSE "gap_refused"
=============================================================================
