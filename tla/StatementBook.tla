--------------------------- MODULE StatementBook ---------------------------
(***************************************************************************)
(* What the feed of a bank account promises, whoever syncs and whatever    *)
(* fails: files are put on file and stay; the books take one day at a      *)
(* time, never a second time, and only where it joins its neighbours; the  *)
(* bank is told a file is fetched only when it is on file.                 *)
(***************************************************************************)
EXTENDS FeedRule

VARIABLES onFile, booked, fetched

Init == onFile = {} /\ booked = {} /\ fetched = {}

Joins(d) ==
    \A e \in booked : /\ ~SameDay(d, e)
                      /\ Adjacent(Pos(e), Pos(d)) => Data[e].closing = Data[d].opening
                      /\ Adjacent(Pos(d), Pos(e)) => Data[d].closing = Data[e].opening

File == \E S \in SUBSET Doc : onFile' = onFile \cup S /\ UNCHANGED <<booked, fetched>>
Book == \E d \in Doc : Joins(d) /\ booked' = booked \cup {d} /\ UNCHANGED <<onFile, fetched>>
Tell == \E S \in SUBSET onFile : fetched' = fetched \cup S /\ UNCHANGED <<onFile, booked>>

Next == File \/ Book \/ Tell
Spec == Init /\ [][Next]_<<onFile, booked, fetched>>

-----------------------------------------------------------------------------
\* A day is in the books once, whichever doors and copies it came by.  ("a camt.053 cannot count twice")
OncePerDay == \A d, e \in booked : SameDay(d, e) => d = e

\* Two statements with successive numbers join without a seam, in whatever order they were imported.
\* (the successor rule, with its hole filler)
Chained == \A d, e \in booked : Adjacent(Pos(d), Pos(e)) => Data[d].closing = Data[e].opening
=============================================================================
