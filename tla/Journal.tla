------------------------------ MODULE Journal -------------------------------
(***************************************************************************)
(* What the ledger promises the owner of the books, with no processes, no  *)
(* calls in flight and no transactions: a journal that only grows, one act *)
(* at a time, in which a key books once, an entry is reversed at most once *)
(* and exactly, and the closing entries of a year arrive in one step.      *)
(***************************************************************************)
EXTENDS Integers

CONSTANTS Entry, Month, Key

VARIABLE journal  \* the posted entries, as rows that carry their id

Rows == [id : Entry, source : {"manual", "reversal", "close"}, month : Month,
         reverses : Entry \cup {0}, key : Key, pl : Int, carry : Int]

Init == journal = {}

\* The rows of the step are new ids, and nothing booked before is touched.
Appends(new) ==
    /\ journal' = journal \cup new
    /\ new \subseteq Rows
    /\ \A r \in new, s \in journal : r.id # s.id

\* An ordinary booking, under a key that booked nothing before.
Book ==
    \E r \in journal' \ journal :
        /\ Appends({r})
        /\ r.source = "manual" /\ r.reverses = 0
        /\ \A s \in journal : s.source = "manual" => s.key # r.key

\* The exact opposite of an entry nobody has reversed.
Reverse ==
    \E r \in journal' \ journal, t \in journal :
        /\ Appends({r})
        /\ r.source = "reversal" /\ r.reverses = t.id
        /\ r.pl = -t.pl /\ r.carry = -t.carry
        /\ \A s \in journal : s.reverses # t.id

\* The sweep and the carry of one year's close, together or not at all.
Close ==
    \E sweep, carried \in journal' \ journal :
        /\ Appends({sweep, carried})
        /\ \A r \in {sweep, carried} :
             r.source = "close" /\ r.reverses = 0 /\ r.key = sweep.key /\ r.month = sweep.month
        /\ carried.pl \in {0, sweep.pl}

Next == Book \/ Reverse \/ Close

Spec == Init /\ [][Next]_journal
=============================================================================
