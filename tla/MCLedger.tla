------------------------------ MODULE MCLedger ------------------------------
(* Instances of Ledger for TLC: one fiscal year of two months, and a handful of calls per run. *)
EXTENDS Ledger, TLC

CONSTANTS p1, p2, k1, k2, m1, m2, y1

MCYearOf == [m \in Month |-> y1]
MCLastMonth == [y \in Year |-> m2]
Symmetry == Permutations(Proc)

Blank == [verb |-> "post_entry", key |-> k1, entry |-> NoEntry, month |-> m1,
          period |-> m1, kind |-> "soft", pl |-> 0, carry |-> 0]
Post(k, e, m, pl, carry) == [Blank EXCEPT !.key = k, !.entry = e, !.month = m, !.pl = pl, !.carry = carry]
Reverse(k, e, m) == [Blank EXCEPT !.verb = "reverse_entry", !.key = k, !.entry = e, !.month = m]
Draft(verb, k, e) == [Blank EXCEPT !.verb = verb, !.key = k, !.entry = e]
Lock(verb, k, d) == [Blank EXCEPT !.verb = verb, !.key = k, !.period = d]

\* Everything that books: two meanings of one key, a draft saved, replaced, promoted and deleted, two
\* reversals racing for one entry, the year's closing with a stray 2979 booking to carry, and a lock on
\* the month it is carried in.
BookCalls ==
    {Post(k1, NoEntry, m1, 1, 0), Post(k1, 1, m2, -2, 1),
     Draft("save_draft", k1, NoEntry), Draft("save_draft", k2, 1), Draft("delete_draft", k1, 1),
     Reverse(k1, 1, m2), Reverse(k2, 1, m2), Lock("close_year", k1, y1), Lock("close_month", k1, m2)}
=============================================================================
