---------------------------- MODULE MCEbicsSync ----------------------------
(* Four files for TLC: three days, the second without movement, so that the third chains to the first as
   well; and the second once more, re-cut with other balances, which only the owner has. *)
EXTENDS EbicsSync, TLC

Day(n, from, opening, closing) ==
    [pos |-> [year |-> 1, number |-> n], opening |-> opening, closing |-> closing,
     from |-> from, to |-> from + 1, dayEnd |-> TRUE]

Files == 1 :> Day(1, 1, 0, 1) @@ 2 :> Day(2, 2, 1, 1) @@ 3 :> Day(3, 3, 1, 2) @@ 4 :> Day(2, 2, 1, 2)
Symmetry == Permutations(Proc)
=============================================================================
