---------------------------- MODULE MCAutomation ----------------------------
(* Rules for TLC: a call starts one and four, one starts two, two starts one and four again; three keeps a
   schedule; four is denied. *)
EXTENDS FiringWatch, TLC

CONSTANTS e1

Wires == 1 :> {2} @@ 2 :> {1, 4} @@ 3 :> {} @@ 4 :> {}
EveryOther == 3 :> 2
OnCall == e1 :> {1, 4}
Symmetry == Permutations(Proc)

\* Either the call happens or ticks do: no rule listens to both.
Apart ==
    \/ happened = {}
    \/ day = 1 /\ (\A o \in Claimed : o[1] \in Event) /\ (\A p \in Proc : job[p].kind # "tick")
=============================================================================
