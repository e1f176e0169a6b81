---------------------------- MODULE MCGeneration -----------------------------
(* An instance of Generation for TLC: two releases of TILL, the older one running twice. *)
EXTENDS Generation, TLC

CONSTANTS p1, p2, p3

MCBuild == [p \in Proc |-> IF p = p3 THEN 2 ELSE 1]
=============================================================================
