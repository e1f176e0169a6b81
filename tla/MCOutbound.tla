----------------------------- MODULE MCOutbound -----------------------------
EXTENDS Outbound, TLC

Symmetries == Permutations(Proc) \cup Permutations(Letter)
=============================================================================
