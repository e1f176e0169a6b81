----------------------------- MODULE MCApproval -----------------------------
EXTENDS Approval, TLC

Symmetries == Permutations(Proc) \cup Permutations(Version)
=============================================================================
