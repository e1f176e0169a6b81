---------------------------- MODULE MCLockWatch ----------------------------
(* LockWatch on the instance of MCLedger. *)
EXTENDS MCLedger, LockWatch

\* Locks of every strength, on the month and by closing the year, against one posting.
LockCalls ==
    {Post(k1, NoEntry, m1, 1, 0), Lock("close_year", k1, y1), Lock("reopen_month", k1, m1),
     [Lock("lock_period", k1, m1) EXCEPT !.kind = "hard"], Lock("unlock_period", k1, m1),
     Lock("lock_period_sealed", k1, m1)}
=============================================================================
