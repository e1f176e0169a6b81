------------------------------ MODULE LockWatch ------------------------------
(***************************************************************************)
(* What the locks of the ledger promise while several processes share it.  *)
(*                                                                         *)
(* The guards of a posting, of reopen_month and of unlock_period read the  *)
(* locks before the transaction, so a lock that lands in between is not    *)
(* seen.  Two histories on top of Ledger say which calls were overtaken    *)
(* that way and what they posted; the promise is that nobody else gets     *)
(* under a lock or through a seal.                                         *)
(***************************************************************************)
EXTENDS Ledger

VARIABLES
    late,    \* the processes past their guards whose period was locked or unlocked since (history)
    strays   \* the entries such a process posted (history)

watched == <<vars, late, strays>>

Bookings == {"post_entry", "reverse_entry"}
Lifts == {"reopen_month", "unlock_period"}

\* The periods whose locks a call's guards looked at.
Concerns(c) == IF c.verb \in Bookings THEN {c.month, YearOf[c.month]} ELSE {c.period}
Overtakes(c) == \E d \in Concerns(c) : lock'[d] # lock[d]

Committing(p, verbs) == call[p].stage = "commit" /\ call[p].c.verb \in verbs
Commits(p, verbs) == Committing(p, verbs) /\ call'[p] # call[p]

WInit == Init /\ late = {} /\ strays = {}

WNext ==
    /\ Next
    /\ late' = {p \in Proc : /\ call'[p].stage = "commit" /\ call[p].stage = "commit"
                             /\ p \in late \/ Overtakes(call[p].c)}
    /\ strays' = IF \E p \in late : Commits(p, Bookings) THEN strays \cup (Posted' \ Posted) ELSE strays

Watched == WInit /\ [][WNext]_watched

-----------------------------------------------------------------------------
(* Properties *)

\* Nothing is posted into a locked period but by a call the lock overtook, and a year's own closing
\* entries; into a closed year not even those.  (previewPostingLines, the period check)
NothingPostedIntoLock ==
    [][\A e \in Entry : (entry[e].status # "posted" /\ entry'[e].status = "posted")
            => LET m == entry'[e].month IN
               IF entry'[e].source = "close" THEN lock[YearOf[m]] # "closed"
               ELSE (lock[m] = "none" /\ lock[YearOf[m]] = "none") \/ e \in strays']_<<entry, strays>>

\* Nothing unlocks a seal but a call that passed its guards before the seal was there: a filed or closed
\* period is filed or closed for good.  (lockPeriod's doc)
SealIsForever ==
    [][\A d \in Period : (lock[d] \in Seals /\ lock'[d] \notin Seals)
            => \E p \in late : Commits(p, Lifts) /\ call[p].c.period = d]_watched

\* A lock means what it says: once the calls that were past their guards when it landed have ended,
\* nothing new gets under it and a seal is never taken off again.  (previewPostingLines, lockPeriod)
LocksHold == NothingPostedIntoLock /\ SealIsForever

\* A closed year stays swept, its result carried once and for all, unless a call that was overtaken by a
\* lock posted into it.  (hardCloseYear's contract)
ClosedStaysSwept ==
    \A y \in Year : lock[y] = "closed" => plNet[y] = 0 \/ \E e \in strays : YearOf[entry[e].month] = y
=============================================================================
