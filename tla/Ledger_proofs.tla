--------------------------- MODULE Ledger_proofs ----------------------------
(* Theorems about Ledger, for every set of processes, entries, periods, keys and calls. *)
EXTENDS LockWatch, TLAPS

-----------------------------------------------------------------------------
(* Types *)

\* A row nobody wrote is a row.
LEMMA NoRowIsRow == NoRow \in EntryRecords
BY LedgerAssumptions DEF NoRow, EntryRecords, NoEntry

\* A call sent is a record of the documented fields.
LEMMA CallFields ==
    ASSUME NEW c \in Calls
    PROVE  /\ c.verb \in Verbs /\ c.key \in Key /\ c.month \in Month /\ c.period \in Period
           /\ c.entry \in Entry \cup {NoEntry} /\ c.kind \in {"soft", "hard"}
           /\ c.pl \in Int /\ c.carry \in Int
           /\ YearOf[c.month] \in Year
           /\ c.verb = "close_year" => c.period \in Year /\ LastMonth[c.period] \in Month
           /\ c.verb \in {"reverse_entry", "delete_draft"} => c.entry \in Entry
BY LedgerAssumptions DEF CallRecords

\* The states a process can be put in.
LEMMA CallStatesMade ==
    /\ Idle \in CallStates /\ Idle.stage = "idle"
    /\ \A c \in Calls : Checking(c) \in CallStates /\ Checking(c).c = c
    /\ \A c \in Calls, a \in Entry \cup {NoEntry} : Answering(c, a) \in CallStates /\ Answering(c, a).c = c
    /\ \A s \in {"period", "commit"}, c \in Calls, n \in Int, l \in LockStates :
         At(s, c, n, l, NoEntry) \in CallStates /\ At(s, c, n, l, NoEntry).c = c
BY DEF Idle, Checking, Answering, At, CallStates, LockStates, NoEntry

\* A call in flight is one that was sent.
LEMMA InFlight ==
    ASSUME TypeOK, NEW p \in Proc, call[p].stage # "idle"
    PROVE  call[p].c \in Calls /\ call[p].net \in Int /\ call[p].seen \in LockStates
             /\ call[p].ans \in Entry \cup {NoEntry}
BY DEF TypeOK, CallStates

\* A step of one process that moves its own call and writes nothing keeps every type.
LEMMA CallStep ==
    ASSUME TypeOK, NEW p \in Proc, NEW r \in CallStates, r.stage # "idle" => r.c \in Calls,
           Goes(p, r), UNCHANGED <<db, answered>>
    PROVE  TypeOK'
BY DEF TypeOK, db, books, Goes

\* The bookkeeping of a transaction keeps the types of what it writes.
LEMMA RemembersTypes ==
    ASSUME TypeOK, NEW p \in Proc, call[p].stage = "commit", NEW a \in Entry \cup {NoEntry}, Remembers(p, a)
    PROVE  /\ memo' \subseteq [by : Calls, answer : Entry \cup {NoEntry}]
           /\ spent' \subseteq Calls
           /\ call' \in [Proc -> CallStates]
           /\ \A q \in Proc : call'[q].stage # "idle" => call'[q].c \in Calls
           /\ answered' \subseteq [by : Calls, answer : Entry \cup {NoEntry}]
<1>1. call[p].c \in Calls
  BY InFlight
<1> QED BY <1>1, CallStatesMade DEF Remembers, Goes, TypeOK

\* So do the sums.
LEMMA SumsTypes ==
    ASSUME TypeOK, NEW y \in Year, NEW pl \in Int, NEW native \in Int, NEW carry \in Int,
           Sums(y, pl, native, carry)
    PROVE  plNet' \in [Year -> Int] /\ plNative' \in [Year -> Int] /\ bal2979' \in Int
BY DEF Sums, TypeOK

\* A lock verb leaves a lock.
LEMMA RelockedIsLock ==
    ASSUME NEW c \in Calls, NEW seen, NEW held \in LockStates,
           c.verb \in {"close_month", "reopen_month", "lock_period", "lock_period_sealed", "unlock_period"}
    PROVE  Relocked(c, seen, held) \in LockStates
<1>1. c.kind \in {"soft", "hard"}
  BY CallFields
<1>2. CASE c.verb = "close_month"
  BY <1>2 DEF Relocked, LockStates
<1>3. CASE c.verb = "reopen_month"
  BY <1>3 DEF Relocked, LockStates
<1>4. CASE c.verb = "lock_period"
  BY <1>1, <1>4 DEF Relocked, LockStates
<1>5. CASE c.verb = "lock_period_sealed"
  BY <1>5 DEF Relocked, LockStates
<1>6. CASE c.verb = "unlock_period"
  BY <1>6 DEF Relocked, LockStates
<1> QED BY <1>2, <1>3, <1>4, <1>5, <1>6

\* The types survive every step of every process.
LEMMA TypeStep == TypeOK /\ [Next]_vars => TypeOK'
<1> SUFFICES ASSUME TypeOK, [Next]_vars PROVE TypeOK'
  OBVIOUS
<1>1. ASSUME NEW p \in Proc, NEW c \in Calls, Begin(p, c) PROVE TypeOK'
  BY <1>1, CallStatesMade, CallStep DEF Begin
<1>2. ASSUME NEW p \in Proc, Replay(p) PROVE TypeOK'
  <2>1. call[p].c \in Calls
    BY <1>2, InFlight DEF Replay
  <2>2. \A a \in Replays(call[p].c) : a \in Entry \cup {NoEntry}
    BY DEF Replays, ReversalsOf, Posted, Recalled, TypeOK
  <2> QED BY <1>2, <2>1, <2>2, CallStatesMade, CallStep DEF Replay
<1>3. ASSUME NEW p \in Proc, Check(p) PROVE TypeOK'
  <2>1. call[p].c \in Calls /\ call[p].c.period \in Period
    BY <1>3, InFlight, CallFields DEF Check
  <2> DEFINE c == call[p].c
             s == IF c.verb \in {"post_entry", "reverse_entry"} THEN "period" ELSE "commit"
             n == IF c.verb = "close_year" THEN plNative[c.period] ELSE 0
             l == IF c.verb = "unlock_period" THEN lock[c.period] ELSE "none"
  <2>2. n \in Int
    BY <2>1, CallFields DEF TypeOK
  <2>3. l \in LockStates
    BY <2>1 DEF TypeOK, LockStates
  <2>4. s \in {"period", "commit"}
    OBVIOUS
  <2>5. Goes(p, At(s, c, n, l, NoEntry)) /\ UNCHANGED <<db, answered>>
    BY <1>3 DEF Check
  <2> HIDE DEF s, n, l
  <2> QED BY <2>1, <2>2, <2>3, <2>4, <2>5, CallStatesMade, CallStep
<1>4. ASSUME NEW p \in Proc, CheckPeriod(p) PROVE TypeOK'
  <2>1. call[p].c \in Calls
    BY <1>4, InFlight DEF CheckPeriod
  <2>2. "none" \in LockStates /\ 0 \in Int
    BY DEF LockStates
  <2> QED BY <1>4, <2>1, <2>2, CallStatesMade, CallStep DEF CheckPeriod
<1>5. ASSUME NEW p \in Proc, Refuse(p) \/ RollBack(p) \/ Crash(p) PROVE TypeOK'
  BY <1>5, CallStatesMade, CallStep DEF Refuse, RollBack, Crash
<1>6. ASSUME NEW p \in Proc, ReplayLate(p) PROVE TypeOK'
  <2>1. call[p].c \in Calls
    BY <1>6, InFlight DEF ReplayLate
  <2>2. \A m \in Recalled(call[p].c) : m.answer \in Entry \cup {NoEntry}
    BY DEF Recalled, TypeOK
  <2> QED BY <1>6, <2>1, <2>2, CallStatesMade, CallStep DEF ReplayLate
<1>7. ASSUME NEW p \in Proc, Answer(p) PROVE TypeOK'
  <2>1. call[p].c \in Calls /\ call[p].ans \in Entry \cup {NoEntry}
    BY <1>7, InFlight DEF Answer
  <2> QED BY <1>7, <2>1, CallStatesMade DEF Answer, Goes, TypeOK, db, books
<1>8. ASSUME NEW p \in Proc, CommitPost(p) PROVE TypeOK'
  <2> DEFINE c == call[p].c
  <2>1. c \in Calls /\ call[p].stage = "commit"
    BY <1>8, InFlight DEF CommitPost, MayCommit
  <2>2. PICK e \in Entry :
          /\ entry' = [entry EXCEPT ![e] =
              [status |-> "posted", source |-> "manual", month |-> c.month, reverses |-> NoEntry,
               key |-> c.key, pl |-> c.pl, carry |-> c.carry]]
          /\ Remembers(p, e)
    BY <1>8 DEF CommitPost
  <2>3. entry' \in [Entry -> EntryRecords]
    BY <2>1, <2>2, CallFields DEF TypeOK, EntryRecords
  <2>4. plNet' \in [Year -> Int] /\ plNative' \in [Year -> Int] /\ bal2979' \in Int
    BY <1>8, <2>1, CallFields, SumsTypes DEF CommitPost
  <2>5. lock' \in [Period -> LockStates]
    BY <1>8 DEF CommitPost, TypeOK
  <2> QED BY <2>1, <2>2, <2>3, <2>4, <2>5, RemembersTypes DEF TypeOK
<1>9. ASSUME NEW p \in Proc, CommitReverse(p) PROVE TypeOK'
  <2> DEFINE c == call[p].c
             t == entry[c.entry]
  <2>1. c \in Calls /\ call[p].stage = "commit" /\ c.entry \in Entry
    BY <1>9, InFlight, CallFields DEF CommitReverse, MayCommit
  <2>2. PICK e \in Entry :
          /\ entry' = [entry EXCEPT ![e] =
              [status |-> "posted", source |-> "reversal", month |-> c.month, reverses |-> c.entry,
               key |-> c.key, pl |-> -t.pl, carry |-> -t.carry]]
          /\ Remembers(p, e)
    BY <1>9 DEF CommitReverse
  <2>3. t.pl \in Int /\ t.carry \in Int /\ -t.pl \in Int /\ -t.carry \in Int
    BY <2>1 DEF TypeOK, EntryRecords
  <2>4. entry' \in [Entry -> EntryRecords]
    BY <2>1, <2>2, <2>3, CallFields DEF TypeOK, EntryRecords
  <2>5. plNet' \in [Year -> Int] /\ plNative' \in [Year -> Int] /\ bal2979' \in Int
    <3>1. Sums(YearOf[c.month], -t.pl, -t.pl, -t.carry)
      BY <1>9 DEF CommitReverse
    <3> HIDE DEF t
    <3> QED BY <3>1, <2>1, <2>3, CallFields, SumsTypes
  <2>6. lock' \in [Period -> LockStates]
    BY <1>9 DEF CommitReverse, TypeOK
  <2> QED BY <2>1, <2>2, <2>4, <2>5, <2>6, RemembersTypes DEF TypeOK
<1>10. ASSUME NEW p \in Proc, CommitDraft(p) PROVE TypeOK'
  <2> DEFINE c == call[p].c
  <2>1. c \in Calls /\ call[p].stage = "commit"
    BY <1>10, InFlight DEF CommitDraft, MayCommit
  <2>2. PICK e \in Entry :
          /\ entry' = [entry EXCEPT ![e] =
              [status |-> "draft", source |-> "manual", month |-> c.month, reverses |-> NoEntry,
               key |-> c.key, pl |-> c.pl, carry |-> c.carry]]
          /\ Remembers(p, e)
    BY <1>10 DEF CommitDraft
  <2>3. entry' \in [Entry -> EntryRecords]
    BY <2>1, <2>2, CallFields DEF TypeOK, EntryRecords
  <2>4. UNCHANGED <<plNet, plNative, bal2979, lock>>
    BY <1>10 DEF CommitDraft
  <2> QED BY <2>1, <2>2, <2>3, <2>4, RemembersTypes DEF TypeOK
<1>11. ASSUME NEW p \in Proc, CommitDelete(p) PROVE TypeOK'
  <2>1. call[p].c \in Calls /\ call[p].stage = "commit" /\ call[p].c.entry \in Entry
    BY <1>11, InFlight, CallFields DEF CommitDelete, MayCommit
  <2>2. entry' \in [Entry -> EntryRecords]
    BY <1>11, <2>1 DEF CommitDelete, TypeOK, EntryRecords
  <2>3. Remembers(p, NoEntry) /\ UNCHANGED <<plNet, plNative, bal2979, lock>>
    BY <1>11 DEF CommitDelete
  <2> QED BY <2>1, <2>2, <2>3, RemembersTypes DEF TypeOK
<1>12. ASSUME NEW p \in Proc, CommitLock(p) PROVE TypeOK'
  <2> DEFINE c == call[p].c
  <2>1. /\ c \in Calls /\ call[p].stage = "commit" /\ c.period \in Period
        /\ c.verb \in {"close_month", "reopen_month", "lock_period", "lock_period_sealed", "unlock_period"}
    BY <1>12, InFlight, CallFields DEF CommitLock, MayCommit
  <2>2. lock[c.period] \in LockStates
    BY <2>1 DEF TypeOK
  <2>3. Relocked(c, call[p].seen, lock[c.period]) \in LockStates
    BY <2>1, <2>2, RelockedIsLock
  <2>4. lock' \in [Period -> LockStates]
    BY <1>12, <2>1, <2>3 DEF CommitLock, TypeOK
  <2>5. Remembers(p, NoEntry) /\ UNCHANGED <<entry, plNet, plNative, bal2979>>
    BY <1>12 DEF CommitLock, books
  <2> QED BY <2>1, <2>4, <2>5, RemembersTypes DEF TypeOK
<1>13. ASSUME NEW p \in Proc, CommitClose(p) PROVE TypeOK'
  <2> DEFINE c == call[p].c
             net == call[p].net
             carry == bal2979 + net
  <2>1. /\ c \in Calls /\ call[p].stage = "commit" /\ net \in Int /\ c.key \in Key
        /\ c.period \in Year /\ LastMonth[c.period] \in Month
    BY <1>13, InFlight, CallFields DEF CommitClose, MayCommit
  <2>2. bal2979 \in Int /\ carry \in Int /\ -net \in Int /\ -carry \in Int /\ -bal2979 \in Int
    BY <2>1 DEF TypeOK
  <2>3. CloseRow(c, -net, net) \in EntryRecords /\ CloseRow(c, 0, -carry) \in EntryRecords
    BY <2>1, <2>2 DEF CloseRow, EntryRecords, NoEntry
  <2>4. PICK sweep \in Entry \cup {NoEntry}, carried \in Entry \cup {NoEntry} :
          /\ entry' = [e \in Entry |-> CASE e = sweep -> CloseRow(c, -net, net)
                                        [] e = carried -> CloseRow(c, 0, -carry)
                                        [] OTHER -> entry[e]]
          /\ Remembers(p, sweep)
    BY <1>13 DEF CommitClose
  <2>5. entry' \in [Entry -> EntryRecords]
    <3>1. \A e \in Entry : entry[e] \in EntryRecords
      BY DEF TypeOK
    <3> HIDE DEF c, net, carry
    <3> QED BY <2>3, <2>4, <3>1
  <2>6. plNet' \in [Year -> Int] /\ plNative' \in [Year -> Int] /\ bal2979' \in Int
    <3>1. Sums(c.period, -net, 0, -bal2979)
      BY <1>13 DEF CommitClose
    <3> QED BY <3>1, <2>1, <2>2, SumsTypes
  <2>7. lock' \in [Period -> LockStates]
    BY <1>13 DEF CommitClose, TypeOK, LockStates
  <2> QED BY <2>1, <2>4, <2>5, <2>6, <2>7, RemembersTypes DEF TypeOK
<1>14. CASE UNCHANGED vars
  BY <1>14 DEF vars, db, books, TypeOK
<1> QED
  BY <1>1, <1>2, <1>3, <1>4, <1>5, <1>6, <1>7, <1>8, <1>9, <1>10, <1>11, <1>12, <1>13, <1>14 DEF Next, Commit

\* An empty book is well typed.
LEMMA TypeInit == Init => TypeOK
<1> SUFFICES ASSUME Init PROVE TypeOK
  OBVIOUS
<1>1. entry \in [Entry -> EntryRecords]
  BY NoRowIsRow DEF Init
<1>2. call \in [Proc -> CallStates] /\ \A p \in Proc : call[p].stage = "idle"
  BY CallStatesMade DEF Init
<1> QED BY <1>1, <1>2 DEF Init, TypeOK, LockStates

\* Every variable keeps its type, through every step of every process and every crash.
THEOREM TypeCorrect == Spec => []TypeOK
BY TypeInit, TypeStep, PTL DEF Spec

-----------------------------------------------------------------------------
(* What each transaction does to the journal, and that nothing else does anything *)

\* No entry has the id of no entry, and a free id carries nothing.
LEMMA FreeIds ==
    ASSUME NEW e, NEW used, NextId(e, used)
    PROVE  e \in Entry \ used /\ e # NoEntry /\ entry[e].status = "none" /\ e \notin Posted
BY LedgerAssumptions DEF NextId, NoEntry, Posted

\* Only the committed transaction of a verb that books, replaces or deletes touches an entry.
LEMMA EntryStep ==
    ASSUME [Next]_vars
    PROVE  \/ UNCHANGED <<entry, memo>>
           \/ memo \subseteq memo' /\ UNCHANGED entry
           \/ \E p \in Proc : CommitPost(p) \/ CommitReverse(p) \/ CommitDraft(p) \/ CommitDelete(p) \/ CommitClose(p)
<1>1. CASE UNCHANGED vars
  BY <1>1 DEF vars, db, books
<1>2. ASSUME NEW p \in Proc, NEW c \in Calls, Begin(p, c) PROVE UNCHANGED <<entry, memo>>
  BY <1>2 DEF Begin, db, books
<1>3. ASSUME NEW p \in Proc, Replay(p) \/ Check(p) \/ CheckPeriod(p) \/ Refuse(p) PROVE UNCHANGED <<entry, memo>>
  BY <1>3 DEF Replay, Check, CheckPeriod, Refuse, db, books
<1>4. ASSUME NEW p \in Proc, ReplayLate(p) \/ RollBack(p) \/ Answer(p) \/ Crash(p) PROVE UNCHANGED <<entry, memo>>
  BY <1>4 DEF ReplayLate, RollBack, Answer, Crash, db, books
<1>5. ASSUME NEW p \in Proc, CommitLock(p) PROVE memo \subseteq memo' /\ UNCHANGED entry
  BY <1>5 DEF CommitLock, Remembers, books
<1> QED
  BY <1>1, <1>2, <1>3, <1>4, <1>5 DEF Next, Commit

\* The five that do, by the rows they make posted.  A post promotes or makes one row ...
LEMMA PostEffect ==
    ASSUME TypeOK, NEW p \in Proc, CommitPost(p)
    PROVE  \E e \in Entry \ Posted :
             /\ Posted' = Posted \cup {e}
             /\ \A f \in Entry \ {e} : entry'[f] = entry[f]
             /\ entry'[e] = [status |-> "posted", source |-> "manual", month |-> call[p].c.month,
                             reverses |-> NoEntry, key |-> call[p].c.key, pl |-> call[p].c.pl,
                             carry |-> call[p].c.carry]
<1>1. PICK e \in Entry :
         /\ IF call[p].c.entry = NoEntry THEN NextId(e, {}) ELSE e = call[p].c.entry /\ StillDraft(e)
         /\ entry' = [entry EXCEPT ![e] =
              [status |-> "posted", source |-> "manual", month |-> call[p].c.month, reverses |-> NoEntry,
               key |-> call[p].c.key, pl |-> call[p].c.pl, carry |-> call[p].c.carry]]
  BY DEF CommitPost
<1>2. e \notin Posted
  BY <1>1, FreeIds DEF StillDraft, Posted
<1>3. entry'[e].status = "posted" /\ \A f \in Entry \ {e} : entry'[f] = entry[f]
  BY <1>1 DEF TypeOK
<1> QED BY <1>1, <1>2, <1>3 DEF TypeOK, Posted

\* ... a reversal makes one, on the only free slot of its target ...
LEMMA ReverseEffect ==
    ASSUME TypeOK, NEW p \in Proc, CommitReverse(p)
    PROVE  /\ call[p].c.verb = "reverse_entry" /\ call[p].stage = "commit"
           /\ call[p].c.entry \in Entry
           /\ ReversalsOf(call[p].c.entry) = {}
           /\ \E e \in Entry \ Posted :
                /\ Posted' = Posted \cup {e}
                /\ \A f \in Entry \ {e} : entry'[f] = entry[f]
                /\ entry'[e] = [status |-> "posted", source |-> "reversal", month |-> call[p].c.month,
                                reverses |-> call[p].c.entry, key |-> call[p].c.key,
                                pl |-> -entry[call[p].c.entry].pl, carry |-> -entry[call[p].c.entry].carry]
<1>1. call[p].c.verb = "reverse_entry" /\ call[p].stage = "commit" /\ ReversalsOf(call[p].c.entry) = {}
  BY DEF CommitReverse, MayCommit, SlotFree
<1>2. PICK e \in Entry :
         /\ NextId(e, {})
         /\ entry' = [entry EXCEPT ![e] =
              [status |-> "posted", source |-> "reversal", month |-> call[p].c.month, reverses |-> call[p].c.entry,
               key |-> call[p].c.key, pl |-> -entry[call[p].c.entry].pl, carry |-> -entry[call[p].c.entry].carry]]
  BY DEF CommitReverse
<1>3. e \notin Posted
  BY <1>2, FreeIds
<1>4. entry'[e].status = "posted" /\ \A f \in Entry \ {e} : entry'[f] = entry[f]
  BY <1>2 DEF TypeOK
<1>5. call[p].c.entry \in Entry
  BY <1>1, InFlight, CallFields
<1> QED BY <1>1, <1>2, <1>3, <1>4, <1>5 DEF TypeOK, Posted

\* ... a close makes none, one or two ...
LEMMA CloseEffect ==
    ASSUME TypeOK, NEW p \in Proc, CommitClose(p)
    PROVE  \E sweep, carried \in Entry \cup {NoEntry} :
             /\ {sweep, carried} \cap Posted = {}
             /\ Posted' = Posted \cup ({sweep, carried} \ {NoEntry})
             /\ sweep = NoEntry <=> call[p].net = 0
             /\ carried = NoEntry <=> bal2979 + call[p].net = 0
             /\ sweep = carried => sweep = NoEntry
             /\ \A f \in Entry \ {sweep, carried} : entry'[f] = entry[f]
             /\ sweep # NoEntry => entry'[sweep] = CloseRow(call[p].c, -call[p].net, call[p].net)
             /\ carried # NoEntry => entry'[carried] = CloseRow(call[p].c, 0, -(bal2979 + call[p].net))
<1> DEFINE net == call[p].net
           carry == bal2979 + net
           s == CloseRow(call[p].c, -net, net)
           d == CloseRow(call[p].c, 0, -carry)
<1>1. PICK sweep \in Entry \cup {NoEntry}, carried \in Entry \cup {NoEntry} :
         /\ IF net = 0 THEN sweep = NoEntry ELSE NextId(sweep, {})
         /\ IF carry = 0 THEN carried = NoEntry ELSE NextId(carried, {sweep})
         /\ entry' = [e \in Entry |-> CASE e = sweep -> s [] e = carried -> d [] OTHER -> entry[e]]
  BY DEF CommitClose
<1>2. NoEntry \notin Entry /\ NoEntry \notin Posted
  BY LedgerAssumptions DEF NoEntry, Posted
<1>3. /\ sweep = NoEntry <=> net = 0
      /\ carried = NoEntry <=> carry = 0
      /\ sweep = carried => sweep = NoEntry
      /\ {sweep, carried} \cap Posted = {}
  BY <1>1, <1>2, FreeIds
<1>4. s.status = "posted" /\ d.status = "posted"
  BY DEF CloseRow
<1>5. /\ \A f \in Entry \ {sweep, carried} : entry'[f] = entry[f]
      /\ sweep # NoEntry => entry'[sweep] = s
      /\ carried # NoEntry => entry'[carried] = d
  <2> HIDE DEF s, d, net, carry
  <2> QED BY <1>1, <1>3
<1>6. Posted' = Posted \cup ({sweep, carried} \ {NoEntry})
  <2> HIDE DEF s, d, net, carry
  <2> QED BY <1>2, <1>3, <1>4, <1>5 DEF Posted
<1> QED BY <1>3, <1>5, <1>6

\* ... and drafts are saved and deleted beside the journal.
LEMMA DraftEffect ==
    ASSUME TypeOK, NEW p \in Proc, CommitDraft(p) \/ CommitDelete(p)
    PROVE  Posted' = Posted /\ \A e \in Posted : entry'[e] = entry[e]
<1>1. ASSUME CommitDraft(p) PROVE Posted' = Posted /\ \A e \in Posted : entry'[e] = entry[e]
  <2> DEFINE c == call[p].c
  <2>1. PICK e \in Entry :
         /\ IF c.entry = NoEntry THEN NextId(e, {}) ELSE e = c.entry /\ StillDraft(e)
         /\ entry' = [entry EXCEPT ![e] =
              [status |-> "draft", source |-> "manual", month |-> c.month, reverses |-> NoEntry,
               key |-> c.key, pl |-> c.pl, carry |-> c.carry]]
    BY <1>1 DEF CommitDraft
  <2>2. e \notin Posted
    BY <2>1, FreeIds DEF StillDraft, Posted
  <2>3. entry'[e].status = "draft" /\ \A f \in Entry \ {e} : entry'[f] = entry[f]
    BY <2>1 DEF TypeOK
  <2> QED BY <2>2, <2>3 DEF Posted
<1>2. ASSUME CommitDelete(p) PROVE Posted' = Posted /\ \A e \in Posted : entry'[e] = entry[e]
  BY <1>2 DEF CommitDelete, Posted, TypeOK, EntryRecords
<1> QED BY <1>1, <1>2

\* What is posted stays as it was posted, whatever the processes race for.
LEMMA PostedKept ==
    ASSUME TypeOK, [Next]_vars
    PROVE  \A e \in Posted : e \in Posted' /\ entry'[e] = entry[e]
<1>1. NoEntry \notin Entry /\ Posted \subseteq Entry
  BY LedgerAssumptions DEF NoEntry, Posted
<1>2. CASE UNCHANGED entry
  BY <1>2 DEF Posted
<1>3. ASSUME NEW p \in Proc, CommitPost(p) PROVE \A e \in Posted : e \in Posted' /\ entry'[e] = entry[e]
  BY <1>1, <1>3, PostEffect
<1>4. ASSUME NEW p \in Proc, CommitReverse(p) PROVE \A e \in Posted : e \in Posted' /\ entry'[e] = entry[e]
  BY <1>1, <1>4, ReverseEffect
<1>5. ASSUME NEW p \in Proc, CommitDraft(p) \/ CommitDelete(p)
      PROVE  \A e \in Posted : e \in Posted' /\ entry'[e] = entry[e]
  BY <1>5, DraftEffect
<1>6. ASSUME NEW p \in Proc, CommitClose(p) PROVE \A e \in Posted : e \in Posted' /\ entry'[e] = entry[e]
  BY <1>1, <1>6, CloseEffect
<1> QED BY <1>2, <1>3, <1>4, <1>5, <1>6, EntryStep

\* A posted entry never changes and never goes: the triggers hold against every interleaving.
THEOREM PostedIsForever == Spec => PostedForever
<1>1. TypeOK /\ [Next]_vars => [\A e \in Posted : entry'[e] = entry[e]]_entry
  BY PostedKept
<1> QED BY <1>1, TypeCorrect, PTL DEF Spec, PostedForever

-----------------------------------------------------------------------------
(* The inductive invariant: what the journal, the memo and the calls in flight know of each other *)

OnlyReversalsReverse == \A e \in Posted : entry[e].source # "reversal" => entry[e].reverses = NoEntry
KeysRemembered ==
    \A e \in Posted : entry[e].source = "manual" =>
        \E m \in memo : m.by.verb = "post_entry" /\ m.by.key = entry[e].key
TargetsPosted ==
    \A p \in Proc : (call[p].stage \in {"period", "commit"} /\ call[p].c.verb = "reverse_entry")
                        => call[p].c.entry \in Posted

IInv == TypeOK /\ ReversedOnce /\ OnlyReversalsReverse /\ BooksOnce /\ KeysRemembered /\ TargetsPosted

\* A reversal in flight has seen its target posted, and posted it stays.
LEMMA TargetsStep ==
    ASSUME IInv, [Next]_vars
    PROVE  TargetsPosted'
<1>1. \A e \in Posted : e \in Posted'
  BY PostedKept DEF IInv
<1>2. CASE UNCHANGED call
  BY <1>1, <1>2 DEF IInv, TargetsPosted
<1>3. ASSUME NEW p \in Proc, NEW r, Goes(p, r), r.stage \notin {"period", "commit"} PROVE TargetsPosted'
  BY <1>1, <1>3 DEF IInv, TargetsPosted, TypeOK, Goes
<1>4. ASSUME NEW p \in Proc, Check(p) PROVE TargetsPosted'
  <2>1. call[p].c.verb = "reverse_entry" => entry[call[p].c.entry].status = "posted"
    BY <1>4 DEF Check, Guards
  <2>2. call[p].c.verb = "reverse_entry" => call[p].c.entry \in Posted
    BY <1>4, <2>1, InFlight, CallFields DEF Check, Posted, IInv
  <2>3. \E r : Goes(p, r) /\ r.c = call[p].c
    BY <1>4 DEF Check, At
  <2> QED BY <1>1, <2>2, <2>3 DEF IInv, TargetsPosted, TypeOK, Goes
<1>5. ASSUME NEW p \in Proc, CheckPeriod(p) PROVE TargetsPosted'
  <2>1. \E r : Goes(p, r) /\ r.c = call[p].c
    BY <1>5 DEF CheckPeriod, At
  <2> QED BY <1>1, <1>5, <2>1 DEF IInv, TargetsPosted, TypeOK, Goes, CheckPeriod
<1>6. ASSUME NEW p \in Proc, NEW a, Remembers(p, a) PROVE TargetsPosted'
  BY <1>3, <1>6 DEF Remembers, Answering, At
<1>7. ASSUME NEW p \in Proc, NEW c \in Calls, Begin(p, c) PROVE TargetsPosted'
  BY <1>3, <1>7 DEF Begin, Checking, At
<1>8. ASSUME NEW p \in Proc, Replay(p) \/ ReplayLate(p) PROVE TargetsPosted'
  BY <1>3, <1>8 DEF Replay, ReplayLate, Answering, At
<1>9. ASSUME NEW p \in Proc, Refuse(p) \/ RollBack(p) \/ Answer(p) \/ Crash(p) PROVE TargetsPosted'
  BY <1>3, <1>9, CallStatesMade DEF Refuse, RollBack, Answer, Crash
<1>10. ASSUME NEW p \in Proc, Commit(p) PROVE \E a : Remembers(p, a)
  BY <1>10 DEF Commit, CommitPost, CommitReverse, CommitDraft, CommitDelete, CommitLock, CommitClose
<1>11. CASE UNCHANGED vars
  BY <1>2, <1>11 DEF vars
<1> QED BY <1>4, <1>5, <1>6, <1>7, <1>8, <1>9, <1>10, <1>11 DEF Next

\* The memo only grows.
LEMMA MemoGrows == [Next]_vars => memo \subseteq memo'
<1>1. ASSUME NEW p \in Proc, Commit(p) PROVE memo \subseteq memo'
  BY <1>1 DEF Commit, CommitPost, CommitReverse, CommitDraft, CommitDelete, CommitLock, CommitClose, Remembers
<1> QED
  BY <1>1 DEF Next, vars, db, Begin, Replay, Check, CheckPeriod, Refuse, ReplayLate, RollBack, Answer, Crash

\* A step that adds no row to the journal and loses none keeps what is true of its rows.
LEMMA SameJournal ==
    ASSUME IInv, memo \subseteq memo', Posted' = Posted, \A e \in Posted : entry'[e] = entry[e]
    PROVE  (ReversedOnce /\ OnlyReversalsReverse /\ BooksOnce /\ KeysRemembered)'
<1>1. \A t : ReversalsOf(t)' = ReversalsOf(t)
  BY DEF ReversalsOf
<1>2. ReversedOnce'
  BY <1>1 DEF IInv, ReversedOnce
<1>3. OnlyReversalsReverse' /\ BooksOnce' /\ KeysRemembered'
  BY DEF IInv, OnlyReversalsReverse, BooksOnce, KeysRemembered
<1> QED BY <1>2, <1>3

\* Rows of the closing source disturb neither reversals nor keys.
LEMMA CloseKeeps ==
    ASSUME IInv, memo \subseteq memo', NEW new \in SUBSET Entry, Posted' = Posted \cup new,
           \A e \in Posted : entry'[e] = entry[e],
           \A e \in new : e \notin Posted /\ entry'[e].source = "close" /\ entry'[e].reverses = NoEntry
    PROVE  (ReversedOnce /\ OnlyReversalsReverse /\ BooksOnce /\ KeysRemembered)'
<1>1. NoEntry \notin Entry
  BY LedgerAssumptions DEF NoEntry
<1>2. \A t \in Entry : ReversalsOf(t)' = ReversalsOf(t)
  BY <1>1 DEF ReversalsOf
<1>3. ReversedOnce'
  BY <1>2 DEF IInv, ReversedOnce, Posted
<1>4. OnlyReversalsReverse' /\ BooksOnce' /\ KeysRemembered'
  BY DEF IInv, OnlyReversalsReverse, BooksOnce, KeysRemembered
<1> QED BY <1>3, <1>4

\* The rows of the journal stay reversed once and exactly, and booked once a key.
LEMMA JournalStep ==
    ASSUME IInv, [Next]_vars
    PROVE  (ReversedOnce /\ OnlyReversalsReverse /\ BooksOnce /\ KeysRemembered)'
<1>1. TypeOK /\ memo \subseteq memo' /\ NoEntry \notin Entry /\ Posted \subseteq Entry
  BY MemoGrows, LedgerAssumptions DEF IInv, NoEntry, Posted
<1>2. CASE UNCHANGED entry
  BY <1>1, <1>2, SameJournal DEF Posted
<1>3. ASSUME NEW p \in Proc, CommitDraft(p) \/ CommitDelete(p)
      PROVE  (ReversedOnce /\ OnlyReversalsReverse /\ BooksOnce /\ KeysRemembered)'
  BY <1>1, <1>3, DraftEffect, SameJournal
<1>4. ASSUME NEW p \in Proc, CommitClose(p)
      PROVE  (ReversedOnce /\ OnlyReversalsReverse /\ BooksOnce /\ KeysRemembered)'
  <2>1. PICK sweep \in Entry \cup {NoEntry}, carried \in Entry \cup {NoEntry} :
             /\ {sweep, carried} \cap Posted = {}
             /\ Posted' = Posted \cup ({sweep, carried} \ {NoEntry})
             /\ \A f \in Entry \ {sweep, carried} : entry'[f] = entry[f]
             /\ sweep # NoEntry => entry'[sweep] = CloseRow(call[p].c, -call[p].net, call[p].net)
             /\ carried # NoEntry => entry'[carried] = CloseRow(call[p].c, 0, -(bal2979 + call[p].net))
    BY <1>1, <1>4, CloseEffect
  <2> DEFINE new == {sweep, carried} \ {NoEntry}
  <2>2. \A e \in new : e \notin Posted /\ entry'[e].source = "close" /\ entry'[e].reverses = NoEntry
    BY <2>1 DEF CloseRow
  <2>3. new \in SUBSET Entry /\ \A e \in Posted : entry'[e] = entry[e]
    BY <1>1, <2>1
  <2> HIDE DEF new
  <2>4. Posted' = Posted \cup new
    BY <2>1 DEF new
  <2> QED BY <1>1, <2>2, <2>3, <2>4, CloseKeeps
<1>5. ASSUME NEW p \in Proc, CommitPost(p)
      PROVE  (ReversedOnce /\ OnlyReversalsReverse /\ BooksOnce /\ KeysRemembered)'
  <2>1. PICK e \in Entry \ Posted :
             /\ Posted' = Posted \cup {e}
             /\ \A f \in Entry \ {e} : entry'[f] = entry[f]
             /\ entry'[e] = [status |-> "posted", source |-> "manual", month |-> call[p].c.month,
                             reverses |-> NoEntry, key |-> call[p].c.key, pl |-> call[p].c.pl,
                             carry |-> call[p].c.carry]
    BY <1>1, <1>5, PostEffect
  <2>2. \A f \in Posted : entry'[f] = entry[f]
    BY <1>1, <2>1
  <2>3. \A t \in Entry : ReversalsOf(t)' = ReversalsOf(t)
    BY <1>1, <2>1, <2>2 DEF ReversalsOf
  <2>4. ReversedOnce'
    BY <2>1, <2>2, <2>3 DEF IInv, ReversedOnce, Posted
  <2>5. OnlyReversalsReverse'
    BY <2>1, <2>2 DEF IInv, OnlyReversalsReverse
  <2>6. \A m \in memo : ~(m.by.verb = "post_entry" /\ m.by.key = call[p].c.key)
    BY <1>5 DEF CommitPost, MayCommit, Unspent, Recalled, SameAct
  <2>7. \A f \in Posted : entry[f].source = "manual" => entry[f].key # call[p].c.key
    BY <2>6 DEF IInv, KeysRemembered
  <2>8. BooksOnce'
    BY <2>1, <2>2, <2>7 DEF IInv, BooksOnce
  <2>9. \E m \in memo' : m.by.verb = "post_entry" /\ m.by.key = call[p].c.key
    <3>1. PICK a : memo' = memo \cup {[by |-> call[p].c, answer |-> a]}
      BY <1>5 DEF CommitPost, Remembers
    <3>2. [by |-> call[p].c, answer |-> a] \in memo' /\ call[p].c.verb = "post_entry"
      BY <1>5, <3>1 DEF CommitPost, MayCommit
    <3> QED BY <3>2
  <2>10. KeysRemembered'
    BY <1>1, <2>1, <2>2, <2>9 DEF IInv, KeysRemembered
  <2> QED BY <2>4, <2>5, <2>8, <2>10
<1>6. ASSUME NEW p \in Proc, CommitReverse(p)
      PROVE  (ReversedOnce /\ OnlyReversalsReverse /\ BooksOnce /\ KeysRemembered)'
  <2>1. PICK t \in Entry : t = call[p].c.entry
    BY <1>1, <1>6, ReverseEffect
  <2>2. PICK e \in Entry \ Posted :
             /\ Posted' = Posted \cup {e}
             /\ \A f \in Entry \ {e} : entry'[f] = entry[f]
             /\ entry'[e] = [status |-> "posted", source |-> "reversal", month |-> call[p].c.month,
                             reverses |-> t, key |-> call[p].c.key, pl |-> -entry[t].pl, carry |-> -entry[t].carry]
    BY <1>1, <1>6, <2>1, ReverseEffect
  <2>3. t \in Posted /\ ReversalsOf(t) = {}
    BY <1>1, <1>6, <2>1, ReverseEffect DEF IInv, TargetsPosted
  <2>4. \A f \in Posted : entry'[f] = entry[f]
    BY <1>1, <2>2
  <2>5. ReversalsOf(t)' = {e}
    BY <2>2, <2>3, <2>4 DEF ReversalsOf
  <2>6. \A s \in Entry \ {t} : ReversalsOf(s)' = ReversalsOf(s)
    BY <2>2, <2>4 DEF ReversalsOf
  <2>7. ASSUME NEW r \in Posted', NEW s, entry'[r].source = "reversal", s = entry'[r].reverses
        PROVE  /\ ReversalsOf(s)' = {r}
               /\ s \in Posted'
               /\ entry'[r].pl = -entry'[s].pl
               /\ entry'[r].carry = -entry'[s].carry
    <3>1. CASE r = e
      <4>1. s = t /\ entry'[r].pl = -entry[t].pl /\ entry'[r].carry = -entry[t].carry
        BY <2>2, <2>7, <3>1
      <4> QED BY <2>2, <2>3, <2>4, <2>5, <3>1, <4>1
    <3>2. CASE r \in Posted
      <4>1. ReversalsOf(s) = {r} /\ s \in Posted /\ entry[r].pl = -entry[s].pl /\ entry[r].carry = -entry[s].carry
        BY <2>4, <2>7, <3>2 DEF IInv, ReversedOnce
      <4>2. s \in Entry \ {t}
        BY <1>1, <2>3, <4>1
      <4> QED BY <2>2, <2>4, <2>6, <3>2, <4>1, <4>2
    <3> QED BY <2>2, <3>1, <3>2
  <2>8. ReversedOnce'
    BY <2>7 DEF ReversedOnce
  <2>9. OnlyReversalsReverse' /\ BooksOnce' /\ KeysRemembered'
    BY <1>1, <2>2, <2>4 DEF IInv, OnlyReversalsReverse, BooksOnce, KeysRemembered
  <2> QED BY <2>8, <2>9
<1> QED BY <1>2, <1>3, <1>4, <1>5, <1>6, EntryStep

\* The invariant holds of an empty book and survives every step.
LEMMA Invariant == Spec => []IInv
<1>1. Init => IInv
  <2> SUFFICES ASSUME Init PROVE IInv
    OBVIOUS
  <2>1. Posted = {}
    BY DEF Init, Posted, NoRow
  <2>2. \A p \in Proc : call[p].stage = "idle"
    BY CallStatesMade DEF Init
  <2> QED BY <2>1, <2>2, TypeInit
       DEF IInv, ReversedOnce, OnlyReversalsReverse, BooksOnce, KeysRemembered, TargetsPosted
<1>2. IInv /\ [Next]_vars => IInv'
  BY TypeStep, TargetsStep, JournalStep DEF IInv
<1> QED BY <1>1, <1>2, PTL DEF Spec

\* However many processes race for a reversal, an entry is reversed once, and exactly.
THEOREM ReversedAtMostOnce == Spec => []ReversedOnce
BY Invariant, PTL DEF IInv

\* However often a call is repeated and wherever a process died, a key books once.
THEOREM KeyBooksOnce == Spec => []BooksOnce
BY Invariant, PTL DEF IInv

-----------------------------------------------------------------------------
(* The refinement: every step of every process is one act of the abstract journal, or none *)

Rows == {Row(e) : e \in Posted}

\* What a step does to the rows, from what it does to the entries.
LEMMA RowsGrow ==
    ASSUME TypeOK', NEW new \in SUBSET Entry, new \cap Posted = {}, Posted' = Posted \cup new,
           \A e \in Posted : entry'[e] = entry[e]
    PROVE  /\ Rows' = Rows \cup {Row(e)' : e \in new}
           /\ {Row(e)' : e \in new} \subseteq J!Rows
           /\ \A r \in {Row(e)' : e \in new}, s \in Rows : r.id # s.id
<1>1. \A e \in Posted : Row(e)' = Row(e)
  BY DEF Row
<1>2. \A e \in Entry : Row(e)' \in J!Rows
  BY DEF TypeOK, EntryRecords, Row, J!Rows, NoEntry
<1>3. \A e : Row(e)'.id = e /\ Row(e).id = e
  BY DEF Row
<1> QED BY <1>1, <1>2, <1>3 DEF Rows

\* A step that books nothing is a stutter of the journal.
LEMMA RowsSame ==
    ASSUME Posted' = Posted, \A e \in Posted : entry'[e] = entry[e]
    PROVE  Rows' = Rows
<1>1. \A e \in Posted : Row(e)' = Row(e)
  BY DEF Row
<1> QED BY <1>1 DEF Rows

LEMMA StepRefines == IInv /\ IInv' /\ [Next]_vars => [J!Next]_Rows
<1> SUFFICES ASSUME IInv, IInv', [Next]_vars PROVE [J!Next]_Rows
  OBVIOUS
<1>1. TypeOK /\ TypeOK' /\ NoEntry \notin Entry /\ Posted \subseteq Entry
  BY LedgerAssumptions DEF IInv, NoEntry, Posted
<1>2. CASE UNCHANGED entry
  BY <1>2, RowsSame DEF Posted
<1>3. ASSUME NEW p \in Proc, CommitDraft(p) \/ CommitDelete(p) PROVE Rows' = Rows
  BY <1>1, <1>3, DraftEffect, RowsSame
<1>4. ASSUME NEW p \in Proc, CommitPost(p) PROVE J!Book
  <2>1. PICK e \in Entry \ Posted :
             /\ Posted' = Posted \cup {e}
             /\ \A f \in Entry \ {e} : entry'[f] = entry[f]
             /\ entry'[e] = [status |-> "posted", source |-> "manual", month |-> call[p].c.month,
                             reverses |-> NoEntry, key |-> call[p].c.key, pl |-> call[p].c.pl,
                             carry |-> call[p].c.carry]
    BY <1>1, <1>4, PostEffect
  <2>2. \A f \in Posted : entry'[f] = entry[f]
    BY <1>1, <2>1
  <2> DEFINE r == Row(e)'
  <2>3. Rows' = Rows \cup {r} /\ r \in J!Rows /\ \A s \in Rows : r.id # s.id
    <3>1. {Row(d)' : d \in {e}} = {r} /\ {e} \in SUBSET Entry /\ {e} \cap Posted = {}
      OBVIOUS
    <3> HIDE DEF r
    <3> QED BY <1>1, <2>1, <2>2, <3>1, RowsGrow
  <2>4. r.source = "manual" /\ r.reverses = 0 /\ r.key = entry'[e].key
    BY <2>1 DEF Row, NoEntry
  <2>5. \A s \in Rows : s.source = "manual" => s.key # r.key
    <3>1. \A f \in Posted : entry[f].source = "manual" => entry[f].key # entry'[e].key
      BY <1>1, <2>1, <2>2 DEF IInv, BooksOnce
    <3> HIDE DEF r
    <3> QED BY <2>4, <3>1 DEF Rows, Row
  <2> HIDE DEF r
  <2>6. r \in Rows' \ Rows
    BY <2>3
  <2> QED BY <2>3, <2>4, <2>5, <2>6 DEF J!Book, J!Appends, Rows
<1>5. ASSUME NEW p \in Proc, CommitReverse(p) PROVE J!Reverse
  <2>1. PICK t \in Posted : t = call[p].c.entry /\ ReversalsOf(t) = {}
    BY <1>1, <1>5, ReverseEffect DEF IInv, TargetsPosted
  <2>2. PICK e \in Entry \ Posted :
             /\ Posted' = Posted \cup {e}
             /\ \A f \in Entry \ {e} : entry'[f] = entry[f]
             /\ entry'[e] = [status |-> "posted", source |-> "reversal", month |-> call[p].c.month,
                             reverses |-> t, key |-> call[p].c.key, pl |-> -entry[t].pl, carry |-> -entry[t].carry]
    BY <1>1, <1>5, <2>1, ReverseEffect
  <2>3. \A f \in Posted : entry'[f] = entry[f]
    BY <1>1, <2>2
  <2> DEFINE r == Row(e)'
             s == Row(t)
  <2>4. Rows' = Rows \cup {r} /\ r \in J!Rows /\ \A q \in Rows : r.id # q.id
    <3>1. {Row(d)' : d \in {e}} = {r} /\ {e} \in SUBSET Entry /\ {e} \cap Posted = {}
      OBVIOUS
    <3> HIDE DEF r
    <3> QED BY <1>1, <2>2, <2>3, <3>1, RowsGrow
  <2>5. /\ r.source = "reversal" /\ r.reverses = s.id
        /\ r.pl = -s.pl /\ r.carry = -s.carry
    BY <2>2 DEF Row
  <2>6. \A q \in Rows : q.reverses # s.id
    BY <2>1 DEF Rows, Row, ReversalsOf
  <2>7. s \in Rows
    BY DEF Rows
  <2> HIDE DEF r, s
  <2>8. r \in Rows' \ Rows
    BY <2>4
  <2> QED BY <2>4, <2>5, <2>6, <2>7, <2>8 DEF J!Reverse, J!Appends, Rows
<1>6. ASSUME NEW p \in Proc, CommitClose(p) PROVE J!Close \/ Rows' = Rows
  <2>1. PICK sweep \in Entry \cup {NoEntry}, carried \in Entry \cup {NoEntry} :
             /\ {sweep, carried} \cap Posted = {}
             /\ Posted' = Posted \cup ({sweep, carried} \ {NoEntry})
             /\ \A f \in Entry \ {sweep, carried} : entry'[f] = entry[f]
             /\ sweep # NoEntry => entry'[sweep] = CloseRow(call[p].c, -call[p].net, call[p].net)
             /\ carried # NoEntry => entry'[carried] = CloseRow(call[p].c, 0, -(bal2979 + call[p].net))
    BY <1>1, <1>6, CloseEffect
  <2>2. \A f \in Posted : entry'[f] = entry[f]
    BY <1>1, <2>1
  <2> DEFINE x == Row(sweep)'
             y == Row(carried)'
  <2>3. ASSUME NEW e \in {sweep, carried}, e # NoEntry
        PROVE  /\ Row(e)'.source = "close" /\ Row(e)'.reverses = 0
               /\ Row(e)'.key = call[p].c.key /\ Row(e)'.month = LastMonth[call[p].c.period]
    BY <2>1, <2>3 DEF Row, CloseRow, NoEntry
  <2>4. carried # NoEntry => y.pl = 0
    BY <2>1 DEF Row, CloseRow
  <2>5. CASE sweep = NoEntry /\ carried = NoEntry
    <3>1. Posted' = Posted
      BY <2>1, <2>5
    <3> QED BY <2>2, <3>1, RowsSame
  <2>6. ASSUME NEW e \in {sweep, carried}, NEW f \in {sweep, carried}, e # NoEntry, f # NoEntry,
               Posted' = Posted \cup {e, f}, Row(f)'.pl \in {0, Row(e)'.pl}
        PROVE  J!Close
    <3> DEFINE a == Row(e)'
               b == Row(f)'
    <3>1. e \in Entry /\ f \in Entry /\ {e, f} \cap Posted = {}
      BY <2>1, <2>6
    <3>2. {Row(d)' : d \in {e, f}} = {a, b}
      OBVIOUS
    <3>3. Rows' = Rows \cup {a, b} /\ {a, b} \subseteq J!Rows /\ \A r \in {a, b}, s \in Rows : r.id # s.id
      <4>1. {e, f} \in SUBSET Entry
        BY <3>1
      <4> QED BY <1>1, <2>2, <2>6, <3>1, <3>2, <4>1, RowsGrow
    <3>4. \A r \in {a, b} : r.source = "close" /\ r.reverses = 0 /\ r.key = a.key /\ r.month = a.month
      BY <2>3, <2>6
    <3>5. b.pl \in {0, a.pl}
      BY <2>6
    <3> HIDE DEF a, b
    <3>6. a \in Rows' \ Rows /\ b \in Rows' \ Rows
      BY <3>3
    <3> QED BY <3>3, <3>4, <3>5, <3>6 DEF J!Close, J!Appends, Rows
  <2>7. CASE sweep # NoEntry /\ carried # NoEntry
    <3>1. Posted' = Posted \cup {sweep, carried}
      BY <2>1, <2>7
    <3> QED BY <2>4, <2>6, <2>7, <3>1
  <2>8. CASE sweep # NoEntry /\ carried = NoEntry
    <3>1. Posted' = Posted \cup {sweep, sweep}
      BY <2>1, <2>8
    <3> QED BY <2>6, <2>8, <3>1
  <2>9. CASE sweep = NoEntry /\ carried # NoEntry
    <3>1. Posted' = Posted \cup {carried, carried}
      BY <2>1, <2>9
    <3> QED BY <2>6, <2>9, <3>1
  <2> QED BY <2>5, <2>7, <2>8, <2>9
<1> QED BY <1>2, <1>3, <1>4, <1>5, <1>6, EntryStep DEF J!Next

\* The ledger implements the journal it promises, however many processes share the file.
THEOREM LedgerRefinesJournal == Spec => JournalSpec
<1>1. Init => J!Init
  BY DEF Init, J!Init, Posted, NoRow
<1>2. IInv /\ IInv' /\ [Next]_vars => [J!Next]_{Row(e) : e \in Posted}
  BY StepRefines DEF Rows
<1> QED BY <1>1, <1>2, Invariant, PTL DEF Spec, JournalSpec, J!Spec

-----------------------------------------------------------------------------
(* What callers are told *)

\* A memo row stands for an act done with the arguments its key was spent on.
Acts(m) ==
    /\ m.by \in spent
    /\ m.by.verb = "post_entry" =>
         /\ m.answer \in Posted
         /\ entry[m.answer].key = m.by.key /\ entry[m.answer].month = m.by.month
         /\ entry[m.answer].pl = m.by.pl /\ entry[m.answer].carry = m.by.carry
    /\ m.by.verb = "reverse_entry" => m.answer \in ReversalsOf(m.by.entry) /\ entry[m.answer].month = m.by.month

\* The memo row of a posted reversal.
Records(m, e) ==
    /\ m.by.verb = "reverse_entry" /\ m.by.entry = entry[e].reverses
    /\ m.by.key = entry[e].key /\ m.answer = e

\* An answer that is the memo's, for the same act if not for the same arguments.
Backed(c, a) == \E m \in memo : SameAct(m.by, c) /\ m.answer = a

ActsAreTrue == \A m \in memo : Acts(m)
ActsAreKeyed == \A m, n \in memo : SameAct(m.by, n.by) => m = n
ReversalsRemembered == \A e \in Posted : entry[e].source = "reversal" => \E m \in memo : Records(m, e)
AnswersBacked == \A p \in Proc : call[p].stage = "answer" => Backed(call[p].c, call[p].ans)
OksRemembered == \A a \in answered : \E m \in memo : m.by = a.by /\ m.answer = a.answer

Memory == ActsAreTrue /\ ActsAreKeyed /\ ReversalsRemembered
MInv == IInv /\ Memory /\ AnswersBacked /\ OksRemembered

\* What a transaction that wrote remembers is what it did.
Remembered(p, m) ==
    /\ m.by = call[p].c
    /\ Recalled(call[p].c) = {}
    /\ memo' = memo \cup {m} /\ spent' = spent \cup {m.by}
    /\ Goes(p, Answering(m.by, m.answer)) /\ answered' = answered
    /\ Acts(m)'
    /\ \A e \in Posted' \ Posted : entry'[e].source = "reversal" => Records(m, e)'

\* A post remembers the entry it posted.
LEMMA PostRemembers == ASSUME TypeOK, NEW p \in Proc, CommitPost(p) PROVE \E m : Remembered(p, m)
<1>1. PICK c : c = call[p].c
  OBVIOUS
<1>2. PICK e \in Entry : /\ IF c.entry = NoEntry THEN NextId(e, {}) ELSE e = c.entry /\ StillDraft(e)
                         /\ entry' = [entry EXCEPT ![e] =
                              [status |-> "posted", source |-> "manual", month |-> c.month, reverses |-> NoEntry,
                               key |-> c.key, pl |-> c.pl, carry |-> c.carry]]
                         /\ Remembers(p, e)
  BY <1>1 DEF CommitPost
<1>3. c.verb = "post_entry" /\ Recalled(c) = {}
  BY <1>1 DEF CommitPost, MayCommit, Unspent
<1>4. entry'[e] = [status |-> "posted", source |-> "manual", month |-> c.month, reverses |-> NoEntry,
                   key |-> c.key, pl |-> c.pl, carry |-> c.carry]
      /\ \A f \in Entry \ {e} : entry'[f] = entry[f]
  BY <1>2 DEF TypeOK
<1>5. PICK m : m = [by |-> c, answer |-> e]
  OBVIOUS
<1>6. m = [by |-> c, answer |-> e] /\ m.by = c /\ m.answer = e
  BY <1>5
<1>7. /\ memo' = memo \cup {m} /\ spent' = spent \cup {m.by}
      /\ Goes(p, Answering(m.by, m.answer)) /\ answered' = answered
  BY <1>1, <1>2, <1>6 DEF Remembers
<1>8. Acts(m)'
  <2>1. e \in Posted'
    BY <1>4 DEF Posted
  <2> QED BY <1>3, <1>4, <1>6, <1>7, <2>1 DEF Acts
<1>9. \A f \in Posted' \ Posted : entry'[f].source = "manual"
  BY <1>4 DEF Posted
<1> QED BY <1>1, <1>3, <1>6, <1>7, <1>8, <1>9 DEF Remembered

\* A reversal remembers the entry it made, under the target it reversed.
LEMMA ReverseRemembers == ASSUME TypeOK, NEW p \in Proc, CommitReverse(p) PROVE \E m : Remembered(p, m)
<1>1. PICK c, x, y : c = call[p].c /\ x = -entry[c.entry].pl /\ y = -entry[c.entry].carry
  OBVIOUS
<1>2. PICK e \in Entry : /\ NextId(e, {})
                         /\ entry' = [entry EXCEPT ![e] =
                              [status |-> "posted", source |-> "reversal", month |-> c.month, reverses |-> c.entry,
                               key |-> c.key, pl |-> x, carry |-> y]]
                         /\ Remembers(p, e)
  BY <1>1 DEF CommitReverse
<1>3. c.verb = "reverse_entry" /\ Recalled(c) = {}
  BY <1>1 DEF CommitReverse, MayCommit, Unspent
<1>4. entry'[e] = [status |-> "posted", source |-> "reversal", month |-> c.month, reverses |-> c.entry,
                   key |-> c.key, pl |-> x, carry |-> y]
      /\ \A f \in Entry \ {e} : entry'[f] = entry[f]
  BY <1>2 DEF TypeOK
<1>5. PICK m : m = [by |-> c, answer |-> e]
  OBVIOUS
<1>6. m = [by |-> c, answer |-> e] /\ m.by = c /\ m.answer = e
  BY <1>5
<1>7. /\ memo' = memo \cup {m} /\ spent' = spent \cup {m.by}
      /\ Goes(p, Answering(m.by, m.answer)) /\ answered' = answered
  BY <1>1, <1>2, <1>6 DEF Remembers
<1>8. e \in Posted' /\ e \in ReversalsOf(c.entry)'
  BY <1>4 DEF Posted, ReversalsOf
<1>9. Acts(m)'
  BY <1>3, <1>4, <1>6, <1>7, <1>8 DEF Acts
<1>10. ASSUME NEW f \in Posted' \ Posted PROVE Records(m, f)'
  <2>1. f = e
    BY <1>4 DEF Posted
  <2> QED BY <1>3, <1>4, <1>6, <2>1 DEF Records
<1> QED BY <1>1, <1>3, <1>6, <1>7, <1>9, <1>10 DEF Remembered

\* The other verbs book no reversal.
LEMMA OthersRemember ==
    ASSUME TypeOK, NEW p \in Proc, CommitDraft(p) \/ CommitDelete(p) \/ CommitLock(p) \/ CommitClose(p)
    PROVE  \E m : Remembered(p, m)
<1>1. PICK c : c = call[p].c
  OBVIOUS
<1>2. PICK a : Remembers(p, a)
  BY DEF CommitDraft, CommitDelete, CommitLock, CommitClose
<1>3. c.verb \notin {"post_entry", "reverse_entry"} /\ Recalled(c) = {}
  BY <1>1 DEF CommitDraft, CommitDelete, CommitLock, CommitClose, MayCommit, Unspent
<1>4. PICK m : m = [by |-> c, answer |-> a]
  OBVIOUS
<1>5. m = [by |-> c, answer |-> a] /\ m.by = c /\ m.answer = a
  BY <1>4
<1>6. /\ memo' = memo \cup {m} /\ spent' = spent \cup {m.by}
      /\ Goes(p, Answering(m.by, m.answer)) /\ answered' = answered
  BY <1>1, <1>2, <1>5 DEF Remembers
<1>7. Acts(m)'
  BY <1>3, <1>5, <1>6 DEF Acts
<1>8. \A f \in Posted' \ Posted : entry'[f].source # "reversal"
  <2>1. CASE CommitDraft(p) \/ CommitDelete(p)
    BY <2>1, DraftEffect
  <2>2. CASE CommitLock(p)
    BY <2>2 DEF CommitLock, books, Posted
  <2>3. CASE CommitClose(p)
    <3>1. PICK sweep \in Entry \cup {NoEntry}, carried \in Entry \cup {NoEntry} :
               /\ Posted' = Posted \cup ({sweep, carried} \ {NoEntry})
               /\ sweep # NoEntry => entry'[sweep] = CloseRow(call[p].c, -call[p].net, call[p].net)
               /\ carried # NoEntry => entry'[carried] = CloseRow(call[p].c, 0, -(bal2979 + call[p].net))
      BY <2>3, CloseEffect
    <3> QED BY <3>1 DEF CloseRow
  <2> QED BY <2>1, <2>2, <2>3
<1> QED BY <1>1, <1>3, <1>5, <1>6, <1>7, <1>8 DEF Remembered

\* The memory only grows, and what it says stays so.
LEMMA MemoryGrows ==
    ASSUME TypeOK, [Next]_vars, memo \subseteq memo', spent \subseteq spent'
    PROVE  /\ \A m : Acts(m) => Acts(m)'
           /\ \A m, e : e \in Posted /\ Records(m, e) => Records(m, e)'
           /\ \A c, a : Backed(c, a) => Backed(c, a)'
<1>1. \A e \in Posted : e \in Posted' /\ entry'[e] = entry[e]
  BY PostedKept
<1>2. \A t : \A e \in ReversalsOf(t) : e \in ReversalsOf(t)' /\ entry'[e] = entry[e]
  BY <1>1 DEF ReversalsOf
<1>3. ASSUME NEW m, Acts(m) PROVE Acts(m)'
  BY <1>1, <1>2, <1>3 DEF Acts
<1>4. ASSUME NEW m, NEW e \in Posted, Records(m, e) PROVE Records(m, e)'
  BY <1>1, <1>4 DEF Records
<1>5. ASSUME NEW c, NEW a, Backed(c, a) PROVE Backed(c, a)'
  BY <1>5 DEF Backed
<1> QED BY <1>3, <1>4, <1>5

\* A transaction keeps the memory in order, and answers from it.
LEMMA CommitKeeps ==
    ASSUME MInv, IInv', [Next]_vars, NEW p \in Proc, Commit(p)
    PROVE  MInv'
<1>1. TypeOK /\ Memory /\ call \in [Proc -> CallStates]
  BY DEF MInv, IInv, TypeOK
<1>2. PICK m : Remembered(p, m)
  BY <1>1, PostRemembers, ReverseRemembers, OthersRemember DEF Commit
<1>3. /\ memo' = memo \cup {m} /\ spent' = spent \cup {m.by}
      /\ Goes(p, Answering(m.by, m.answer)) /\ answered' = answered
  BY <1>2 DEF Remembered
<1>4. /\ \A n : Acts(n) => Acts(n)'
      /\ \A n, e : e \in Posted /\ Records(n, e) => Records(n, e)'
      /\ \A c, a : Backed(c, a) => Backed(c, a)'
  BY <1>1, <1>3, MemoryGrows
<1>5. ActsAreTrue'
  BY <1>1, <1>2, <1>3, <1>4 DEF Memory, ActsAreTrue, Remembered
<1>6. ActsAreKeyed'
  <2>1. \A n \in memo : ~SameAct(n.by, m.by) /\ ~SameAct(m.by, n.by)
    BY <1>2 DEF Remembered, Recalled, SameAct
  <2> QED BY <1>1, <1>3, <2>1 DEF Memory, ActsAreKeyed
<1>7. ReversalsRemembered'
  <2>1. ASSUME NEW e \in Posted', entry'[e].source = "reversal" PROVE \E n \in memo' : Records(n, e)'
    <3>1. CASE e \in Posted
      <4>1. entry'[e] = entry[e]
        BY <1>1, <3>1, PostedKept
      <4>2. PICK n \in memo : Records(n, e)
        BY <1>1, <2>1, <3>1, <4>1 DEF Memory, ReversalsRemembered
      <4> QED BY <1>3, <1>4, <3>1, <4>2
    <3>2. CASE e \notin Posted
      BY <1>2, <1>3, <2>1, <3>2 DEF Remembered
    <3> QED BY <3>1, <3>2
  <2> QED BY <2>1 DEF ReversalsRemembered
<1>8. AnswersBacked'
  <2>1. ASSUME NEW q \in Proc, call'[q].stage = "answer" PROVE Backed(call[q].c, call[q].ans)'
    <3>1. CASE q = p
      <4>1. call'[q].c = m.by /\ call'[q].ans = m.answer
        BY <1>1, <1>3, <3>1 DEF Goes, Answering, At
      <4>2. m \in memo' /\ SameAct(m.by, m.by)
        BY <1>3 DEF SameAct
      <4> QED BY <4>1, <4>2 DEF Backed
    <3>2. CASE q # p
      <4>1. PICK c, a : c = call[q].c /\ a = call[q].ans
        OBVIOUS
      <4>2. call'[q] = call[q]
        BY <1>1, <1>3, <3>2 DEF Goes
      <4>3. Backed(c, a)
        BY <2>1, <4>1, <4>2 DEF MInv, AnswersBacked
      <4>4. Backed(c, a)'
        BY <1>4, <4>3
      <4> QED BY <4>1, <4>2, <4>4
    <3> QED BY <3>1, <3>2
  <2> QED BY <2>1 DEF AnswersBacked
<1>9. OksRemembered'
  BY <1>3 DEF MInv, OksRemembered
<1> QED BY <1>5, <1>6, <1>7, <1>8, <1>9 DEF MInv, Memory

\* What a step that writes no memo must show: its call's answer and what it tells are the memo's.
LEMMA QuietKeeps ==
    ASSUME MInv, IInv', [Next]_vars, UNCHANGED <<entry, memo, spent>>, OksRemembered',
           NEW p \in Proc, NEW r, Goes(p, r), r.stage = "answer" => Backed(r.c, r.ans)
    PROVE  MInv'
<1>1. call \in [Proc -> CallStates]
  BY DEF MInv, IInv, TypeOK
<1>2. Memory'
  BY DEF MInv, Memory, ActsAreTrue, Acts, ActsAreKeyed, ReversalsRemembered, Records, Posted, ReversalsOf
<1>3. \A c, a : Backed(c, a) => Backed(c, a)'
  BY DEF Backed
<1>4. ASSUME NEW q \in Proc, call'[q].stage = "answer" PROVE Backed(call[q].c, call[q].ans)'
  <2>1. PICK c, a : c = call'[q].c /\ a = call'[q].ans
    OBVIOUS
  <2>2. call'[q] = r \/ call'[q] = call[q]
    BY <1>1 DEF Goes
  <2>3. Backed(c, a)
    BY <1>4, <2>1, <2>2 DEF MInv, AnswersBacked
  <2>4. Backed(c, a)'
    BY <1>3, <2>3
  <2> QED BY <2>1, <2>4
<1> QED BY <1>2, <1>4 DEF MInv, AnswersBacked

\* What a verb finds done under its key is backed, a reversal found by its target's slot too.
LEMMA ReplaysBacked ==
    ASSUME MInv, NEW c \in Calls, NEW a \in Replays(c)
    PROVE  Backed(c, a)
<1>1. CASE c.verb = "reverse_entry"
  <2>1. a \in ReversalsOf(c.entry) /\ entry[a].key = c.key /\ c.entry \in Entry
    BY <1>1, CallFields DEF Replays
  <2>2. a \in Posted /\ entry[a].reverses = c.entry /\ c.entry # NoEntry
    BY <2>1, LedgerAssumptions DEF ReversalsOf, NoEntry
  <2>3. entry[a].source = "reversal"
    BY <2>2 DEF MInv, IInv, OnlyReversalsReverse
  <2>4. PICK m \in memo : Records(m, a)
    BY <2>2, <2>3 DEF MInv, Memory, ReversalsRemembered
  <2> QED BY <1>1, <2>1, <2>2, <2>4 DEF Backed, Records, SameAct
<1>2. CASE c.verb # "reverse_entry"
  <2>1. \E m \in Recalled(c) : a = m.answer
    BY <1>2 DEF Replays
  <2> QED BY <2>1 DEF Recalled, Backed
<1> QED BY <1>1, <1>2

\* An answer is told only if nobody spent its key on anything else, so it is the caller's own.
LEMMA AnswerKeeps == ASSUME MInv, NEW p \in Proc, Answer(p) PROVE OksRemembered'
<1>1. memo' = memo /\ OksRemembered /\ Memory
  BY DEF Answer, db, MInv
<1>2. CASE answered' = answered
  BY <1>1, <1>2 DEF OksRemembered
<1>3. CASE Told(call[p].c) /\ answered' = answered \cup {[by |-> call[p].c, answer |-> call[p].ans]}
  <2>1. PICK m \in memo : SameAct(m.by, call[p].c) /\ m.answer = call[p].ans
    BY DEF MInv, AnswersBacked, Answer, Backed
  <2>2. m.by \in spent
    BY <1>1 DEF Memory, ActsAreTrue, Acts
  <2>3. m.by = call[p].c
    BY <1>3, <2>1, <2>2 DEF Told, Conflict, SameAct
  <2> QED BY <1>1, <1>3, <2>1, <2>3 DEF OksRemembered
<1> QED BY <1>2, <1>3 DEF Answer

LEMMA MemoryStep == MInv /\ [Next]_vars => MInv'
<1> SUFFICES ASSUME MInv, [Next]_vars PROVE MInv'
  OBVIOUS
<1>1. IInv /\ IInv'
  BY TypeStep, TargetsStep, JournalStep DEF MInv, IInv
<1>2. CASE UNCHANGED vars
  BY <1>1, <1>2 DEF vars, db, books, MInv, Memory, ActsAreTrue, Acts, ActsAreKeyed, ReversalsRemembered, Records,
                    Posted, ReversalsOf, AnswersBacked, Backed, OksRemembered
<1>3. UNCHANGED <<memo, answered>> => OksRemembered'
  BY DEF MInv, OksRemembered
<1>4. ASSUME NEW p \in Proc, NEW c \in Calls, Begin(p, c) PROVE MInv'
  <2>1. Checking(c).stage # "answer" /\ Goes(p, Checking(c)) /\ UNCHANGED <<entry, memo, spent, answered>>
    BY <1>4 DEF Begin, Checking, At, db, books
  <2> QED BY <1>1, <1>3, <2>1, QuietKeeps
<1>5. ASSUME NEW p \in Proc, Replay(p) \/ ReplayLate(p) PROVE MInv'
  <2>1. call[p].c \in Calls /\ UNCHANGED <<entry, memo, spent, answered>>
    BY <1>1, <1>5, InFlight DEF Replay, ReplayLate, IInv, db, books
  <2>2. PICK a : Goes(p, Answering(call[p].c, a)) /\ Backed(call[p].c, a)
    <3>1. CASE Replay(p)
      BY <2>1, <3>1, ReplaysBacked DEF Replay
    <3>2. CASE ReplayLate(p)
      BY <3>2 DEF ReplayLate, Recalled, Backed
    <3> QED BY <1>5, <3>1, <3>2
  <2>3. PICK r : r = Answering(call[p].c, a)
    OBVIOUS
  <2>4. r = Answering(call[p].c, a) /\ r.c = call[p].c /\ r.ans = a
    BY <2>3 DEF Answering, At
  <2> QED BY <1>1, <1>3, <2>1, <2>2, <2>4, QuietKeeps
<1>6. ASSUME NEW p \in Proc, Check(p) \/ CheckPeriod(p) PROVE MInv'
  <2>1. PICK r : Goes(p, r) /\ r.stage # "answer"
    BY <1>6 DEF Check, CheckPeriod, At
  <2>2. UNCHANGED <<entry, memo, spent, answered>>
    BY <1>6 DEF Check, CheckPeriod, db, books
  <2> QED BY <1>1, <1>3, <2>1, <2>2, QuietKeeps
<1>7. ASSUME NEW p \in Proc, Refuse(p) \/ RollBack(p) \/ Crash(p) PROVE MInv'
  <2>1. Goes(p, Idle) /\ UNCHANGED <<entry, memo, spent, answered>>
    BY <1>7 DEF Refuse, RollBack, Crash, db, books
  <2> QED BY <1>1, <1>3, <2>1, CallStatesMade, QuietKeeps
<1>8. ASSUME NEW p \in Proc, Answer(p) PROVE MInv'
  <2>1. Goes(p, Idle) /\ UNCHANGED <<entry, memo, spent>>
    BY <1>8 DEF Answer, db, books
  <2> QED BY <1>1, <1>8, <2>1, AnswerKeeps, CallStatesMade, QuietKeeps
<1>9. ASSUME NEW p \in Proc, Commit(p) PROVE MInv'
  BY <1>1, <1>9, CommitKeeps
<1> QED BY <1>2, <1>4, <1>5, <1>6, <1>7, <1>8, <1>9 DEF Next

LEMMA MemoryInvariant == Spec => []MInv
<1>1. Init => Memory /\ AnswersBacked /\ OksRemembered
  <2> SUFFICES ASSUME Init PROVE Memory /\ AnswersBacked /\ OksRemembered
    OBVIOUS
  <2>1. Posted = {} /\ memo = {} /\ answered = {} /\ \A p \in Proc : call[p].stage = "idle"
    BY CallStatesMade DEF Init, Posted, NoRow
  <2> QED BY <2>1 DEF Memory, ActsAreTrue, ActsAreKeyed, ReversalsRemembered, AnswersBacked, OksRemembered
<1>2. Memory /\ AnswersBacked /\ OksRemembered /\ IInv => MInv
  BY DEF MInv
<1> QED BY <1>1, <1>2, MemoryStep, Invariant, PTL DEF Spec

\* An ok names an act done with the caller's own arguments, and a repeated call is told the same again,
\* however many processes answer and die: a key means one call, and the answer is its memo's.
\* (claimIdempotencyArgs before, inside and after the transaction; recallIdempotent)
THEOREM AnswersAreOwn == Spec => []AnswersHold
<1>1. MInv => AnswersHold
  <2> SUFFICES ASSUME MInv PROVE AnswersHold
    OBVIOUS
  <2>1. AnswersOwnAct
    <3>1. ASSUME NEW a \in answered
          PROVE  \E m \in memo : m.by = a.by /\ m.answer = a.answer /\ Acts(m)
      BY DEF MInv, OksRemembered, Memory, ActsAreTrue
    <3> QED BY <3>1 DEF AnswersOwnAct, Acts
  <2>2. StableAnswer
    <3>1. ASSUME NEW a \in answered, NEW b \in answered, a.by = b.by PROVE a.answer = b.answer
      <4>1. PICK m \in memo : m.by = a.by /\ m.answer = a.answer
        BY DEF MInv, OksRemembered
      <4>2. PICK n \in memo : n.by = b.by /\ n.answer = b.answer
        BY DEF MInv, OksRemembered
      <4>3. SameAct(m.by, n.by)
        BY <3>1, <4>1, <4>2 DEF SameAct
      <4> QED BY <4>1, <4>2, <4>3 DEF MInv, Memory, ActsAreKeyed
    <3> QED BY <3>1 DEF StableAnswer
  <2> QED BY <2>1, <2>2 DEF AnswersHold
<1> QED BY <1>1, MemoryInvariant, PTL

-----------------------------------------------------------------------------
(* Closing a year *)

\* A lock verb closes nothing: a year seal is the close's alone.
LEMMA RelockedNotClosed ==
    ASSUME NEW c \in Calls, NEW seen, NEW held,
           c.verb \in {"close_month", "reopen_month", "lock_period", "lock_period_sealed", "unlock_period"},
           Relocked(c, seen, held) = "closed"
    PROVE  held = "closed"
<1>1. c.kind \in {"soft", "hard"}
  BY CallFields
<1>2. CASE c.verb \in {"close_month", "reopen_month"}
  BY <1>2 DEF Relocked
<1>3. CASE c.verb = "lock_period"
  BY <1>1, <1>3 DEF Relocked
<1>4. CASE c.verb \in {"lock_period_sealed", "unlock_period"}
  BY <1>4 DEF Relocked
<1> QED BY <1>2, <1>3, <1>4

\* What a step does to the locks.
LEMMA LockStep ==
    ASSUME TypeOK, [Next]_vars
    PROVE  \/ UNCHANGED lock
           \/ \E p \in Proc : /\ CommitLock(p) /\ call[p].c \in Calls /\ call[p].c.period \in Period
                              /\ lock' = [lock EXCEPT ![call[p].c.period] =
                                            Relocked(call[p].c, call[p].seen, lock[call[p].c.period])]
           \/ \E p \in Proc : /\ CommitClose(p) /\ call[p].c.period \in Year
                              /\ lock' = [lock EXCEPT ![call[p].c.period] = "closed"]
<1>1. ASSUME NEW p \in Proc, CommitLock(p)
      PROVE  /\ call[p].c \in Calls /\ call[p].c.period \in Period
             /\ lock' = [lock EXCEPT ![call[p].c.period] =
                           Relocked(call[p].c, call[p].seen, lock[call[p].c.period])]
  BY <1>1, InFlight, CallFields DEF CommitLock, MayCommit
<1>2. ASSUME NEW p \in Proc, CommitClose(p)
      PROVE  call[p].c.period \in Year /\ lock' = [lock EXCEPT ![call[p].c.period] = "closed"]
  BY <1>2, InFlight, CallFields DEF CommitClose, MayCommit
<1>3. ASSUME NEW p \in Proc, CommitPost(p) \/ CommitReverse(p) \/ CommitDraft(p) \/ CommitDelete(p)
      PROVE  UNCHANGED lock
  BY <1>3 DEF CommitPost, CommitReverse, CommitDraft, CommitDelete
<1> QED
  BY <1>1, <1>2, <1>3
     DEF Next, vars, db, Begin, Replay, Check, CheckPeriod, Refuse, Commit, ReplayLate, RollBack, Answer, Crash

\* What a close does to the sums of the year.
LEMMA CloseSums ==
    ASSUME TypeOK, NEW p \in Proc, CommitClose(p)
    PROVE  /\ plNet'[call[p].c.period] = 0 /\ bal2979' = 0
           /\ \A y \in Year \ {call[p].c.period} : plNet'[y] = plNet[y]
<1>1. PICK y \in Year, n \in Int : y = call[p].c.period /\ n = call[p].net
  BY InFlight, CallFields DEF CommitClose, MayCommit
<1>2. Sums(y, -n, 0, -bal2979) /\ plNet[y] - n = 0
  BY <1>1 DEF CommitClose, Closes, Swept
<1>3. plNet \in [Year -> Int] /\ plNet[y] \in Int /\ bal2979 \in Int
  BY DEF TypeOK
<1>4. plNet' = [plNet EXCEPT ![y] = plNet[y] + -n] /\ bal2979' = bal2979 + -bal2979
  BY <1>2 DEF Sums
<1>5. plNet[y] + -n = 0 /\ bal2979 + -bal2979 = 0
  BY <1>1, <1>2, <1>3
<1> QED BY <1>1, <1>3, <1>4, <1>5

\* Whatever was posted between a sweep's computation and its transaction, by whichever process, the step
\* that closes a year leaves its income statement and account 2979 at zero.  (unsweptAfterClose)
THEOREM CloseSweeps == Spec => ClosedSwept
<1> DEFINE Sweeps == \A y \in Year : (lock[y] # "closed" /\ lock'[y] = "closed") => (plNet'[y] = 0 /\ bal2979' = 0)
<1>1. TypeOK /\ [Next]_vars => [Sweeps]_lock
  <2> SUFFICES ASSUME TypeOK, [Next]_vars, NEW y \in Year, lock[y] # "closed", lock'[y] = "closed"
               PROVE  plNet'[y] = 0 /\ bal2979' = 0
    OBVIOUS
  <2>1. lock \in [Period -> LockStates] /\ y \in Period
    BY DEF TypeOK, Period
  <2>2. ASSUME NEW p \in Proc, CommitLock(p), call[p].c \in Calls, call[p].c.period \in Period,
               lock' = [lock EXCEPT ![call[p].c.period] = Relocked(call[p].c, call[p].seen, lock[call[p].c.period])]
        PROVE  FALSE
    <3>1. call[p].c.verb \in {"close_month", "reopen_month", "lock_period", "lock_period_sealed", "unlock_period"}
      BY <2>2 DEF CommitLock, MayCommit
    <3>2. y = call[p].c.period /\ Relocked(call[p].c, call[p].seen, lock[y]) = "closed"
      BY <2>1, <2>2
    <3> QED BY <2>2, <3>1, <3>2, RelockedNotClosed
  <2>3. ASSUME NEW p \in Proc, CommitClose(p), lock' = [lock EXCEPT ![call[p].c.period] = "closed"]
        PROVE  plNet'[y] = 0 /\ bal2979' = 0
    <3>1. y = call[p].c.period
      BY <2>1, <2>3
    <3> QED BY <2>3, <3>1, CloseSums
  <2> QED BY <2>2, <2>3, LockStep
<1> QED BY <1>1, TypeCorrect, PTL DEF Spec, ClosedSwept

-----------------------------------------------------------------------------
(* Locks *)

LockVerbs == {"close_month", "reopen_month", "lock_period", "lock_period_sealed", "unlock_period"}

\* Only bookings look at the period in a step of their own.
PeriodIsBooking == \A p \in Proc : call[p].stage = "period" => call[p].c.verb \in Bookings

\* The guards a call passed would still pass.
Stands(r) ==
    r.stage = "commit" =>
        /\ r.c.verb \in Bookings => Admits("manual", r.c.month)
        /\ r.c.verb = "reopen_month" => Reopens(lock[r.c.period])
        /\ r.c.verb = "unlock_period" => lock[r.c.period] \notin Seals

\* Who was not overtaken stands on its guards; what it posts is no stray, so closed years stay swept.
LInv ==
    /\ TypeOK /\ PeriodIsBooking /\ ClosedStaysSwept /\ strays \subseteq Posted
    /\ \A p \in Proc : p \in late \/ Stands(call[p])

\* What a step makes of the process that takes it: it left its transaction, or it enters one on the locks
\* as they are.
LEMMA OneMoves ==
    ASSUME TypeOK, PeriodIsBooking, Next
    PROVE  \E p \in Proc : /\ \A q \in Proc \ {p} : call'[q] = call[q]
                           /\ Stands(call'[p]) \/ call'[p].stage # "commit"
                           /\ call'[p].stage = "period" => call'[p].c.verb \in Bookings
                           /\ call'[p].stage = "commit" => UNCHANGED db
<1> DEFINE Fits(r) == /\ Stands(r) \/ r.stage # "commit"
                      /\ r.stage = "period" => r.c.verb \in Bookings
                      /\ r.stage = "commit" => UNCHANGED db
<1>1. ASSUME NEW p \in Proc, NEW r, Goes(p, r), Fits(r)
      PROVE  /\ \A q \in Proc \ {p} : call'[q] = call[q]
             /\ Fits(call'[p])
  <2>1. call' = [call EXCEPT ![p] = r] /\ call \in [Proc -> CallStates]
    BY <1>1 DEF Goes, TypeOK
  <2>2. call'[p] = r /\ \A q \in Proc \ {p} : call'[q] = call[q]
    BY <2>1
  <2> HIDE DEF Fits
  <2> QED BY <1>1, <2>2
<1>2. ASSUME NEW p \in Proc, NEW c \in Calls, Begin(p, c) PROVE \E r : Goes(p, r) /\ Fits(r)
  <2>1. Checking(c).stage = "check"
    BY DEF Checking, At
  <2> QED BY <1>2, <2>1 DEF Begin
<1>3. ASSUME NEW p \in Proc, Replay(p) \/ ReplayLate(p) PROVE \E r : Goes(p, r) /\ Fits(r)
  <2>1. PICK a : Goes(p, Answering(call[p].c, a))
    BY <1>3 DEF Replay, ReplayLate
  <2>2. Answering(call[p].c, a).stage = "answer"
    BY DEF Answering, At
  <2> QED BY <2>1, <2>2
<1>4. ASSUME NEW p \in Proc, CheckPeriod(p) PROVE \E r : Goes(p, r) /\ Fits(r)
  <2>1. PICK r : Goes(p, r) /\ r.stage = "commit" /\ r.c = call[p].c
    BY <1>4 DEF CheckPeriod, At
  <2>2. Admits("manual", r.c.month) /\ UNCHANGED db /\ r.c.verb \in Bookings
    BY <1>4, <2>1 DEF CheckPeriod, PeriodIsBooking
  <2>3. Stands(r)
    BY <2>2 DEF Stands, Bookings
  <2> QED BY <2>1, <2>2, <2>3
<1>5. ASSUME NEW p \in Proc, Refuse(p) \/ RollBack(p) \/ Crash(p) \/ Answer(p) PROVE \E r : Goes(p, r) /\ Fits(r)
  <2>1. Goes(p, Idle) /\ Idle.stage = "idle"
    BY <1>5, CallStatesMade DEF Refuse, RollBack, Crash, Answer
  <2> QED BY <2>1
<1>6. ASSUME NEW p \in Proc, Check(p) PROVE \E r : Goes(p, r) /\ Fits(r)
  <2>1. PICK r : /\ Goes(p, r) /\ r.c = call[p].c
                 /\ r.stage = IF call[p].c.verb \in {"post_entry", "reverse_entry"} THEN "period" ELSE "commit"
    BY <1>6 DEF Check, At
  <2>2. Guards(call[p].c) /\ UNCHANGED db
    BY <1>6 DEF Check
  <2>3. CASE r.c.verb \in Bookings
    BY <2>1, <2>3 DEF Bookings
  <2>4. CASE r.c.verb = "reopen_month"
    BY <2>1, <2>2, <2>4 DEF Stands, Guards, Bookings
  <2>5. CASE r.c.verb = "unlock_period"
    BY <2>1, <2>2, <2>5 DEF Stands, Guards, Seals, Bookings
  <2>6. CASE r.c.verb \notin Bookings \cup {"reopen_month", "unlock_period"}
    BY <2>1, <2>2, <2>6 DEF Stands, Bookings
  <2> QED BY <2>3, <2>4, <2>5, <2>6
<1>7. ASSUME NEW p \in Proc, Commit(p) PROVE \E r : Goes(p, r) /\ Fits(r)
  <2>1. PICK a : Remembers(p, a)
    BY <1>7 DEF Commit, CommitPost, CommitReverse, CommitDraft, CommitDelete, CommitLock, CommitClose
  <2>2. Goes(p, Answering(call[p].c, a)) /\ Answering(call[p].c, a).stage = "answer"
    BY <2>1 DEF Remembers, Answering, At
  <2> QED BY <2>2
<1>8. \E p \in Proc : \E r : Goes(p, r) /\ Fits(r)
  <2> HIDE DEF Fits
  <2> QED BY <1>2, <1>3, <1>4, <1>5, <1>6, <1>7 DEF Next
<1>9. PICK p \in Proc : \E r : Goes(p, r) /\ Fits(r)
  BY <1>8
<1> QED BY <1>1, <1>9

\* Whoever is not overtaken stands, and only bookings look at the period in a step of their own.
LEMMA StandsStep ==
    ASSUME LInv, WNext
    PROVE  PeriodIsBooking' /\ \A p \in Proc : p \in late' \/ Stands(call[p])'
<1>1. PICK p \in Proc : /\ \A q \in Proc \ {p} : call'[q] = call[q]
                        /\ Stands(call'[p]) \/ call'[p].stage # "commit"
                        /\ call'[p].stage = "period" => call'[p].c.verb \in Bookings
                        /\ call'[p].stage = "commit" => UNCHANGED db
  BY OneMoves DEF LInv, WNext
<1>2. PeriodIsBooking'
  BY <1>1 DEF LInv, PeriodIsBooking
<1>3. ASSUME NEW q \in Proc, q # p, q \notin late' PROVE Stands(call[q])'
  <2>1. call'[q] = call[q]
    BY <1>1, <1>3
  <2>2. CASE call[q].stage # "commit"
    BY <2>1, <2>2 DEF Stands
  <2>3. CASE call[q].stage = "commit"
    <3>1. q \notin late /\ ~Overtakes(call[q].c)
      BY <1>3, <2>1, <2>3 DEF WNext
    <3> DEFINE r == call[q]
    <3>2. Stands(r)
      BY <3>1 DEF LInv
    <3>3. call'[q].c = r.c /\ call'[q].stage = r.stage
      BY <2>1
    <3>4. CASE r.c.verb \in Bookings
      <4>1. lock'[r.c.month] = lock[r.c.month] /\ lock'[YearOf[r.c.month]] = lock[YearOf[r.c.month]]
        BY <3>1, <3>4 DEF Overtakes, Concerns
      <4> QED BY <2>1, <3>2, <3>4, <4>1 DEF Stands, Admits, PeriodOpen, Bookings
    <3>5. CASE r.c.verb \notin Bookings
      <4>1. lock'[r.c.period] = lock[r.c.period]
        BY <3>1, <3>5 DEF Overtakes, Concerns
      <4> QED BY <2>1, <3>2, <3>5, <4>1 DEF Stands
    <3> QED BY <3>4, <3>5
  <2> QED BY <2>2, <2>3
<1>4. Stands(call[p])'
  <2>1. CASE call'[p].stage # "commit"
    BY <2>1 DEF Stands
  <2>2. CASE call'[p].stage = "commit"
    BY <1>1, <2>2 DEF Stands, db, Admits, PeriodOpen, YearSealed
  <2> QED BY <2>1, <2>2
<1> QED BY <1>2, <1>3, <1>4

\* Who commits a booking without being late books into an open period.
LEMMA OpenUnlessLate ==
    ASSUME LInv, NEW p \in Proc, CommitPost(p) \/ CommitReverse(p)
    PROVE  /\ Committing(p, Bookings) /\ call'[p] # call[p]
           /\ p \in late \/ PeriodOpen(call[p].c.month)
<1>1. Committing(p, Bookings)
  BY DEF CommitPost, CommitReverse, MayCommit, Committing, Bookings
<1>2. PICK a : Goes(p, Answering(call[p].c, a))
  BY DEF CommitPost, CommitReverse, Remembers
<1>3. Answering(call[p].c, a).stage = "answer"
  BY DEF Answering, At
<1>4. call'[p] = Answering(call[p].c, a)
  BY <1>2 DEF Goes, LInv, TypeOK
<1>5. call'[p] # call[p]
  BY <1>1, <1>3, <1>4 DEF Committing
<1>6. p \in late \/ PeriodOpen(call[p].c.month)
  BY <1>1 DEF LInv, Stands, Committing, Admits, Bookings
<1> QED BY <1>1, <1>5, <1>6

\* What is posted stays posted, in its month.
LEMMA PostedStays ==
    ASSUME LInv, [Next]_vars
    PROVE  Posted \subseteq Posted' /\ \A e \in Posted : entry'[e] = entry[e]
BY PostedKept DEF LInv, Posted

\* The entry a booking posts, in the month of its call.
LEMMA BookedOne ==
    ASSUME TypeOK, NEW p \in Proc, CommitPost(p) \/ CommitReverse(p)
    PROVE  \E e \in Entry \ Posted : /\ Posted' = Posted \cup {e}
                                     /\ entry'[e].month = call[p].c.month /\ entry'[e].source # "close"
<1>1. CASE CommitPost(p)
  <2>1. PICK e \in Entry \ Posted :
          /\ Posted' = Posted \cup {e}
          /\ entry'[e] = [status |-> "posted", source |-> "manual", month |-> call[p].c.month, reverses |-> NoEntry,
                         key |-> call[p].c.key, pl |-> call[p].c.pl, carry |-> call[p].c.carry]
    BY <1>1, PostEffect
  <2>2. entry'[e].month = call[p].c.month /\ entry'[e].source # "close"
    BY <2>1
  <2> QED BY <2>1, <2>2
<1>2. CASE CommitReverse(p)
  <2>1. PICK e \in Entry \ Posted :
          /\ Posted' = Posted \cup {e}
          /\ entry'[e] = [status |-> "posted", source |-> "reversal", month |-> call[p].c.month,
                         reverses |-> call[p].c.entry, key |-> call[p].c.key,
                         pl |-> -entry[call[p].c.entry].pl, carry |-> -entry[call[p].c.entry].carry]
    BY <1>2, ReverseEffect
  <2>2. entry'[e].month = call[p].c.month /\ entry'[e].source # "close"
    BY <2>1
  <2> QED BY <2>1, <2>2
<1> QED BY <1>1, <1>2

\* A booking moves the sums of its own year only, and what a late one posts is a stray.
LEMMA BookingKeepsYears ==
    ASSUME LInv, WNext, NEW p \in Proc, CommitPost(p) \/ CommitReverse(p), NEW y \in Year, lock'[y] = "closed"
    PROVE  plNet'[y] = 0 \/ \E e \in strays' : YearOf[entry'[e].month] = y
<1>1. PICK c \in Calls : c = call[p].c
  BY InFlight DEF LInv, CommitPost, CommitReverse, MayCommit
<1>2. lock' = lock
  BY DEF CommitPost, CommitReverse
<1>3. PICK x, n, z : Sums(YearOf[c.month], x, n, z)
  BY <1>1 DEF CommitPost, CommitReverse
<1>4. \A e \in strays : e \in strays' /\ entry'[e] = entry[e]
  BY PostedStays DEF LInv, WNext
<1>5. CASE y # YearOf[c.month]
  <2>1. plNet'[y] = plNet[y]
    BY <1>3, <1>5 DEF LInv, TypeOK, Sums
  <2> QED BY <1>2, <1>4, <2>1 DEF LInv, ClosedStaysSwept
<1>6. CASE y = YearOf[c.month]
  <2>1. lock[y] # "none"
    BY <1>2
  <2>2. p \in late /\ Commits(p, Bookings)
    BY <1>1, <1>6, <2>1, OpenUnlessLate DEF PeriodOpen, Commits
  <2>3. PICK e \in Entry \ Posted : Posted' = Posted \cup {e} /\ entry'[e].month = c.month
    BY <1>1, BookedOne DEF LInv
  <2>4. e \in strays'
    BY <2>2, <2>3 DEF WNext
  <2> QED BY <1>6, <2>3, <2>4
<1> QED BY <1>5, <1>6

\* A closed year stays swept but for strays.
LEMMA ClosedStep ==
    ASSUME LInv, WNext
    PROVE  ClosedStaysSwept' /\ strays' \subseteq Posted'
<1>1. Posted \subseteq Posted' /\ \A e \in Posted : entry'[e] = entry[e]
  BY PostedStays DEF WNext
<1>2. strays \subseteq strays' /\ strays' \subseteq Posted'
  BY <1>1 DEF LInv, WNext
<1>3. SUFFICES ASSUME NEW y \in Year, lock'[y] = "closed"
               PROVE  plNet'[y] = 0 \/ \E e \in strays' : YearOf[entry'[e].month] = y
  BY <1>2 DEF ClosedStaysSwept
<1>4. CASE lock[y] = "closed" /\ plNet'[y] = plNet[y]
  BY <1>1, <1>2, <1>4 DEF LInv, ClosedStaysSwept
<1>5. ASSUME NEW p \in Proc, CommitPost(p) \/ CommitReverse(p)
      PROVE  plNet'[y] = 0 \/ \E e \in strays' : YearOf[entry'[e].month] = y
  BY <1>3, <1>5, BookingKeepsYears
<1>6. ASSUME NEW p \in Proc, CommitLock(p) PROVE lock[y] = "closed" /\ plNet' = plNet
  <2>1. lock \in [Period -> LockStates] /\ y \in Period
    BY DEF LInv, TypeOK, Period
  <2>2. call[p].c \in Calls /\ call[p].c.verb \in LockVerbs
    BY <1>6, InFlight DEF CommitLock, MayCommit, LockVerbs, LInv
  <2>3. PICK d : d = call[p].c.period
    OBVIOUS
  <2>4. lock' = [lock EXCEPT ![d] = Relocked(call[p].c, call[p].seen, lock[d])] /\ plNet' = plNet
    BY <1>6, <2>3 DEF CommitLock, books
  <2> QED BY <1>3, <2>1, <2>2, <2>4, RelockedNotClosed DEF LockVerbs
<1>7. ASSUME NEW p \in Proc, CommitClose(p) PROVE plNet'[y] = 0 \/ (lock[y] = "closed" /\ plNet'[y] = plNet[y])
  <2>1. lock' = [lock EXCEPT ![call[p].c.period] = "closed"] /\ lock \in [Period -> LockStates] /\ y \in Period
    BY <1>7 DEF CommitClose, LInv, TypeOK, Period
  <2>2. CASE y = call[p].c.period
    BY <1>7, <2>2, CloseSums DEF LInv
  <2>3. CASE y # call[p].c.period
    BY <1>3, <1>7, <2>1, <2>3, CloseSums DEF LInv
  <2> QED BY <2>2, <2>3
<1>8. ASSUME NEW p \in Proc, CommitDraft(p) \/ CommitDelete(p) PROVE lock' = lock /\ plNet' = plNet
  BY <1>8 DEF CommitDraft, CommitDelete
<1>9. \/ \E p \in Proc : Commit(p)
      \/ lock' = lock /\ plNet' = plNet
  BY DEF WNext, Next, db, books, Begin, Replay, Check, CheckPeriod, Refuse, ReplayLate, RollBack, Answer, Crash
<1> QED BY <1>3, <1>4, <1>5, <1>6, <1>7, <1>8, <1>9 DEF Commit

LEMMA LocksStep == LInv /\ [WNext]_watched => LInv'
<1> SUFFICES ASSUME LInv, [WNext]_watched PROVE LInv'
  OBVIOUS
<1>1. CASE UNCHANGED watched
  BY <1>1 DEF watched, vars, db, books, LInv, TypeOK, PeriodIsBooking, ClosedStaysSwept, Posted, Stands, Admits,
              PeriodOpen, YearSealed
<1>2. CASE WNext
  <2>1. TypeOK'
    BY <1>2, TypeStep DEF LInv, WNext
  <2> QED BY <1>2, <2>1, StandsStep, ClosedStep DEF LInv
<1> QED BY <1>1, <1>2

LEMMA LocksInvariant == Watched => []LInv
<1>1. WInit => LInv
  <2> SUFFICES ASSUME WInit PROVE LInv
    OBVIOUS
  <2>1. Init /\ late = {} /\ strays = {}
    BY DEF WInit
  <2>2. \A p \in Proc : Stands(call[p]) /\ call[p].stage # "period"
    BY <2>1, CallStatesMade DEF Init, Stands
  <2> QED BY <2>1, <2>2, TypeInit DEF Init, LInv, ClosedStaysSwept, PeriodIsBooking
<1>2. LInv /\ [WNext]_watched => LInv'
  BY LocksStep
<1> QED BY <1>1, <1>2, PTL DEF Watched

\* A closed year stays swept, whichever processes race, but for what a call posts into it that was past
\* its guards when the year was locked.  (hardCloseYear's contract)
THEOREM ClosedIsSwept == Watched => []ClosedStaysSwept
<1>1. LInv => ClosedStaysSwept
  BY DEF LInv
<1> QED BY <1>1, LocksInvariant, PTL

\* A row that flips to posted: a booking of an open period or of a late call, or the close's own.
LEMMA PostedUnderLock ==
    ASSUME LInv, WNext, NEW e \in Entry, entry[e].status # "posted", entry'[e].status = "posted"
    PROVE  LET m == entry'[e].month
           IN  IF entry'[e].source = "close" THEN lock[YearOf[m]] # "closed"
               ELSE (lock[m] = "none" /\ lock[YearOf[m]] = "none") \/ e \in strays'
<1>1. TypeOK /\ e \notin Posted /\ e \in Posted'
  BY DEF LInv, Posted
<1>2. CASE UNCHANGED entry
  BY <1>2
<1>3. ASSUME NEW p \in Proc, CommitPost(p) \/ CommitReverse(p)
      PROVE  /\ entry'[e].source # "close"
             /\ PeriodOpen(entry'[e].month) \/ e \in strays'
  <2>1. PICK f \in Entry \ Posted : /\ Posted' = Posted \cup {f}
                                    /\ entry'[f].month = call[p].c.month /\ entry'[f].source # "close"
    BY <1>1, <1>3, BookedOne
  <2>2. e = f
    BY <1>1, <2>1
  <2>3. CASE p \in late
    <3>1. Commits(p, Bookings)
      BY <1>3, OpenUnlessLate DEF Commits
    <3> QED BY <1>1, <2>1, <2>2, <2>3, <3>1 DEF WNext
  <2>4. CASE p \notin late
    BY <1>3, <2>1, <2>2, <2>4, OpenUnlessLate
  <2> QED BY <2>1, <2>2, <2>3, <2>4
<1>4. ASSUME NEW p \in Proc, CommitDraft(p) \/ CommitDelete(p) PROVE FALSE
  BY <1>1, <1>4, DraftEffect
<1>5. ASSUME NEW p \in Proc, CommitClose(p)
      PROVE  entry'[e].source = "close" /\ lock[YearOf[entry'[e].month]] # "closed"
  <2>1. PICK y \in Year, n \in Int : y = call[p].c.period /\ n = call[p].net
    BY <1>1, <1>5, InFlight, CallFields DEF CommitClose, MayCommit
  <2>2. PICK sweep \in Entry \cup {NoEntry}, carried \in Entry \cup {NoEntry} :
             /\ Posted' = Posted \cup ({sweep, carried} \ {NoEntry})
             /\ sweep = NoEntry <=> n = 0
             /\ carried = NoEntry <=> bal2979 + n = 0
             /\ sweep # NoEntry => entry'[sweep] = CloseRow(call[p].c, -n, n)
             /\ carried # NoEntry => entry'[carried] = CloseRow(call[p].c, 0, -(bal2979 + n))
    BY <1>1, <1>5, <2>1, CloseEffect
  <2>3. n # 0 \/ bal2979 + n # 0
    BY <1>1, <2>2
  <2>4. entry'[e].source = "close" /\ entry'[e].month = LastMonth[y]
    BY <1>1, <2>1, <2>2 DEF CloseRow
  <2>5. Admits("close", LastMonth[y])
    BY <1>5, <2>1, <2>3 DEF CommitClose, Closes
  <2> QED BY <2>4, <2>5 DEF Admits, YearSealed
<1>6. PeriodOpen(entry'[e].month) => lock[entry'[e].month] = "none" /\ lock[YearOf[entry'[e].month]] = "none"
  BY DEF PeriodOpen
<1>7. [Next]_vars
  BY DEF WNext
<1> QED BY <1>1, <1>2, <1>3, <1>4, <1>5, <1>6, <1>7, EntryStep

\* Who takes a seal off was past its guards when the seal landed.
LEMMA SealKept ==
    ASSUME LInv, WNext, NEW d \in Period, lock[d] \in Seals, lock'[d] \notin Seals
    PROVE  \E p \in late : Commits(p, Lifts) /\ call[p].c.period = d
<1>1. TypeOK /\ lock \in [Period -> LockStates] /\ [Next]_vars
  BY DEF LInv, TypeOK, WNext
<1>2. ASSUME NEW p \in Proc, CommitLock(p), call[p].c \in Calls,
             lock' = [lock EXCEPT ![call[p].c.period] = Relocked(call[p].c, call[p].seen, lock[call[p].c.period])]
      PROVE  \E q \in late : Commits(q, Lifts) /\ call[q].c.period = d
  <2>1. call[p].c.verb \in LockVerbs /\ call[p].stage = "commit"
    BY <1>2 DEF CommitLock, MayCommit, LockVerbs
  <2>2. d = call[p].c.period
    BY <1>1, <1>2
  <2>3. lock'[d] = Relocked(call[p].c, call[p].seen, lock[d])
    BY <1>1, <1>2, <2>2
  <2>4. call[p].c.verb \in Lifts
    BY <2>1, <2>3 DEF Relocked, LockVerbs, Lifts, Seals
  <2>5. p \in late
    BY <2>1, <2>2, <2>4 DEF LInv, Stands, Reopens, Seals, Lifts
  <2>6. call'[p] # call[p]
    <3>1. PICK a : Goes(p, Answering(call[p].c, a))
      BY <1>2 DEF CommitLock, Remembers
    <3>2. call'[p] = Answering(call[p].c, a)
      BY <1>1, <3>1 DEF Goes, TypeOK
    <3> QED BY <2>1, <3>2 DEF Answering, At
  <2> QED BY <2>1, <2>2, <2>4, <2>5, <2>6 DEF Commits, Committing
<1>3. ASSUME NEW p \in Proc, lock' = [lock EXCEPT ![call[p].c.period] = "closed"] PROVE FALSE
  BY <1>1, <1>3 DEF Seals
<1> QED BY <1>1, <1>2, <1>3, LockStep

\* A lock means what it says to every call that began, or passed its guards, after it: nothing new gets
\* under it, and a seal is never taken off.  (previewPostingLines, lockPeriod)
THEOREM LocksAreKept == Watched => LocksHold
<1> DEFINE Open == \A e \in Entry : (entry[e].status # "posted" /\ entry'[e].status = "posted")
                     => LET m == entry'[e].month IN
                        IF entry'[e].source = "close" THEN lock[YearOf[m]] # "closed"
                        ELSE (lock[m] = "none" /\ lock[YearOf[m]] = "none") \/ e \in strays'
           Sealed == \A d \in Period : (lock[d] \in Seals /\ lock'[d] \notin Seals)
                       => \E p \in late : Commits(p, Lifts) /\ call[p].c.period = d
<1>1. LInv /\ [WNext]_watched => [Open]_<<entry, strays>>
  BY PostedUnderLock DEF watched, vars, db, books
<1>2. LInv /\ [WNext]_watched => [Sealed]_watched
  BY SealKept
<1>3. Watched => NothingPostedIntoLock
  BY <1>1, LocksInvariant, PTL DEF Watched, NothingPostedIntoLock
<1>4. Watched => SealIsForever
  BY <1>2, LocksInvariant, PTL DEF Watched, SealIsForever
<1> QED BY <1>3, <1>4 DEF LocksHold
=============================================================================
