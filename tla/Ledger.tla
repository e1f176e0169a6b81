------------------------------- MODULE Ledger -------------------------------
(***************************************************************************)
(* The double-entry ledger of one book (src/core/ledger) as several TILL   *)
(* processes run it on one SQLite file.                                    *)
(*                                                                         *)
(* A verb is synchronous inside its process, so a process runs one call at *)
(* a time.  Between processes a call is NOT atomic: its guards are reads   *)
(* of their own, before the write transaction begins, and another process  *)
(* may commit between any two of them.  A call therefore moves through     *)
(*                                                                         *)
(*   Begin        the registry's argument claim (claimIdempotencyArgs)     *)
(*   Check        the replay of a finished act, then the verb's own guards *)
(*   CheckPeriod  assertPeriodOpen, the last guard of a posting            *)
(*   Commit       the transaction of rememberIdempotent: all or nothing    *)
(*   Answer       the registry's second look at the claim, then the answer *)
(*                                                                         *)
(* and a process may crash in any of them.  An entry's lines are abstract: *)
(* what they do to the income statement (pl) and to account 2979 (carry).  *)
(***************************************************************************)
EXTENDS Integers

CONSTANTS
    Proc,           \* the processes that hold the file open
    Entry,          \* the entry ids, handed out in ascending order
    Month, Year,    \* the periods that can carry a lock
    YearOf,         \* the fiscal year of a month
    LastMonth,      \* the month a fiscal year ends in
    Key,            \* the idempotency keys callers send
    Calls,          \* the calls the callers make, and may repeat at will
    MayUnlockHard,  \* does the actor hold the unlock_period capability
    None            \* no call

Period == Month \cup Year
NoEntry == 0        \* no such id; also the answer of a verb that books nothing

Verbs == {"post_entry", "reverse_entry", "save_draft", "delete_draft", "close_month", "reopen_month",
          "lock_period", "lock_period_sealed", "unlock_period", "close_year"}

\* What a caller sends; a field its verb does not take is a fixed dummy.
CallRecords ==
    [verb : Verbs, key : Key, entry : Entry \cup {NoEntry}, month : Month,
     period : Period, kind : {"soft", "hard"}, pl : Int, carry : Int]

ASSUME LedgerAssumptions ==
    /\ Entry \subseteq Nat \ {0}
    /\ Month # {} /\ Key # {}
    /\ Month \cap Year = {}
    /\ YearOf \in [Month -> Year]
    /\ LastMonth \in [Year -> Month]
    /\ \A y \in Year : YearOf[LastMonth[y]] = y
    /\ Calls \subseteq CallRecords
    /\ \A c \in Calls : /\ c.verb = "close_year" => c.period \in Year
                        /\ c.verb \in {"reverse_entry", "delete_draft"} => c.entry \in Entry
    /\ MayUnlockHard \in BOOLEAN
    /\ None \notin Calls

VARIABLES
    entry,     \* journal_entry and its lines, by id
    plNet,     \* SUM over the posted income and expense lines of a fiscal year
    plNative,  \* the same sum without the entries of source 'close'
    bal2979,   \* SUM over all posted lines of account 2979
    lock,      \* period_lock, by period
    memo,      \* idempotency: the finished acts and what they answered
    spent,     \* idempotency_args: the call each key was spent on
    call,      \* what each process is doing (its stack, lost in a crash)
    answered   \* every ok a caller was told (history)

books == <<entry, plNet, plNative, bal2979>>
db == <<books, lock, memo, spent>>
vars == <<db, call, answered>>

EntryRecords ==
    [status : {"none", "draft", "posted", "deleted"}, source : {"manual", "reversal", "close"},
     month : Month, reverses : Entry \cup {NoEntry}, key : Key, pl : Int, carry : Int]

\* hard locks by reason: "hard" an ordinary one, "filed" (vat_filed) and "closed" (year_close) the seals
LockStates == {"none", "soft", "hard", "filed", "closed"}
Seals == {"filed", "closed"}

\* A call in flight: its stage, what its guards read for later, and the answer once it has one.
CallStates ==
    [stage : {"idle", "check", "period", "commit", "answer"}, c : Calls \cup {None},
     net : Int, seen : LockStates, ans : Entry \cup {NoEntry}]

NoRow == [status |-> "none", source |-> "manual", month |-> CHOOSE m \in Month : TRUE,
          reverses |-> NoEntry, key |-> CHOOSE k \in Key : TRUE, pl |-> 0, carry |-> 0]

At(stage, c, net, seen, ans) == [stage |-> stage, c |-> c, net |-> net, seen |-> seen, ans |-> ans]
Idle == At("idle", None, 0, "none", NoEntry)
Checking(c) == At("check", c, 0, "none", NoEntry)
Answering(c, ans) == At("answer", c, 0, "none", ans)

Init ==
    /\ entry = [e \in Entry |-> NoRow]
    /\ plNet = [y \in Year |-> 0]
    /\ plNative = [y \in Year |-> 0]
    /\ bal2979 = 0
    /\ lock = [d \in Period |-> "none"]
    /\ memo = {}
    /\ spent = {}
    /\ call = [p \in Proc |-> Idle]
    /\ answered = {}

-----------------------------------------------------------------------------
(* Reads *)

Posted == {e \in Entry : entry[e].status = "posted"}
ReversalsOf(t) == {r \in Posted : entry[r].reverses = t}

\* The memo's primary key: the verb's scope and key, and for a reversal its target (scopedKey).
SameAct(c, d) ==
    /\ c.verb = d.verb
    /\ c.key = d.key
    /\ c.verb = "reverse_entry" => c.entry = d.entry
Recalled(c) == {m \in memo : SameAct(m.by, c)}

\* The UNIQUE slot of the entry t's reversal is free.
SlotFree_unindexed(t) == TRUE
SlotFree(t) == ReversalsOf(t) = {}

\* The row is still a draft: the triggers abort every write to a posted one, foreign keys to a deleted one.
StillDraft_untriggered(e) == TRUE
StillDraft(e) == entry[e].status = "draft"

\* The key was spent on other arguments (idempotency_key_conflict).
Conflict(c) == \E d \in spent : d.verb = c.verb /\ d.key = c.key /\ d # c

PeriodOpen_month(m) == lock[m] = "none"
PeriodOpen(m) == lock[m] = "none" /\ lock[YearOf[m]] = "none"
YearSealed(m) == "closed" \in {lock[m], lock[YearOf[m]]}

\* assertPeriodOpen as a posting honours it: a close lands over every lock but a year seal.
Admits(source, m) == IF source = "close" THEN ~YearSealed(m) ELSE PeriodOpen(m)

NextId(e, used) ==
    LET free == {d \in Entry \ used : entry[d].status = "none"}
    IN  e \in free /\ \A d \in free : e <= d

-----------------------------------------------------------------------------
(* The steps of a call before its transaction *)

Goes(p, state) == call' = [call EXCEPT ![p] = state]

Begin(p, c) ==
    /\ call[p].stage = "idle"
    /\ ~Conflict(c)
    /\ Goes(p, Checking(c))
    /\ UNCHANGED <<db, answered>>

\* What the verb finds already done under its key, before it looks at anything that may have changed:
\* a reversal by its target's slot, the others by their memo.  The verbs left out recall it only later.
Replays(c) ==
    CASE c.verb = "reverse_entry" -> {e \in ReversalsOf(c.entry) : entry[e].key = c.key}
      [] c.verb \in {"post_entry", "save_draft", "reopen_month", "unlock_period", "close_year"}
           -> {m.answer : m \in Recalled(c)}
      [] OTHER -> {}

Reopens_filed(held) == held # "closed"
Reopens(held) == held \in {"none", "soft"}

Guards(c) ==
    CASE c.verb = "post_entry" -> c.entry # NoEntry => entry[c.entry].status = "draft"
      [] c.verb = "save_draft" -> c.entry # NoEntry => entry[c.entry].status = "draft"
      [] c.verb = "delete_draft" -> entry[c.entry].status # "posted"
      [] c.verb = "reverse_entry" -> entry[c.entry].status = "posted" /\ ReversalsOf(c.entry) = {}
      [] c.verb = "reopen_month" -> c.period \in Month /\ Reopens(lock[c.period])
      [] c.verb = "close_month" -> c.period \in Month
      [] c.verb = "unlock_period" -> lock[c.period] \in {"none", "soft"} \cup (IF MayUnlockHard THEN {"hard"} ELSE {})
      [] c.verb = "close_year" -> lock[c.period] # "closed"
      [] OTHER -> TRUE

Replay(p) ==
    /\ call[p].stage = "check"
    /\ \E a \in Replays(call[p].c) : Goes(p, Answering(call[p].c, a))
    /\ UNCHANGED <<db, answered>>

\* The guards pass, and the verb keeps what it read: close_year its sweep, unlock_period the lock it saw.
Check(p) ==
    LET c == call[p].c IN
    /\ call[p].stage = "check"
    /\ Replays(c) = {}
    /\ Guards(c)
    /\ Goes(p, At(IF c.verb \in {"post_entry", "reverse_entry"} THEN "period" ELSE "commit", c,
                  IF c.verb = "close_year" THEN plNative[c.period] ELSE 0,
                  IF c.verb = "unlock_period" THEN lock[c.period] ELSE "none",
                  NoEntry))
    /\ UNCHANGED <<db, answered>>

CheckPeriod(p) ==
    /\ call[p].stage = "period"
    /\ Admits("manual", call[p].c.month)
    /\ Goes(p, At("commit", call[p].c, 0, "none", NoEntry))
    /\ UNCHANGED <<db, answered>>

\* A guard answers a refusal, nothing is written and nothing is remembered.
Refuse(p) ==
    LET c == call[p].c IN
    /\ \/ call[p].stage = "check" /\ Replays(c) = {} /\ ~Guards(c)
       \/ call[p].stage = "period" /\ ~Admits("manual", c.month)
    /\ Goes(p, Idle)
    /\ UNCHANGED <<db, answered>>

-----------------------------------------------------------------------------
(* The transaction *)

\* The bookkeeping of every transaction that wrote: the memo row and the argument record.
Remembers(p, ans) ==
    LET c == call[p].c IN
    /\ memo' = memo \cup {[by |-> c, answer |-> ans]}
    /\ spent' = spent \cup {c}
    /\ Goes(p, Answering(c, ans))
    /\ UNCHANGED answered

\* The memo row's primary key and the argument record admit the act.
Unspent_unkeyed(c) == ~Conflict(c)
Unspent(c) == Recalled(c) = {} /\ ~Conflict(c)

MayCommit(p, verb) ==
    /\ call[p].stage = "commit"
    /\ call[p].c.verb = verb
    /\ Unspent(call[p].c)

\* The sums move with every row that flips to posted.
Sums(y, pl, native, carry) ==
    /\ plNet' = [plNet EXCEPT ![y] = @ + pl]
    /\ plNative' = [plNative EXCEPT ![y] = @ + native]
    /\ bal2979' = bal2979 + carry

CommitPost(p) ==
    LET c == call[p].c IN
    /\ MayCommit(p, "post_entry")
    /\ \E e \in Entry :
         /\ IF c.entry = NoEntry THEN NextId(e, {}) ELSE e = c.entry /\ StillDraft(e)
         /\ entry' = [entry EXCEPT ![e] =
              [status |-> "posted", source |-> "manual", month |-> c.month, reverses |-> NoEntry,
               key |-> c.key, pl |-> c.pl, carry |-> c.carry]]
         /\ Remembers(p, e)
    /\ Sums(YearOf[c.month], c.pl, c.pl, c.carry)
    /\ UNCHANGED lock

CommitReverse(p) ==
    LET c == call[p].c
        t == entry[c.entry] IN
    /\ MayCommit(p, "reverse_entry")
    /\ SlotFree(c.entry)
    /\ \E e \in Entry :
         /\ NextId(e, {})
         /\ entry' = [entry EXCEPT ![e] =
              [status |-> "posted", source |-> "reversal", month |-> c.month, reverses |-> c.entry,
               key |-> c.key, pl |-> -t.pl, carry |-> -t.carry]]
         /\ Remembers(p, e)
    /\ Sums(YearOf[c.month], -t.pl, -t.pl, -t.carry)
    /\ UNCHANGED lock

CommitDraft(p) ==
    LET c == call[p].c IN
    /\ MayCommit(p, "save_draft")
    /\ \E e \in Entry :
         /\ IF c.entry = NoEntry THEN NextId(e, {}) ELSE e = c.entry /\ StillDraft(e)
         /\ entry' = [entry EXCEPT ![e] =
              [status |-> "draft", source |-> "manual", month |-> c.month, reverses |-> NoEntry,
               key |-> c.key, pl |-> c.pl, carry |-> c.carry]]
         /\ Remembers(p, e)
    /\ UNCHANGED <<plNet, plNative, bal2979, lock>>

CommitDelete(p) ==
    LET c == call[p].c IN
    /\ MayCommit(p, "delete_draft")
    /\ entry' = IF entry[c.entry].status = "draft"
                THEN [entry EXCEPT ![c.entry] = [@ EXCEPT !.status = "deleted"]] ELSE entry
    /\ Remembers(p, NoEntry)
    /\ UNCHANGED <<plNet, plNative, bal2979, lock>>

Relocked_reason(c, seen, held) == IF held \in Seals THEN held ELSE "vat_filed"

\* What a lock verb makes of the lock it finds inside its transaction.
Relocked(c, seen, held) ==
    CASE c.verb = "close_month" -> IF held = "none" THEN "soft" ELSE held
      [] c.verb = "reopen_month" -> "none"
      [] c.verb = "lock_period" -> IF held = "none" \/ (held = "soft" /\ c.kind = "hard") THEN c.kind ELSE held
      [] c.verb = "lock_period_sealed" -> IF held \in Seals THEN held ELSE "filed"
      [] c.verb = "unlock_period" -> IF seen = "none" THEN held ELSE "none"

CommitLock(p) ==
    LET c == call[p].c IN
    /\ \E v \in {"close_month", "reopen_month", "lock_period", "lock_period_sealed", "unlock_period"} : MayCommit(p, v)
    /\ lock' = [lock EXCEPT ![c.period] = Relocked(c, call[p].seen, @)]
    /\ Remembers(p, NoEntry)
    /\ UNCHANGED books

\* close_year: the sweep computed before the transaction must still empty the income statement of
\* the year, and both closing postings run the period check again, inside.
Swept_unread(y, net) == TRUE
Swept(y, net) == plNet[y] - net = 0

Closes(c, net) ==
    LET booksSomething == net # 0 \/ bal2979 + net # 0
    IN  /\ booksSomething => Admits("close", LastMonth[c.period])
        /\ Swept(c.period, net)

CloseRow(c, pl, carry) ==
    [status |-> "posted", source |-> "close", month |-> LastMonth[c.period], reverses |-> NoEntry,
     key |-> c.key, pl |-> pl, carry |-> carry]

CommitClose(p) ==
    LET c == call[p].c
        net == call[p].net
        carry == bal2979 + net IN
    /\ MayCommit(p, "close_year")
    /\ Closes(c, net)
    /\ \E sweep, carried \in Entry \cup {NoEntry} :
         /\ IF net = 0 THEN sweep = NoEntry ELSE NextId(sweep, {})
         /\ IF carry = 0 THEN carried = NoEntry ELSE NextId(carried, {sweep})
         /\ entry' = [e \in Entry |-> CASE e = sweep -> CloseRow(c, -net, net)
                                        [] e = carried -> CloseRow(c, 0, -carry)
                                        [] OTHER -> entry[e]]
         /\ Remembers(p, sweep)
    /\ Sums(c.period, -net, 0, -bal2979)
    /\ lock' = [lock EXCEPT ![c.period] = "closed"]

\* Another process finished the same act first: the recall inside rememberIdempotent sees it ...
ReplayLate(p) ==
    /\ call[p].stage = "commit"
    /\ \E m \in Recalled(call[p].c) : Goes(p, Answering(call[p].c, m.answer))
    /\ UNCHANGED <<db, answered>>

\* ... or it does not, and the transaction meets a constraint, a trigger or a failed read-back.
RollBack(p) ==
    LET c == call[p].c IN
    /\ call[p].stage = "commit"
    /\ \/ ~Unspent(c)
       \/ c.verb \in {"post_entry", "save_draft"} /\ c.entry # NoEntry /\ ~StillDraft(c.entry)
       \/ c.verb = "reverse_entry" /\ ~SlotFree(c.entry)
       \/ c.verb = "close_year" /\ ~Closes(c, call[p].net)
    /\ Goes(p, Idle)
    /\ UNCHANGED <<db, answered>>

-----------------------------------------------------------------------------
(* After the transaction *)

\* The claim is read once more: an answer replayed from another act is refused, not told.
Told_unread(c) == TRUE
Told(c) == ~Conflict(c)

Answer(p) ==
    LET c == call[p].c IN
    /\ call[p].stage = "answer"
    /\ answered' = IF Told(c) THEN answered \cup {[by |-> c, answer |-> call[p].ans]} ELSE answered
    /\ Goes(p, Idle)
    /\ UNCHANGED db

\* The process dies; SQLite rolls an open transaction back.
Crash(p) ==
    /\ call[p].stage # "idle"
    /\ Goes(p, Idle)
    /\ UNCHANGED <<db, answered>>

Commit(p) ==
    \/ CommitPost(p) \/ CommitReverse(p) \/ CommitDraft(p) \/ CommitDelete(p)
    \/ CommitLock(p) \/ CommitClose(p)

Next ==
    \E p \in Proc :
        \/ \E c \in Calls : Begin(p, c)
        \/ Replay(p) \/ Check(p) \/ CheckPeriod(p) \/ Refuse(p)
        \/ Commit(p) \/ ReplayLate(p) \/ RollBack(p)
        \/ Answer(p) \/ Crash(p)

Spec == Init /\ [][Next]_vars

-----------------------------------------------------------------------------
(* Properties *)

TypeOK ==
    /\ entry \in [Entry -> EntryRecords]
    /\ plNet \in [Year -> Int]
    /\ plNative \in [Year -> Int]
    /\ bal2979 \in Int
    /\ lock \in [Period -> LockStates]
    /\ memo \subseteq [by : Calls, answer : Entry \cup {NoEntry}]
    /\ spent \subseteq Calls
    /\ call \in [Proc -> CallStates]
    /\ \A p \in Proc : call[p].stage # "idle" => call[p].c \in Calls
    /\ answered \subseteq [by : Calls, answer : Entry \cup {NoEntry}]

-----------------------------------------------------------------------------

\* At most one entry reverses another, whoever raced for the slot; a reversal undoes a posted entry
\* exactly, and is itself no draft.  (journal_entry_one_reversal; reverse, writePostedEntry)
ReversedOnce ==
    \A r \in Posted : entry[r].source = "reversal" =>
        LET t == entry[r].reverses IN
        /\ ReversalsOf(t) = {r}
        /\ t \in Posted
        /\ entry[r].pl = -entry[t].pl /\ entry[r].carry = -entry[t].carry

\* A key books once: however often a call is repeated, in how many processes, and wherever one of
\* them died, a second posted entry under the same scope and key never exists.
\* (rememberIdempotent: the memo row commits with the act)
BooksOnce ==
    \A e, f \in Posted :
        (entry[e].source = "manual" /\ entry[f].source = "manual" /\ entry[e].key = entry[f].key) => e = f

\* One key, one meaning: an ok names an act done with the caller's own arguments, never a replay of
\* another call that spent the same key, in this process or another.
\* (claimIdempotencyArgs before, inside and after the transaction)
AnswersOwnAct ==
    \A a \in answered :
        CASE a.by.verb = "post_entry" ->
               /\ a.answer \in Posted
               /\ entry[a.answer].month = a.by.month
               /\ entry[a.answer].pl = a.by.pl /\ entry[a.answer].carry = a.by.carry
               /\ entry[a.answer].key = a.by.key
          [] a.by.verb = "reverse_entry" ->
               /\ a.answer \in ReversalsOf(a.by.entry)
               /\ entry[a.answer].month = a.by.month
          [] OTHER -> \E m \in memo : m.by = a.by /\ m.answer = a.answer

\* Repeating a call never yields a second answer.  (recallIdempotent)
StableAnswer == \A a, b \in answered : a.by = b.by => a.answer = b.answer

\* The ledger implements the journal it promises: whatever the processes race for, a step of theirs
\* appends one act to it or nothing.  (P3: one posting path, writePostedEntry)
Row(e) == [id |-> e, source |-> entry[e].source, month |-> entry[e].month, reverses |-> entry[e].reverses,
           key |-> entry[e].key, pl |-> entry[e].pl, carry |-> entry[e].carry]
J == INSTANCE Journal WITH journal <- {Row(e) : e \in Posted}
JournalSpec == J!Spec

\* What is posted stays as it was posted: corrected by reversal only.  (the posted_immutable triggers)
PostedForever ==
    [][\A e \in Posted : entry'[e] = entry[e]]_entry

\* The step that closes a year closes it swept: income statement and 2979 at zero, whatever was
\* posted between the sweep's computation and the close.  (unsweptAfterClose)
ClosedSwept ==
    [][\A y \in Year : (lock[y] # "closed" /\ lock'[y] = "closed") => (plNet'[y] = 0 /\ bal2979' = 0)]_lock

\* What a call is told stays the answer of its own act, in this process or another, now or on a repeat.
\* (claimIdempotencyArgs, recallIdempotent)
AnswersHold == AnswersOwnAct /\ StableAnswer
=============================================================================
