------------------------------ MODULE BankLine ------------------------------
(***************************************************************************)
(* The bank inbox (src/core/banking/bankLines.ts, bankBooking.ts): a bank  *)
(* line is open or has ONE live decision, which books an entry, matches a  *)
(* standing one or ignores the line, and claims the entry's leg on the     *)
(* line's account.  Reopening supersedes the decision and reverses what it *)
(* created.  Seats that may only propose leave drafts; a decision closes   *)
(* the line's drafts and its undo gives them back.                         *)
(*                                                                         *)
(* A key names one call, and its memo lets it decide its line once: so a   *)
(* decision, its link and the entry it books all go by the key.  Every     *)
(* line and leg of an account has the same signed amount here.  A verb is  *)
(* synchronous in its process; what it reads before its transaction is a   *)
(* step of its own only where the transaction does not read it again (the  *)
(* rule a direct call expands is read in its step).                        *)
(***************************************************************************)
CONSTANTS
    Proc,        \* the processes that hold the book open
    Line,        \* the bank lines
    Key,         \* the idempotency keys of the calls that decide a line
    Hand,        \* entries posted by hand
    AccountOf,   \* the bank account of a line
    LineOf,      \* the line a key decides
    SeatOf,      \* the seat a key belongs to
    Kind,        \* what a key decides: one of Kinds
    Legs,        \* the bank accounts an entry has a leg on
    Target,      \* the entry a match names
    Asked,       \* the keys of seats that may only propose
    Ruled,       \* the keys that book by a rule, which their draft pins
    None         \* no decision, no entry

Kinds == {"accounts", "match", "ignore"}
Entry == Key \cup Hand

ASSUME BankLineAssumptions ==
    /\ LineOf \in [Key -> Line] /\ Kind \in [Key -> Kinds] /\ Target \in [Key -> Entry]
    /\ Key \cap Hand = {} /\ None \notin Entry
    /\ Asked \subseteq Key /\ Ruled \subseteq {k \in Key : Kind[k] = "accounts"}
    /\ \A k \in Key : Kind[k] = "accounts" => AccountOf[LineOf[k]] \in Legs[k]

VARIABLES
    live,     \* the key whose decision each line has now
    how,      \* how each key decided its line: not yet, by a direct call, under an approval
    entry,    \* the journal: what stands and what has a reversal
    draft,    \* agent_action, by the key that was asked
    moved,    \* the keys whose rule was edited
    call,     \* what each process is in the middle of
    crossed   \* the entries claimed while a reversal that had not seen the claim was under way (history)

vars == <<live, how, entry, draft, moved, call, crossed>>

Refused == {"rejected", "replaced", "closed"}

\* closedBy: closed_by_link_id.  earlier: the drafts of the same seat and line that are older.
\* late, again (history): queued when its line was decided by now, when its key was spent by now.
Drafts == [status : {"none", "pending", "executed", "stale"} \cup Refused, closedBy : Key \cup {None},
           committed : BOOLEAN, earlier : SUBSET Key, late : BOOLEAN, again : BOOLEAN]
NoDraft == [status |-> "none", closedBy |-> None, committed |-> FALSE, earlier |-> {},
            late |-> FALSE, again |-> FALSE]

Stages == {"screened", "judged", "ran", "reopening", "reversing"}
Idle == [stage |-> "idle", on |-> None]
Calls == {Idle} \cup [stage : Stages, on : Entry]

Init ==
    /\ live = [l \in Line |-> None]
    /\ how = [k \in Key |-> "no"]
    /\ entry = [e \in Entry |-> IF e \in Hand THEN "stands" ELSE "none"]
    /\ draft = [k \in Asked |-> NoDraft]
    /\ moved = {}
    /\ call = [p \in Proc |-> Idle]
    /\ crossed = {}

-----------------------------------------------------------------------------
(* Reading a line: the operators take the decisions and the journal as they are read *)

Books(k) == Kind[k] = "accounts"
EntryOf(k) == CASE Books(k) -> k [] Kind[k] = "match" -> Target[k] [] OTHER -> None

\* The lines whose live decision claims the leg of e on account a, or any leg of it.
Holders(e, a, lv) == {l \in Line : lv[l] # None /\ EntryOf(lv[l]) = e /\ AccountOf[l] = a}
Held(e, lv) == \E l \in Line : lv[l] # None /\ EntryOf(lv[l]) = e

\* validateClaims: an entry backs a line by its leg on the line's account, which no other line holds.
Claimable_shared(l, e, lv, en) == en[e] = "stands" /\ AccountOf[l] \in Legs[e]
Claimable(l, e, lv, en) ==
    /\ en[e] = "stands"
    /\ AccountOf[l] \in Legs[e]
    /\ Holders(e, AccountOf[l], lv) = {}

\* The other side booked this transfer: a standing entry on another account of this booking whose leg
\* here is free.
TransferBooked_ever(k, lv, en) == FALSE
TransferBooked(k, lv, en) ==
    \E a \in Legs[k] \ {AccountOf[LineOf[k]]}, e \in Entry : a \in Legs[e] /\ Claimable(LineOf[k], e, lv, en)

\* What performBooking and ignoreBankLine check in their transaction.
Bookable(k, lv, en) ==
    /\ lv[LineOf[k]] = None
    /\ Books(k) => ~TransferBooked(k, lv, en)
    /\ Kind[k] = "match" => Claimable(LineOf[k], Target[k], lv, en)

\* The screen before a draft: a spent key passes as a retry while its line is decided, a second ignore as
\* done; an open line is composed for legs, and booked and rolled back for the rest.
Screens_spent(k, lv, en) == k \notin moved
Screens(k, lv, en) ==
    LET now == lv[LineOf[k]] IN
    IF how[k] # "no" THEN now # None
    ELSE IF now # None THEN Kind[k] = "ignore" /\ Kind[now] = "ignore"
    ELSE IF Books(k) THEN k \notin moved
    ELSE Bookable(k, lv, en)

-----------------------------------------------------------------------------
(* Deciding a line *)

\* A draft a line decision may still close or replace: not one whose act committed.
Unsettled(k) == draft[k].status = "pending" /\ ~draft[k].committed
OnLine(l) == {k \in Asked : LineOf[k] = l}

\* resolveLineDraftsOnDecision: every draft of the line closes, but for those being approved here.
Closing_bookings(l, busy) == {k \in OnLine(l) : Unsettled(k) /\ k \notin busy /\ Kind[k] # "ignore"}
Closing(l, busy) == {k \in OnLine(l) : Unsettled(k) /\ k \notin busy}

\* writeLineLink, with the entry its booking posts: one transaction, under the approval of `busy` or of none.
Decide(k, busy) ==
    LET l == LineOf[k]
        closes == Closing(l, busy)
    IN
    /\ how[k] = "no"
    /\ Bookable(k, live, entry)
    /\ how' = [how EXCEPT ![k] = IF k \in busy THEN "approved" ELSE "direct"]
    /\ live' = [live EXCEPT ![l] = k]
    /\ entry' = IF Books(k) THEN [entry EXCEPT ![k] = "stands"] ELSE entry
    /\ draft' = [j \in Asked |->
                   IF j \in closes
                   THEN [draft[j] EXCEPT !.status = "closed", !.closedBy = k, !.late = FALSE]
                   ELSE IF j \in busy THEN [draft[j] EXCEPT !.committed = TRUE, !.late = FALSE]
                   ELSE draft[j]]
    /\ crossed' = crossed \cup {e \in {EntryOf(k)} :
                                  \E p \in Proc : call[p].stage = "reversing" /\ call[p].on = e}
    /\ UNCHANGED moved

Goes(p, stage, on) == call' = [call EXCEPT ![p] = [stage |-> stage, on |-> on]]
Ends(p) == call' = [call EXCEPT ![p] = Idle]

\* book_bank_line and ignore_bank_line, by a person or a seat that may decide, on the rule as it is.
Direct(k) ==
    /\ k \notin moved
    /\ Decide(k, {})
    /\ UNCHANGED call

-----------------------------------------------------------------------------
(* Proposing: the screen runs before the transaction that queues the draft *)

Screen(p, k) ==
    /\ call[p] = Idle
    /\ draft[k].status = "none"
    /\ Screens(k, live, entry)
    /\ Goes(p, "screened", k)
    /\ UNCHANGED <<live, how, entry, draft, moved, crossed>>

SameDesk(k) == {j \in OnLine(LineOf[k]) : SeatOf[j] = SeatOf[k] /\ j # k}

\* supersedeOlderLineDrafts: a seat has one pending draft of a line.
Replaced(k) == {j \in SameDesk(k) : Unsettled(j)}

\* enqueueOnce and the supersession, in one transaction; a key that has its draft answers with it.
Queue(p) ==
    LET k == call[p].on IN
    /\ call[p].stage = "screened"
    /\ draft' = IF draft[k].status # "none" THEN draft
                ELSE [j \in Asked |->
                        IF j = k THEN [NoDraft EXCEPT !.status = "pending",
                                         !.earlier = {i \in SameDesk(k) : draft[i].status # "none"},
                                         !.late = live[LineOf[k]] # None, !.again = how[k] # "no"]
                        ELSE IF j \in Replaced(k) THEN [draft[j] EXCEPT !.status = "replaced"]
                        ELSE draft[j]]
    /\ Ends(p)
    /\ UNCHANGED <<live, how, entry, moved, crossed>>

-----------------------------------------------------------------------------
(* Approving and rejecting *)

\* A pin that moved voids the draft; otherwise the replay begins.
Judge(p, k) ==
    /\ call[p] = Idle
    /\ draft[k].status = "pending"
    /\ IF k \in moved
       THEN draft' = [draft EXCEPT ![k].status = "stale"] /\ UNCHANGED call
       ELSE Goes(p, "judged", k) /\ UNCHANGED draft
    /\ UNCHANGED <<live, how, entry, moved, crossed>>

\* The replay books under the commit mark, which throws when the row was resolved meanwhile.  An edit
\* of its rule comes before the replay expands it, which then refuses, or after, and is not seen.
Markable_ever(k) == TRUE
Markable(k) == draft[k].status \in {"pending", "executed"}

ReplayBooks(p) ==
    LET k == call[p].on IN
    /\ call[p].stage = "judged"
    /\ Markable(k)
    /\ Decide(k, {k})
    /\ Goes(p, "ran", k)

\* The key decided before, or the line is ignored already: the verb answers and writes nothing.
Answered(k) ==
    \/ how[k] # "no"
    \/ Kind[k] = "ignore" /\ live[LineOf[k]] # None /\ Kind[live[LineOf[k]]] = "ignore"

ReplayAnswers(p) ==
    LET k == call[p].on IN
    /\ call[p].stage = "judged"
    /\ Answered(k)
    /\ Goes(p, "ran", k)
    /\ UNCHANGED <<live, how, entry, draft, moved, crossed>>

ReplayRefused(p) ==
    LET k == call[p].on IN
    /\ call[p].stage = "judged"
    /\ ~Answered(k)
    /\ ~(Markable(k) /\ Bookable(k, live, entry)) \/ k \in moved
    /\ Ends(p)
    /\ UNCHANGED <<live, how, entry, draft, moved, crossed>>

\* The flip to executed is a compare-and-set on `pending`.
Flip(p) ==
    LET k == call[p].on IN
    /\ call[p].stage = "ran"
    /\ draft' = IF draft[k].status = "pending" THEN [draft EXCEPT ![k].status = "executed"] ELSE draft
    /\ Ends(p)
    /\ UNCHANGED <<live, how, entry, moved, crossed>>

Reject(k) ==
    /\ Unsettled(k)
    /\ draft' = [draft EXCEPT ![k].status = "rejected"]
    /\ UNCHANGED <<live, how, entry, moved, call, crossed>>

-----------------------------------------------------------------------------
(* Reopening: what the call read is checked again, then undone in one transaction *)

ReadDecision(p, l) ==
    /\ call[p] = Idle
    /\ live[l] # None
    /\ Goes(p, "reopening", live[l])
    /\ UNCHANGED <<live, how, entry, draft, moved, crossed>>

\* The line still has the decision that was read.
Fresh_any(k) == live[LineOf[k]] # None
Fresh(k) == live[LineOf[k]] = k

Unclaimed(l) == [live EXCEPT ![l] = None]

\* What the decision created is reversed through its owner, unless another line holds a leg of it.
Reversible(k, lv) == Books(k) => entry[k] = "stands" /\ ~Held(k, lv)
Undone_deleted(k) == IF Books(k) THEN [entry EXCEPT ![k] = "deleted"] ELSE entry
Undone(k) == IF Books(k) THEN [entry EXCEPT ![k] = "reversed"] ELSE entry

\* reviveLineDraftsOnReopen: the drafts that decision closed, if they could be queued now ...
ClosedBy_any(k) == {j \in OnLine(LineOf[k]) : draft[j].status \in Refused /\ ~draft[j].committed}
ClosedBy(k) == {j \in Asked : draft[j].status = "closed" /\ draft[j].closedBy = k /\ ~draft[j].committed}
Revived(k) == {j \in ClosedBy(k) : j \notin moved /\ Screens(j, Unclaimed(LineOf[k]), Undone(k))}

\* ... and of each seat's drafts of the line the newest one.
Outdated_never(S) == {}
Outdated(S) == {j \in S : \E i \in S : j \in draft[i].earlier}

Reopen(p) ==
    LET k == call[p].on
        l == LineOf[k]
        pending == Revived(k) \cup {j \in OnLine(l) : Unsettled(j)}
        outdated == Outdated(pending)
        closed == ClosedBy(k)
    IN
    /\ call[p].stage = "reopening"
    /\ Fresh(k)
    /\ Reversible(k, Unclaimed(l))
    /\ live' = Unclaimed(l)
    /\ entry' = Undone(k)
    /\ draft' = [j \in Asked |->
                   IF j \in outdated THEN [draft[j] EXCEPT !.status = "replaced", !.closedBy = None]
                   ELSE IF j \in pending THEN [draft[j] EXCEPT !.status = "pending", !.closedBy = None]
                   ELSE IF j \in closed THEN [draft[j] EXCEPT !.closedBy = None]
                   ELSE draft[j]]
    /\ Ends(p)
    /\ UNCHANGED <<how, moved, crossed>>

\* Open by now, decided anew, or the reversal is refused: nothing is superseded.
ReopenRefused(p) ==
    LET k == call[p].on IN
    /\ call[p].stage = "reopening"
    /\ ~(Fresh(k) /\ Reversible(k, Unclaimed(LineOf[k])))
    /\ Ends(p)
    /\ UNCHANGED <<live, how, entry, draft, moved, crossed>>

-----------------------------------------------------------------------------
(* Everybody else *)

\* reverse_entry looks for a live claim before its transaction, which knows only the reversal index.
Releasable_ever(e) == TRUE
Releasable(e) == ~Held(e, live)

ReadEntry(p, e) ==
    /\ call[p] = Idle
    /\ entry[e] = "stands"
    /\ Releasable(e)
    /\ Goes(p, "reversing", e)
    /\ UNCHANGED <<live, how, entry, draft, moved, crossed>>

ReverseEntry(p) ==
    LET e == call[p].on IN
    /\ call[p].stage = "reversing"
    /\ entry' = IF entry[e] = "stands" THEN [entry EXCEPT ![e] = "reversed"] ELSE entry
    /\ Ends(p)
    /\ UNCHANGED <<live, how, draft, moved, crossed>>

\* A rule is edited: a draft that pinned it is void.
EditRule(k) ==
    /\ k \in Ruled \ moved
    /\ moved' = moved \cup {k}
    /\ UNCHANGED <<live, how, entry, draft, call, crossed>>

Crash(p) ==
    /\ call[p] # Idle
    /\ Ends(p)
    /\ UNCHANGED <<live, how, entry, draft, moved, crossed>>

Next ==
    \/ \E k \in Key : Direct(k) \/ EditRule(k)
    \/ \E k \in Asked : Reject(k) \/ \E p \in Proc : Screen(p, k) \/ Judge(p, k)
    \/ \E p \in Proc : Queue(p) \/ ReplayBooks(p) \/ ReplayAnswers(p) \/ ReplayRefused(p) \/ Flip(p)
    \/ \E p \in Proc, l \in Line : ReadDecision(p, l)
    \/ \E p \in Proc : Reopen(p) \/ ReopenRefused(p) \/ ReverseEntry(p) \/ Crash(p)
    \/ \E p \in Proc, e \in Entry : ReadEntry(p, e)

Spec == Init /\ [][Next]_vars

-----------------------------------------------------------------------------
(* What the inbox promises *)

\* The state is well typed.
TypeOK ==
    /\ live \in [Line -> Key \cup {None}]
    /\ how \in [Key -> {"no", "direct", "approved"}]
    /\ entry \in [Entry -> {"none", "stands", "reversed"}]
    /\ draft \in [Asked -> Drafts]
    /\ moved \subseteq Ruled
    /\ call \in [Proc -> Calls]
    /\ crossed \subseteq Entry

\* A leg of the ledger accounts for one bank line: no two lines live on the same leg.
OneHolder ==
    \A l, m \in Line :
        /\ l # m /\ live[l] # None /\ live[m] # None
        /\ EntryOf(live[l]) = EntryOf(live[m]) /\ EntryOf(live[l]) # None
        => AccountOf[l] # AccountOf[m]

\* The money a line booked is in the ledger while its decision stands, and only then: reopening and
\* booking again never leaves it twice, a refused reopen never takes it away.
BookedWhileDecided ==
    \A k \in Key : Books(k) => (entry[k] = "stands" <=> live[LineOf[k]] = k)

\* A line that reads booked or matched rests on an entry that stands; only a reversal by hand that another
\* process began before the match can take it away.
RestsOnStanding ==
    \A l \in Line : live[l] # None /\ EntryOf(live[l]) # None =>
        entry[EntryOf(live[l])] = "stands" \/ EntryOf(live[l]) \in crossed

\* Booking k would account for the other side of what j books.
OtherSide(j, k) ==
    /\ Books(j) /\ Books(k)
    /\ AccountOf[LineOf[j]] # AccountOf[LineOf[k]]
    /\ AccountOf[LineOf[j]] \in Legs[k] /\ AccountOf[LineOf[k]] \in Legs[j]

\* A third line was matched with j as its other side, on the account of k.
Taken(j, k) ==
    \E i \in Key :
        /\ Kind[i] = "match" /\ how[i] # "no" /\ Target[i] = j
        /\ LineOf[i] \notin {LineOf[j], LineOf[k]} /\ AccountOf[LineOf[i]] = AccountOf[LineOf[k]]

\* The two sides of one transfer between own accounts are never both booked: two bookings that mirror each
\* other are two transfers, of which a third line had taken one.  (bookToAccounts)
TransferOnce ==
    \A j, k \in Key :
        OtherSide(j, k) /\ entry[j] = "stands" /\ entry[k] = "stands" => Taken(j, k) \/ Taken(k, j)

\* A seat waits for one answer per line, also after closed drafts came back.
OneDraftPerDesk ==
    \A k \in Asked : Unsettled(k) => \A j \in SameDesk(k) : ~Unsettled(j)

\* A decided line has no open question left, save one that was screened before and queued after.
NoOrphanDraft ==
    \A k \in Asked : Unsettled(k) /\ live[LineOf[k]] # None => draft[k].late

\* A draft never comes back under a key that has decided already: approving it would do nothing.
NoSpentDraft == \A k \in Asked : Unsettled(k) /\ how[k] # "no" => draft[k].again

\* Line and ledger agree: what a line says of its money is what the entries say.
\* (writeLineLink, reopenBankLine, reverse)
LineIsLedger == TypeOK /\ BookedWhileDecided /\ RestsOnStanding

\* An open draft is an open question: one per seat, on a line that waits for it, under a key that has not
\* decided yet.  (resolveLineDraftsOnDecision, reviveLineDraftsOnReopen)
DraftsAreQuestions == OneDraftPerDesk /\ NoOrphanDraft /\ NoSpentDraft

\* What reads rejected, replaced or closed never booked under an approval of it.
RefusedNeverBooked == \A k \in Asked : how[k] = "approved" => draft[k].status \notin Refused

\* Only what a decision closed comes back; a person's no, a replacement and an approval are for good.
AnswersStand ==
    [][\A k \in Asked : draft[k].status \in {"rejected", "replaced", "executed", "stale"} =>
                          draft'[k].status = draft[k].status]_draft
=============================================================================
