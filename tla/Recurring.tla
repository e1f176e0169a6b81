----------------------------- MODULE Recurring ------------------------------
(***************************************************************************)
(* Recurring invoices (src/core/recurring): one schedule, and the tick     *)
(* that bills its due periods in order.                                    *)
(*                                                                         *)
(* The tick writes no document itself.  It creates and issues each         *)
(* period's invoice through the registered verbs, under keys derived from  *)
(* the period, and then settles the period and moves the cursor: separate  *)
(* commits, with the draft in people's hands in between.  Three records    *)
(* must agree: the verbs' memos, the run log and the document itself.      *)
(*                                                                         *)
(* A process runs one call at a time.  A verb reads before its own         *)
(* transaction, and another process may commit in between.                 *)
(***************************************************************************)
EXTENDS Integers

CONSTANTS
    Proc,       \* the processes that hold the book open
    Last,       \* the last period the end date admits; a period a day, so that a due day is its number
    AutoIssue,  \* does the schedule issue what it drafts (auto_issue)
    Terms       \* does it carry payment terms (due_days), so that a draft's due date is the day's

Period == 1..Last
MaxPosts == 2   \* the history counts to this

ASSUME RecurringAssumptions ==
    /\ Last \in Nat \ {0}
    /\ AutoIssue \in BOOLEAN /\ Terms \in BOOLEAN

VARIABLES
    day,      \* the clock
    sched,    \* recurring_schedule: its status, cursor, occurrences_done and max_occurrences
    asked,    \* what each period's create key was spent on, 0 while unspent; its memo commits with it
    doc,      \* each period's invoice, and whether it still reads as the tick wrote it
    issued,   \* the periods whose issue key has its memo
    log,      \* the settled row of each period in recurring_run_log
    noted,    \* the draft's fingerprint in the period's latest open row
    call,     \* what each process is doing
    posts,    \* how often a period's invoice was posted (history)
    ticked    \* the periods a tick posted, and the content it posted (history)

store == <<sched, asked, doc, issued, log, noted>>
history == <<posts, ticked>>
vars == <<day, store, call, history>>

Statuses == {"active", "paused", "ended"}
Contents == {"own", "edited"}
Outcomes == {"drafted", "issued", "discarded"}
Schedules == [status : Statuses, next : 1..(Last + 1), done : Nat, most : Period]
\* "issued" stands for every later state of the invoice; "gone" is a draft that was cancelled.
Documents == [status : {"none", "draft", "issued", "cancelled", "gone"}, content : Contents]
Unwritten == [status |-> "none", content |-> "own"]

Stages == {"idle", "look", "create", "fate", "issue", "post", "note", "settle", "hand", "status", "patch"}
Calls == [stage : Stages, k : Period, to : Statuses \cup Outcomes \cup {"edited", "cancelled", "none"},
          row : Schedules, today : 0..Last, outer : BOOLEAN, fresh : BOOLEAN]

NewSchedule(most) == [status |-> "active", next |-> 1, done |-> 0, most |-> most]
Idle == [stage |-> "idle", k |-> 1, to |-> "none", row |-> NewSchedule(1), today |-> 0, outer |-> FALSE,
         fresh |-> FALSE]

Init ==
    /\ day = 0
    /\ \E most \in Period : sched = NewSchedule(most)
    /\ asked = [k \in Period |-> 0]
    /\ doc = [k \in Period |-> Unwritten]
    /\ issued = {}
    /\ log = [k \in Period |-> "none"]
    /\ noted = [k \in Period |-> "none"]
    /\ call = [p \in Proc |-> Idle]
    /\ posts = [k \in Period |-> 0]
    /\ ticked = {}

Goes(p, state) == call' = [call EXCEPT ![p] = state]
Moves(p, stage) == Goes(p, [call[p] EXCEPT !.stage = stage])
At(p, stage) == call[p].stage = stage

-----------------------------------------------------------------------------
(* The tick *)

\* The schedule is read once, and worked on from that copy.  The scheduler ticks with no dispatch around
\* it, the verb run_due_recurring inside its own.
Tick(p) ==
    /\ At(p, "idle")
    /\ sched.status = "active" /\ sched.next <= day
    /\ \E outer \in BOOLEAN :
        Goes(p, [Idle EXCEPT !.stage = "look", !.row = sched, !.today = day, !.outer = outer])
    /\ UNCHANGED <<day, store, history>>

\* The bounds: the end date, and max_occurrences.
Past(next, done, most) == next > Last \/ done >= most

\* The next due period of the copy; whether its key has a memo already is read before the create.
Look(p) ==
    LET r == call[p].row IN
    /\ At(p, "look")
    /\ IF r.next > call[p].today THEN Goes(p, Idle) /\ UNCHANGED sched
       ELSE IF Past(r.next, r.done, r.most)
       THEN Goes(p, Idle) /\ sched' = [sched EXCEPT !.status = "ended"]
       ELSE /\ Goes(p, [call[p] EXCEPT !.stage = "create", !.k = r.next, !.fresh = asked[r.next] = 0])
            /\ UNCHANGED sched
    /\ UNCHANGED <<day, asked, doc, issued, log, noted, history>>

\* The arguments of the create, by what can differ between two ticks: the due date, today plus the terms.
Arguments(p) == IF Terms THEN call[p].today ELSE 1

\* The claim of a dispatch that no other encloses refuses other arguments, whoever minted the key.
Conflict(p) == call[p].outer /\ asked[call[p].k] \notin {0, Arguments(p)}

\* The memo answers with the document of the first create for good.
Creates_again(k) == asked[k] = 0 \/ doc[k].status \in {"gone", "cancelled"}
Creates(k) == asked[k] = 0

Create(p) ==
    LET k == call[p].k IN
    /\ At(p, "create")
    /\ IF Conflict(p)
       THEN Goes(p, Idle) /\ UNCHANGED <<asked, doc>>
       ELSE /\ Moves(p, "fate")
            /\ IF Creates(k)
               THEN /\ asked' = [asked EXCEPT ![k] = Arguments(p)]
                    /\ doc' = [doc EXCEPT ![k] = [status |-> "draft", content |-> "own"]]
               ELSE UNCHANGED <<asked, doc>>
    /\ UNCHANGED <<day, sched, issued, log, noted, posts, ticked>>

\* The document's present fate settles the period, or it is a draft still to be issued.
Fate(d) == IF d.status = "gone" THEN "discarded" ELSE IF d.status = "draft" THEN "drafted" ELSE "issued"

\* A tick issues unattended only what it wrote itself and nobody has changed since.
Own(p) == call[p].fresh \/ noted[call[p].k] = doc[call[p].k].content

Settles(p, outcome) == Goes(p, [call[p] EXCEPT !.stage = "settle", !.to = outcome])

Judge(p) ==
    LET d == doc[call[p].k] IN
    /\ At(p, "fate")
    /\ IF d.status # "draft" \/ ~AutoIssue THEN Settles(p, Fate(d))
       ELSE IF Own(p) THEN Moves(p, "issue")
       ELSE Goes(p, Idle)
    /\ UNCHANGED <<day, store, history>>

\* The issue: its own memo, then the guard on the status, then the transaction.
GuardIssue(p) ==
    LET k == call[p].k IN
    /\ At(p, "issue")
    /\ IF k \in issued THEN Settles(p, "issued")
       ELSE Moves(p, IF doc[k].status = "draft" THEN "post" ELSE "note")
    /\ UNCHANGED <<day, store, history>>

\* The transaction numbers and posts whatever it finds under the id, and looks at no status again.
Posts(k) ==
    /\ doc[k].status # "gone"
    /\ doc' = [doc EXCEPT ![k].status = "issued"]
    /\ posts' = [posts EXCEPT ![k] = IF @ < MaxPosts THEN @ + 1 ELSE @]

Issue(p) ==
    LET k == call[p].k IN
    /\ At(p, "post")
    /\ IF k \in issued THEN UNCHANGED <<doc, issued, posts, ticked>>
       ELSE /\ Posts(k)
            /\ issued' = issued \cup {k}
            /\ ticked' = ticked \cup {[k |-> k, content |-> doc[k].content]}
    /\ Settles(p, "issued")
    /\ UNCHANGED <<day, sched, asked, log, noted>>

\* A locked month, a missing account, a draft deleted meanwhile: the issue rolls back.
IssueRefused(p) ==
    /\ At(p, "post")
    /\ Moves(p, "note")
    /\ UNCHANGED <<day, store, history>>

\* The open row of a refused issue keeps the draft's fingerprint, and the cursor stays.
Note(p) ==
    LET k == call[p].k IN
    /\ At(p, "note")
    /\ noted' = IF doc[k].status = "gone" THEN noted ELSE [noted EXCEPT ![k] = doc[k].content]
    /\ Goes(p, Idle)
    /\ UNCHANGED <<day, sched, asked, doc, issued, log, history>>

\* The settled row and the cursor in one transaction.  A period that was settled elsewhere gets no
\* second row.  Cursor, count and status are written from the copy.
After_next(k) == k + 2
After(k) == k + 1
Counted(r) == r.done + 1

Settle(p) ==
    LET r == call[p].row
        k == call[p].k
        moved == [r EXCEPT !.next = After(k), !.done = Counted(r),
                           !.status = IF Past(After(k), Counted(r), r.most) THEN "ended" ELSE @] IN
    /\ At(p, "settle")
    /\ log' = IF log[k] = "none" THEN [log EXCEPT ![k] = call[p].to] ELSE log
    /\ sched' = [moved EXCEPT !.most = sched.most]
    /\ Goes(p, IF moved.status = "active"
               THEN [Idle EXCEPT !.stage = "look", !.row = moved, !.today = call[p].today, !.outer = call[p].outer]
               ELSE Idle)
    /\ UNCHANGED <<day, asked, doc, issued, noted, history>>

-----------------------------------------------------------------------------
(* People *)

\* A person issues, cancels or edits the period's invoice: a guard on its status, then the write.
Legal(d, to) == d.status = "draft" \/ (d.status = "issued" /\ to = "cancelled")

TakeInHand(p, k, to) ==
    /\ At(p, "idle")
    /\ Legal(doc[k], to)
    /\ Goes(p, [Idle EXCEPT !.stage = "hand", !.k = k, !.to = to])
    /\ UNCHANGED <<day, store, history>>

IssueByHand(p) ==
    /\ At(p, "hand") /\ call[p].to = "issued"
    /\ Posts(call[p].k)
    /\ Goes(p, Idle)
    /\ UNCHANGED <<day, sched, asked, issued, log, noted, ticked>>

\* A draft is deleted, an issued invoice reversed.
CancelByHand(p) ==
    LET k == call[p].k IN
    /\ At(p, "hand") /\ call[p].to = "cancelled"
    /\ doc[k].status \in {"draft", "issued"}
    /\ doc' = [doc EXCEPT ![k].status = IF @ = "draft" THEN "gone" ELSE "cancelled"]
    /\ Goes(p, Idle)
    /\ UNCHANGED <<day, sched, asked, issued, log, noted, history>>

EditByHand(p) ==
    LET k == call[p].k IN
    /\ At(p, "hand") /\ call[p].to = "edited"
    /\ doc[k].status # "gone"
    /\ \E content \in Contents : doc' = [doc EXCEPT ![k].content = content]
    /\ Goes(p, Idle)
    /\ UNCHANGED <<day, sched, asked, issued, log, noted, history>>

\* Pause, resume and end: 'ended' is terminal.
MaySet(s) == sched.status \notin {s, "ended"}

AskStatus(p, s) ==
    /\ At(p, "idle")
    /\ MaySet(s)
    /\ Goes(p, [Idle EXCEPT !.stage = "status", !.to = s])
    /\ UNCHANGED <<day, store, history>>

SetStatus(p) ==
    /\ At(p, "status")
    /\ sched' = [sched EXCEPT !.status = call[p].to]
    /\ Goes(p, Idle)
    /\ UNCHANGED <<day, asked, doc, issued, log, noted, history>>

\* A patch of max_occurrences writes the whole row as it was read, its cursor included.
AskPatch(p, most) ==
    /\ At(p, "idle")
    /\ sched.status # "ended"
    /\ Goes(p, [Idle EXCEPT !.stage = "patch", !.row = [sched EXCEPT !.most = most]])
    /\ UNCHANGED <<day, store, history>>

Patch(p) ==
    /\ At(p, "patch")
    /\ sched' = [sched EXCEPT !.next = call[p].row.next, !.most = call[p].row.most]
    /\ Goes(p, Idle)
    /\ UNCHANGED <<day, asked, doc, issued, log, noted, history>>

-----------------------------------------------------------------------------

Tomorrow ==
    /\ day < Last
    /\ day' = day + 1
    /\ UNCHANGED <<store, call, history>>

\* The process dies, or a step throws, or a verb refuses before it wrote.
Crash(p) ==
    /\ ~At(p, "idle")
    /\ Goes(p, Idle)
    /\ UNCHANGED <<day, store, history>>

Next ==
    \/ Tomorrow
    \/ \E p \in Proc :
        \/ Tick(p) \/ Look(p) \/ Create(p) \/ Judge(p) \/ GuardIssue(p) \/ Issue(p) \/ IssueRefused(p)
        \/ Note(p) \/ Settle(p) \/ Crash(p)
        \/ \E k \in Period, to \in {"issued", "cancelled", "edited"} : TakeInHand(p, k, to)
        \/ IssueByHand(p) \/ CancelByHand(p) \/ EditByHand(p)
        \/ \E s \in Statuses : AskStatus(p, s)
        \/ SetStatus(p)
        \/ \E most \in Period : AskPatch(p, most)
        \/ Patch(p)

Spec == Init /\ [][Next]_vars

-----------------------------------------------------------------------------
(* Properties *)

\* Every variable keeps its type.  (the columns of recurring_schedule and recurring_run_log)
TypeOK ==
    /\ day \in 0..Last
    /\ sched \in Schedules
    /\ asked \in [Period -> 0..Last]
    /\ doc \in [Period -> Documents]
    /\ issued \subseteq Period
    /\ log \in [Period -> Outcomes \cup {"none"}]
    /\ noted \in [Period -> Contents \cup {"none"}]
    /\ call \in [Proc -> Calls]
    /\ posts \in [Period -> 0..MaxPosts]
    /\ ticked \subseteq [k : Period, content : Contents]

\* A period is billed once: wherever a tick died, however often it runs again, and whatever people did
\* to the invoice meanwhile, no second one is posted for it.
\* (the two derived keys, and the document's present fate)
BilledOnce == \A k \in Period : posts[k] <= 1

\* The run log is true: a period settled as issued was posted, and one settled as discarded never was,
\* nor will be.  (invariant I2: the memo's answer is a fact about the past)
LogIsTrue ==
    \A k \in Period : /\ log[k] = "issued" => posts[k] > 0
                      /\ log[k] = "discarded" => posts[k] = 0
                      /\ log[k] = "drafted" => asked[k] # 0

\* No period is passed over: the cursor stands past settled periods only.  (settleAndAdvance)
NoneSkipped == \A k \in Period : k < sched.next => log[k] # "none"

\* The count that max_occurrences is held against is the number of periods the log settled.
CountIsLog == \A k \in Period : log[k] # "none" <=> k <= sched.done

\* What nobody confirms is what nobody changed: a tick issues a draft only as it wrote it.
\* (the fingerprint of D141)
IssuesItsOwn == \A t \in ticked : t.content = "own"

\* The log accounts for every period the cursor has passed, and truly.  (settleAndAdvance, invariant I2)
PeriodsAccounted == LogIsTrue /\ NoneSkipped

\* A period is billed once, is counted once, and without a confirmation only as the tick wrote it.
BillsOwnOnce == BilledOnce /\ CountIsLog /\ IssuesItsOwn
=============================================================================
