------------------------------ MODULE Outbound ------------------------------
(***************************************************************************)
(* What leaves the building: the three verbs that call a transport         *)
(*                                                                         *)
(*   send_invoice            one email            (sales/invoice.ts)       *)
(*   send_dunning_run        one letter a debtor  (dunning/run.ts)         *)
(*   payment_batch_transmit  one payment file     (banking/managed)        *)
(*                                                                         *)
(* A transport call cannot be rolled back, so each verb commits an intent  *)
(* before it and a record after it, and a process may die, or the          *)
(* transport throw, at any point between.  A process runs one call at a    *)
(* time; another process may run the same call beside it.                  *)
(***************************************************************************)
EXTENDS Integers

CONSTANTS
    Proc,           \* the processes that hold the book open
    Invoice,        \* issued invoices, each sent under one idempotency key
    Letter,         \* the letters of one issued dunning run, one per debtor
    Batch,          \* generated payment batches
    MayFailLetter,  \* can a letter turn out unsendable (no email, no PDF)
    None            \* no item

Item == Invoice \cup Letter \cup Batch
MaxGone == 2        \* the history counts to this

ASSUME OutboundAssumptions ==
    /\ Invoice \cap Letter = {} /\ Invoice \cap Batch = {} /\ Letter \cap Batch = {}
    /\ MayFailLetter \in BOOLEAN
    /\ None \notin Item

VARIABLES
    attempt,   \* the send's own record: the attempt row, send_error, or the latest order of the log
    settled,   \* the invoice or letter is recorded as sent (sent_at, and an invoice's memo)
    orders,    \* how many orders of a batch the log holds as accepted
    runSent,   \* the dunning run is 'sent'
    paid,      \* the letters whose invoice was settled since the run was issued
    call,      \* what each process is doing
    gone       \* how often each item left the building (history)

book == <<attempt, settled, orders, runSent, paid>>
vars == <<book, call, gone>>

Attempts == {"none", "dispatching", "transmitted", "sent", "failed"}
Calls == [stage : {"idle", "loop", "intent", "wire", "out", "record", "clear"}, item : Item \cup {None},
          todo : SUBSET Letter, changed : SUBSET Letter]
Idle == [stage |-> "idle", item |-> None, todo |-> {}, changed |-> {}]

Init ==
    /\ attempt = [i \in Item |-> "none"]
    /\ settled = [i \in Item |-> FALSE]
    /\ orders = [b \in Batch |-> 0]
    /\ runSent = FALSE
    /\ paid = {}
    /\ call = [p \in Proc |-> Idle]
    /\ gone = [i \in Item |-> 0]

Goes(p, state) == call' = [call EXCEPT ![p] = state]
For(stage, i) == [Idle EXCEPT !.stage = stage, !.item = i]
Marks(i, a) == attempt' = [attempt EXCEPT ![i] = a]
\* The run goes on with its other letters; a verb of one item is answered.
AfterItem(p) ==
    LET c == call[p] IN
    IF c.item \in Letter THEN [c EXCEPT !.stage = "loop", !.item = None, !.todo = @ \ {c.item}] ELSE Idle

-----------------------------------------------------------------------------
(* Before the transport *)

\* The completed send's memo, then the attempt: an unknown outcome refuses, a transmitted one only
\* needs its records, and nothing in the way of a first send leads to the intent.
SendInvoice_unread(i) == "intent"
SendInvoice(i) == IF attempt[i] = "transmitted" THEN "record" ELSE "intent"
Unknown_ignored(i) == FALSE
Unknown(i) == attempt[i] = "dispatching"

BeginInvoice(p, i) ==
    /\ call[p].stage = "idle"
    /\ ~settled[i] /\ ~Unknown(i)
    /\ Goes(p, For(SendInvoice(i), i))
    /\ UNCHANGED <<book, gone>>

\* latestOrderForBatch: only a failed order, or none, leads to an intent.
Ordered_ignored(b) == FALSE
Ordered(b) == attempt[b] = "sent"

BeginBatch(p, b) ==
    /\ call[p].stage = "idle"
    /\ ~Unknown(b) /\ ~Ordered(b)
    /\ Goes(p, For("intent", b))
    /\ UNCHANGED <<book, gone>>

\* The run reads its letters, and what was settled since issue, once, before its loop.
BeginRun(p) ==
    /\ call[p].stage = "idle"
    /\ ~runSent
    /\ Goes(p, [Idle EXCEPT !.stage = "loop", !.changed = paid,
                            !.todo = {l \in Letter : ~settled[l] /\ ~Unknown(l)}])
    /\ UNCHANGED <<book, gone>>

\* A letter whose invoice changed is skipped: what it asserts is no longer true.  What changes after the
\* run has read this goes out as it is.
Changed(p, l) == l \in call[p].changed

SkipLetter(p, l) ==
    /\ call[p].stage = "loop" /\ l \in call[p].todo
    /\ Changed(p, l)
    /\ Goes(p, [call[p] EXCEPT !.todo = @ \ {l}])
    /\ UNCHANGED <<book, gone>>

TakeLetter(p, l) ==
    /\ call[p].stage = "loop" /\ l \in call[p].todo
    /\ ~Changed(p, l)
    /\ Goes(p, [call[p] EXCEPT !.stage = "intent", !.item = l])
    /\ UNCHANGED <<book, gone>>

\* No email on file, or no PDF: the letter's rows say so, whatever they said before.
FailLetter(p) ==
    LET l == call[p].item IN
    /\ MayFailLetter
    /\ call[p].stage = "intent" /\ l \in Letter
    /\ attempt' = IF settled[l] THEN attempt ELSE [attempt EXCEPT ![l] = "failed"]
    /\ Goes(p, AfterItem(p))
    /\ UNCHANGED <<settled, orders, runSent, paid, gone>>

\* A letter is claimed only while none left and none is on the wire; the other two verbs just write.
Claims(i) == i \in Letter => ~settled[i] /\ attempt[i] # "dispatching"

WriteIntent(p) ==
    LET i == call[p].item IN
    /\ call[p].stage = "intent"
    /\ IF Claims(i)
       THEN Marks(i, "dispatching") /\ Goes(p, [call[p] EXCEPT !.stage = "wire"])
       ELSE UNCHANGED attempt /\ Goes(p, AfterItem(p))
    /\ UNCHANGED <<settled, orders, runSent, paid, gone>>

-----------------------------------------------------------------------------
(* The transport, and after *)

Leaves(i) == [gone EXCEPT ![i] = IF @ < MaxGone THEN @ + 1 ELSE @]

Deliver(p) ==
    /\ call[p].stage = "wire"
    /\ gone' = Leaves(call[p].item)
    /\ Goes(p, [call[p] EXCEPT !.stage = "out"])
    /\ UNCHANGED book

\* Nothing left, the transport says: the intent is retracted, or the failure recorded.
Retracted_unlisted(i) == "declined"
Retracted(i) == IF i \in Invoice THEN "none" ELSE "failed"

Decline(p) ==
    LET i == call[p].item IN
    /\ call[p].stage = "wire"
    /\ attempt' = IF i \in Letter /\ settled[i] THEN attempt ELSE [attempt EXCEPT ![i] = Retracted(i)]
    /\ Goes(p, AfterItem(p))
    /\ UNCHANGED <<settled, orders, runSent, paid, gone>>

\* The record of what left: an invoice's attempt becomes 'transmitted' before anything else is written,
\* a letter is sent, and a batch's log gains an accepted order.
Recorded_failed(i) == "failed"
Recorded(i) == IF i \in Invoice THEN "transmitted" ELSE IF i \in Letter THEN "none" ELSE "sent"

RecordOut(p) ==
    LET i == call[p].item IN
    /\ call[p].stage = "out"
    /\ Marks(i, Recorded(i))
    /\ settled' = IF i \in Letter THEN [settled EXCEPT ![i] = TRUE] ELSE settled
    /\ orders' = IF i \in Batch /\ orders[i] < MaxGone THEN [orders EXCEPT ![i] = @ + 1] ELSE orders
    /\ Goes(p, IF i \in Invoice THEN For("record", i) ELSE AfterItem(p))
    /\ UNCHANGED <<runSent, paid, gone>>

\* recordSent: the document is 'sent' and the send memoised in one transaction, then the attempt goes.
RecordSent(p) ==
    /\ call[p].stage = "record"
    /\ settled' = [settled EXCEPT ![call[p].item] = TRUE]
    /\ Goes(p, For("clear", call[p].item))
    /\ UNCHANGED <<attempt, orders, runSent, paid, gone>>

ClearAttempt(p) ==
    /\ call[p].stage = "clear"
    /\ Marks(call[p].item, "none")
    /\ Goes(p, Idle)
    /\ UNCHANGED <<settled, orders, runSent, paid, gone>>

\* The loop is done: the run is 'sent' when no letter remains.
FullySent_any == TRUE
FullySent == \A l \in Letter : settled[l]

EndRun(p) ==
    /\ call[p].stage = "loop" /\ call[p].todo = {}
    /\ runSent' = (runSent \/ FullySent)
    /\ Goes(p, Idle)
    /\ UNCHANGED <<attempt, settled, orders, paid, gone>>

\* The process dies, or the transport throws: either way the call ends here, and what was on the wire
\* may have left.
Lose(p) ==
    /\ call[p].stage # "idle"
    /\ gone' \in IF call[p].stage = "wire" THEN {gone, Leaves(call[p].item)} ELSE {gone}
    /\ Goes(p, Idle)
    /\ UNCHANGED book

\* A debtor pays meanwhile.
Pay(p, l) ==
    /\ call[p].stage = "idle"
    /\ paid' = paid \cup {l}
    /\ UNCHANGED <<attempt, settled, orders, runSent, call, gone>>

Next ==
    \E p \in Proc :
        \/ \E i \in Invoice : BeginInvoice(p, i)
        \/ \E b \in Batch : BeginBatch(p, b)
        \/ BeginRun(p)
        \/ \E l \in Letter : SkipLetter(p, l) \/ TakeLetter(p, l) \/ Pay(p, l)
        \/ FailLetter(p) \/ WriteIntent(p)
        \/ Deliver(p) \/ Decline(p) \/ RecordOut(p) \/ RecordSent(p) \/ ClearAttempt(p)
        \/ EndRun(p) \/ Lose(p)

Spec == Init /\ [][Next]_vars

-----------------------------------------------------------------------------
(* Properties *)

TypeOK ==
    /\ attempt \in [Item -> Attempts]
    /\ settled \in [Item -> BOOLEAN]
    /\ orders \in [Batch -> 0..MaxGone]
    /\ runSent \in BOOLEAN
    /\ paid \subseteq Letter
    /\ call \in [Proc -> Calls]
    /\ gone \in [Item -> 0..MaxGone]

\* Nothing leaves the building twice, however often its call is repeated, wherever an earlier one died
\* and whatever the transport answered.  (the intent before the transport, and a letter's claim)
NeverTwice == \A i \in Item : gone[i] <= 1

\* What is recorded as sent was sent: no path writes a sent record without a real transmission.
\* (US-A11.5; a dunning run is 'sent' only with all its letters)
SentIsReal ==
    /\ \A i \in Invoice \cup Letter : settled[i] => gone[i] > 0
    /\ \A b \in Batch : orders[b] > 0 => gone[b] > 0
    /\ runSent => \A l \in Letter : gone[l] > 0

\* What left is never on record as a send that failed or never began.
LeftIsOnRecord ==
    \A i \in Item : gone[i] > 0 => settled[i] \/ attempt[i] \in {"dispatching", "transmitted", "sent"}
=============================================================================
