# TILL in TLA+

A verification project for TILL, a local-first bookkeeping engine for Swiss companies: one SQLite file per
set of books, opened by several processes at once (the Studio server with its daily scheduler, an agent's
MCP process, a command-line call), and about a thousand registered verbs in front of it. Everything here is
read from `src/src/core` and `src/src/api`; line numbers are those of the repository.

Contents: [the system](#the-system), [what is hard](#what-is-hard-here), [modules](#modules), [runs](#runs),
[proofs](#proofs), [disagreements](#where-the-code-and-its-words-disagree), [not
modelled](#what-is-not-modelled), [plan](#plan), [how to run](#how-to-run).

## The system

A verb is a synchronous function. It runs inside one process from its first read to its answer, unless it
waits for a transport. Between processes nothing is atomic but a transaction. `sqlite-store.ts:37` says how
many there are: two writers on the file are the expected case (decision D12). So the models take a process
as the unit that runs one call at a time, and let other processes commit between any two transactions (or
guards) of a call.

| component | state | operations | correct when |
|---|---|---|---|
| **Store** `core/store` | all tables, the memo of finished calls (`idempotency_key`), the arguments a key was spent on (`idempotency_args`), the book's generation (`PRAGMA user_version`) | `tx`, `snapshotTx`, `recallIdempotent`, `rememberIdempotent`, `withCommitMark`, `withoutCommitMark`, open and migrate | a key books once and answers the same for good; no build writes or reads a book of another meaning |
| **Registry** `api/registry.ts` | none of its own | one door for every verb: capability, archive flag, argument claim, generation before and after | one key, one meaning; what a refusal says about the book is true |
| **Ledger** `core/ledger` | entries and lines, drafts, locks, closed years, numbers, audit chain | post, reverse, save and promote a draft, lock, unlock, close a year | posted entries are final, reversed at most once, nothing lands in a locked period, a closed year is swept |
| **Approvals** `core/agent` | `agent_action` rows: payload, pin, commit mark, status | enqueue, approve (judge the pin, replay the verb, settle the row), reject, void | a decision is final; rejected means nothing ran; what ran is what was approved |
| **Outbound sends** `sales/invoice`, `dunning/run`, `banking/managed` | an attempt row, a letter's `send_error`, the order log | send an invoice, a dunning run, a payment order | nothing leaves twice; what is on record as sent, left |
| **Recurring invoices** `core/recurring` | schedule (status, cursor, count, bounds), run log | the tick, pause, resume, end, patch | each period billed once, none skipped, the log true, nothing edited issued unattended |
| **Automation** `core/automation` | rules, run rows, bookmarks | dispatch of events, cascade, tick, retry | an event acts once per rule; the run log is true and final; a chain of rules ends; a schedule fires once a cadence |
| **Statement sync** `core/banking/ebics` | connection with its lease, order log and file store, statements | sync (download, file, import, receipt), import by hand, key confirmation | each day once and without a seam; what the bank was told is fetched is on file; every day arrives |
| **Bank inbox** `core/banking/bankLines`, `bankBooking` | decisions of lines, claims of entry legs, the lines' drafts | book, match, ignore, reopen, draft, approve | one decision per line, one line per leg; the money is in the ledger exactly while the booking stands; no draft lives on or comes back that could not run |
| **Algorithms** `fx`, `inventory`, `payments`, `vat` | none | allocate, value, match | shares add up to the cent |
| **Host** `api/scheduler`, `api/up-lock` | lock file, timers | start, daily catch-up | one scheduler per data directory |
| **Edge** reports, portal, files, plugins, Studio | own tables or none | reads, records of one transaction | outside the models |

How they meet: every financial effect of every part is a `postEntry` or a `reverseEntry` of the Ledger,
inside the caller's transaction where there is one. The Registry is the only door, and parts call each other
through it (an approval replays a verb, a tick invokes verbs as the schedule's author, a firing invokes a
verb). Such a nested dispatch has its own key and its own claim. Parts share the memo table: a second call
under a key is answered from the first one's memo whatever happened since. `PROJECT.json` lists all
components with what is left out of each.

## What is hard here

* **Guards in front of transactions.** Nearly every verb reads, decides, and then opens its write
  transaction. Only what a unique index, a trigger or a compare-and-set inside it says holds against another
  process.
* **Several commits in one act.** A tick, a dunning run or an approval commits step by step and may die
  anywhere; what it is answered next time comes from memos.
* **A transport in the middle.** An email or a payment file cannot be rolled back.
* **Releases side by side.** An older build may hold the book while a newer one migrates it.
* **A memo is a fact about the past.** A retried create answers with a document people have deleted,
  cancelled or edited since.
* **Undo.** A reopened bank line gives back what its decision closed, into a book that has moved on.

The list of hazards, each at its line with the properties aimed at it, is in `PROJECT.json`. Some of the
same family were left off it: an invoice sent under another key after an unknown outcome
(`invoice.ts:1264`), the pinned reads of `snapshotTx` (`sqlite-store.ts:1045`, covered by
`MeaningIsMarker`), the number catch-up (`entryNumber.ts:646`), `allocateExactly` (`valuation.ts:986`),
re-pointed proposals (`vorlageSchedule.ts:600`), two hosts on one stale lock (`up-lock.ts:98`), the largest
remainder of a converted total (`rateMath.ts:147`), and a bundle published inside the transaction that
records it (`portability.ts:425`). The last four wait for the modules of the plan.

## Modules

### Ledger, Journal

`Ledger` runs posting, reversal, drafts, locks and year close for any number of processes. A call goes
through `Begin` (the argument claim), `Check` (replay of a finished act, then the verb's guards),
`CheckPeriod` (`assertPeriodOpen`), one `Commit...` (the transaction of `rememberIdempotent`, or `RollBack`,
or `ReplayLate` when another process filed the memo first) and `Answer` (the second look at the claim).
`Crash` may come at any stage. State: `entry`, the sums a year close reads (`plNet`, `plNative`, `bal2979`),
`lock`, `memo`, `spent`; `answered` is a history of answers. The lines of an entry are abstract: what they
do to the income statement and to account 2979. VAT, currency, capabilities and numbers are not here.

`LockWatch` adds two histories: `late`, the calls that were past their guards when a lock they had looked at
was changed, and `strays`, what such a call posted. The guards of a posting, of `reopen_month` and of
`unlock_period` are in front of the transaction, so these are the calls a lock cannot bind; the module
states that it binds every other one.

`Journal` is the abstract promise: a growing set of posted entries, each reversed at most once and exactly.
`JournalSpec` maps the ledger's posted rows onto it.

### Approval, Decision

The inbox for one verb under one key, proposed again and again: `Enqueue` (which voids a stale pending row
and mints the next), `Touch` (any other verb rewrites the pinned record), `Approve` / `Load` / `Judge` /
`RunStep` ... `Flip` / `Grant`, `Reject` / `MarkRejected`, `MarkStale`. The act has `Steps` transactions;
each stamps the row's commit mark inside itself. With `Outbound` the first step commits an intent without
the mark (`withoutCommitMark`), calls a transport that may refuse, throw or never return, and records the
outcome. `ran`, `left` and `told` are histories.

`Decision` is what the inbox promises the person who answers it: a question is put, an open one giving way;
it is closed once; the steps of the act commit in turn and only under an open question; "no" only if nothing
ran under it, "yes" only if the act is complete or an attempt to send it was lost for good; a grant for the
future only follows a complete act. `DecisionSpec` maps the rows' statuses to the questions', and an attempt
is lost (`Sunk`) when its intent stands and no call is left in front of the transport.

Not here: the argument conflict of enqueue (the Ledger's `AnswersHold` covers the claim), unpinned verbs,
self-approval and governed seats, the trace backfill. The drafts of bank lines, which have rules of their
own, are in BankLine. The send's own read-then-overwrite of its intent is the subject of Outbound; here the
intent is taken atomically.

### Outbound

The three verbs that call a transport, with their own records: `Begin...`, `WriteIntent`, `Deliver` /
`Decline` / `Lose`, `RecordOut` / `RecordSent`, `ClearAttempt`, and for a dunning run the loop
(`TakeLetter`, `SkipLetter`, `FailLetter`, `EndRun`). `Pay` settles an invoice behind the run. `gone` counts
what left. Letters are taken in any order (the code's is by debtor). Guards that refuse before the intent
(PDF, QR, address) are left out, as are a cancellation during a payment reconcile, the cross-rail check of
EBICS orders, the folding of pain.002 and the dispatch log's rows.

### Generation

Processes of different builds on one book: `Create`, `PinBuild`, `Rebuild`, `Open` (create or migrate),
`Begin`, `Read`, `Write`, `RawWrite`, `PinSnapshot`, `EndSnapshot`, `Throw`, `Return`, `Answer`, `Close`. A
row's value carries the generation it is written in, so a mixed meaning is visible. The read-only look that
protects a newer book is folded into `Connect`; WAL and hot-journal states, reads of verbs that have no
workspace yet, and `discardingChanges` scopes that never commit are folded away. One observation outside the
model: a refused open can fold a WAL when a newer build committed and died between the read-only look and
the writable open.

### Recurring

One schedule and the tick that bills its due periods: `Tick` (one read of the row), then per period `Look`
(bounds), `Create` (under the key of the period), `Judge` (the document's present fate), `GuardIssue` and
`Issue` or `IssueRefused`, `Note` (the open row with the draft's fingerprint), `Settle` (log row and cursor
in one transaction). Beside it people issue, cancel and edit the invoices (`TakeInHand` is the guard,
`...ByHand` the write), pause, resume, end and patch the schedule, and days pass. A period is a day, so that
a due day is its number. `Terms` says whether the schedule has payment terms. A tick is the scheduler's own
(`outer`: its verbs are then outermost dispatches, and the claim refuses a key spent on other arguments) or
runs inside the verb `run_due_recurring` (then they are nested, and it does not); both kinds come in any
order. `AutoIssue` stands for `auto_issue` together with the setting `recurring.auto_generate`. Not here:
edits of template and cadence, the re-asserted due date, the catch-up cap, several schedules, keys of the
human verbs, documents squatted under the derived key.

### Automation

A rule names an event, or a cadence, and the verb to call. `Call` and `Dispatch` (the rules of a verb's
event, after its commit) or `Tick` (the schedule rules that are due) start a pass over the rules: `Evaluate`
claims the run row by its unique key, `Invoke` calls the verb in one transaction, `Settle` writes the
outcome where the row is still running, and for the tick `Mark` moves the rule's bookmark. The verb's own
event is dispatched inside its transaction, so `Invoke` computes the whole cascade at once: `Reached` walks
the rules wired to each other, `Fate` says what becomes of each nested occurrence (loop, depth, denied, or
what the verb answers), and `Kept` drops what a rolled back firing takes with it. An occurrence is a source
and the chain of rules it came through, as the derived key is in the code. `Retry` finishes a stuck row by
hand, in three commits, or whole under a key (`RetryWhole`). `Abandon` and `DieActing` are deaths between
and inside the commits; `left` is the history of what was handed to a transport. Not here: the counter of
redeliveries, editing a rule other than on and off, the task-due source of the tick. Conditions and
templates are verdicts. `Bare` names the rules whose verb accepts an empty input, as `vat_seed_defaults` and
`update_company_profile` do (`registry.ts:1746`, `1584`).

`FiringWatch` adds two histories for the gaps between the commits of one firing: `hurried`, the skipped
occurrences that a retry met between their claim and their settlement, and `astray`, the scheduled ones
whose tick died before it wrote the bookmark or met another tick on the same rule. With them it states what
the log (`RunLogTrue`) and the schedules (`SchedulesKept`) promise in all other cases.

### FeedRule, StatementBook, EbicsSync

`FeedRule` is `decideSuccessor` as a definition: a statement's position, its day, and whether it joins what
is in the books (a successor, the filler of a hole, a copy, a re-cut, too late). `StatementBook` is the
abstract promise: files are put on file, days are booked once and only where they join their neighbours, the
bank is told of files that are on file.

`EbicsSync` is one connection with one account. `Start` takes the lease (free, or fifteen minutes old),
`Download`, `Persist` (one transaction), `ReadPending`, then per member `ImportMember` and `LogOutcome`,
`Receipt`, `Release`. `Expire` makes a lease old, `Reclaim` frees one of a dead process. The faults are a
failed download (which may halt the channel on changed bank keys until `ConfirmKeys`), a failed commit, a
lost receipt, a worker given up and a process that dies. `Cut` is the bank, `ImportByHand` the owner. Not
here: the memo of the sync verb, the daily attempts, several accounts and their routing, retirement, the
hash identity of a statement, the turn of the year, currencies, statements of several pages.

### BankLine

Lines, decisions, claims and drafts of the bank inbox. A key names one call: it decides its line once (then
its memo answers), so a decision, its link and the entry it books all go by the key. `live` is the line's
decision, `how` whether a key decided directly or under an approval, `entry` the journal. `Direct` books,
matches or ignores; `Decide` is the link writer and closes the line's drafts. A seat that may only propose
goes `Screen` (before the transaction) and `Queue` (which replaces its older draft); a person goes `Judge`,
`ReplayBooks` / `ReplayAnswers` / `ReplayRefused` and `Flip`, or `Reject`. `ReadDecision` and `Reopen` /
`ReopenRefused` undo a decision: supersede, reverse, give back the closed drafts that still pass the screen,
keep the newest per seat. `ReadEntry` and `ReverseEntry` are `reverse_entry` by hand. Only reads that the
transaction does not repeat are steps of their own. Every line and leg of an account has the same signed
amount, so any two of them could be taken for one another. `late` and `again` on a draft and `crossed` are
histories that name the three exceptions listed under
[disagreements](#where-the-code-and-its-words-disagree). Not here: settlements (open items, payment runs,
contacts, expense claims), foreign-currency legs, amounts, directions and accepted differences, lines that
wait for a duplicate answer, transfers across months, automatic booking, credit rows, receipts, the memo of
reopen itself.

### Supporting modules

`MCLedger`, `MCLockWatch`, `MCApproval`, `MCOutbound`, `MCGeneration`, `MCAutomation`, `MCEbicsSync`,
`MCBankLine` give TLC model values, symmetry sets and the call sets. `..._proofs` hold the theorems.
Operators with a suffix (`Rejectable_unmarked`, `SlotFree_unindexed`, ...) are plausible bugs of the
definition below them: each property is shown to fail when its definition is replaced by such a form.

A property of a run is often the conjunction of named parts that make one promise together: `AnswersHold` is
`AnswersOwnAct` and `StableAnswer`, `DraftsAreQuestions` is `OneDraftPerDesk`, `NoOrphanDraft` and
`NoSpentDraft`, `LocksHold` is `NothingPostedIntoLock` and `SealIsForever`, `SchedulesKept` is
`MarkAccounted` and `CadenceKept`, and so on; the parts stand above it with a comment each. `TypeOK` is a
part of `RunLogTrue`, `FinalIsTrue` and `LineIsLedger`, and a theorem elsewhere.

## Runs

| run | instance | states | shows |
|---|---|---|---|
| `ledger_books` | 2 processes, 3 entries, 2 months of 1 year, 2 keys | 1,206,412 | the journal under racing posts, retries, drafts, reversals, closes and a lock is the abstract one; a key books once and answers the same; a close has read the year it seals |
| `ledger_locks` | 2 processes, 3 entries, one posting, every lock on its month, the close of its year | 577,783 | a lock binds every call but those past their guards when it landed, seals stay, closed years stay swept, across races, crashes and retries |
| `approval_race` | 2 processes, 2 rows, 2 contents, 2 steps, outbound | 780,935 | rejected rows ran nothing, one question, one answer, executed means ran out or unknown, the inbox is the abstract one |
| `approval_alone` | 1 process, 3 rows, 3 contents, memo under key | 731,113 | every step runs on what the person approved, or what the act itself left |
| `approval_answers` | 2 processes, 1 row, fair | 167,826 | every approval and rejection ends |
| `generation_mixed` | builds 1 and 2, 2 rows | 137,404 | one meaning per book, true refusals, a marker that only rises |
| `outbound_alone` | 1 process, an invoice, 2 letters, a batch | 8,872 | nothing leaves twice, records are true, what left is on record |
| `recurring_alone` | 1 process, 3 periods, auto-issue, payment terms, both kinds of tick | 2,013,576 | each period billed once, none skipped, log and count true, only own drafts issued |
| `automation_cascade` | 2 processes, 1 call, 4 rules (2 bare), 3 days, cascade 2 deep, 1 fault | 1,014,250 | an occurrence acts once per rule, ok means it acted, quiet means it did not, nothing outlives its cause, chains end, a schedule fires once a cadence, settled rows stand |
| `automation_resend` | 1 process, a rule that sends | violation | a retry that sends a second time |
| `feed_sync` | 2 processes, 2 files of the bank, 2 of the owner, 1 fault, fair | 103,996 | a day once and without a seam, nothing acknowledged that is not on file, final outcomes true, one sync per lease, the sync is the abstract feed, every day arrives |
| `bank_lines` | 2 processes, 3 lines on 2 accounts, 6 keys, 1 hand entry | 1,684,819 | one line per leg, money in the ledger exactly while a booking stands, a transfer once, drafts closed, replaced and given back as promised |

**Bounds.** Two processes are what the store is written for, and every race here is between a guard and a
transaction of two calls; the theorems lift what holds to any number. Three entries allow a post with its
reversal and a draft, or a post and the two entries of a close. Two months of one year separate a month's
lock from the year's. Two rows and two contents are what voiding and re-minting needs; three of each let a
content come back. Two builds separate older from newer. Three periods give a first, a middle and a last one
at the bounds. Counters of histories stop at 2 (`MaxGone`, `MaxPosts`, `MaxCount`): the properties ask
whether there was a second. The cascade depth is 2 where the code has 3: the four rules hold a chain that
passes the bound, one that loops back, a rule the denylist stops and one on a schedule, and a greater depth
only lengthens the chain. The schedule fires every second of three days, so that there is a day too early, a
due one, and a tick that names a past day; days without a tick are jumped, as the code intends
(`tick.ts:4-8`). The constraint `Apart` of that run explores either the call or the ticks: no rule listens
to both (`OneTrigger`), so neither writes anything the other reads. `ledger_locks` leaves out `close_month`
(a soft lock, weaker than those it has), which `ledger_books` has and the theorem covers. In `feed_sync` no
hand-imported file copies a file of the bank with equal balances, so the outcome "already_imported" is
reached in the theorems only. One fault (`MaxFaults`) puts a death or a refusal at any point of any run of
the protocol. The four files are three days, the middle one without movement, and that day once more with
other balances: so there is a hole to fill, a wrong filler and a right one. The six keys of `bank_lines` are
two drafts of one seat on one line (a booking by a rule, an ignore), the booking of the other side of the
same transfer, a match of a third line on that account with a transfer booked by hand, and matches of the
second and third line with the first one's entry; the last can only happen if a leg is shared. A key decides
once, so a line is decided as often as it has keys, and drafts of a reopened line are given back in between.
Processes are symmetric except where `Build` tells them apart; contents and items are symmetric.

**Fairness.** `approval_answers` and `feed_sync` assume some. `approval_answers`: weak fairness of a
process's own next step while it is inside a call. A verb is synchronous and its process does not stop by
itself; a crash ends the call too. Nothing is assumed of its callers: whether anybody proposes or approves
is left open, and so nothing is claimed about it. `feed_sync`: weak fairness of a running sync (it is a loop
over a finite order log), of the lease growing old (a clock), of the bank cutting the statements of its
days, of the owner confirming changed keys (without which the code rightly halts for ever), and of somebody
syncing again (the daily fetch of the scheduler, `ebics/autoSync.ts`). Faults are bounded, not fair: the
promise is that a day arrives once they end.

**Deadlock** is looked for in every run but two, where the system really stops: `recurring_alone` (an ended
schedule, past the last day, with every invoice cancelled) and `bank_lines` (every key has decided and been
undone, every draft is settled and every entry reversed).

**Alone and beside others.** Some promises hold only while one process works (`approval_alone`,
`outbound_alone`, `recurring_alone`): the guard in front of the transaction is then as good as one inside.
They are stated there, and what breaks them with a second process is below. The theorems about them assume
`Alone`: of two processes that hold the book, one is the other. That says nothing about crashes, retries, or
people who act between two steps of a process. The locks of the ledger and the log and schedules of
automation are stated for any number of processes instead, and histories name exactly whom they do not bind
(`late` and `strays`, `hurried` and `astray`; `late`, `again` and `crossed` of BankLine likewise).

## Proofs

`tlapm` proves the following for every value of the constants that satisfies the `ASSUME` of the module. No
fairness and no bound enters. Every safety property of every passing run is the statement of a theorem;
those of one process have `Alone` as their hypothesis.

* **Ledger_proofs.** `TypeCorrect`; `PostedIsForever`; `ReversedAtMostOnce`; `KeyBooksOnce`;
  `LedgerRefinesJournal`. `ReversedOnce` is not inductive: a reversal's commit relies on its target being
  posted, which was read earlier. `IInv` adds `TargetsPosted` (a call past its guards has a posted target),
  `OnlyReversalsReverse` and `KeysRemembered` (a posted entry's call is in the memo); posted entries never
  change, which is a lemma of its own and carries the stale read over the gap. For any number of processes
  too: `AnswersAreOwn` (`AnswersHold`, on `MInv`: what the memo says, what an answered call rests on) and
  `CloseSweeps` (`ClosedSwept`, which needs types only, since the close reads the balances again inside its
  transaction), `ClosedIsSwept` and `LocksAreKept`. The last two are about `LockWatch` and rest on `LInv`:
  whoever is not `late` still `Stands`, which is to say that the guards it passed would pass again when it
  commits, and what a late call posts is among the `strays`.
* **Approval_proofs.** `TypeCorrect`; `RejectionIsClean`; `QuestionsAndAnswersAgree`; `DecisionsAreFinal`.
  `StepEffect` shows that every step does one of four things to the rows: keeps them, mints one, decides a
  pending one, marks a live one. Every conjunct of `IInv` (`Called`, `Granting`, `Marked`, `Unran`,
  `OneQuestion`, `Truthful`) then has four cases instead of thirty. `ExecutionIsReal` and
  `InboxImplementsDecision` (the refinement) rest on `RInv`: one call is in front of the transport, under
  its intent (`Wired`); a mark is backed by a step or a lost attempt (`MarkIsReal`), an executed row by a
  complete act or a lost attempt (`ExecutedIsOut`); what a call relies on (`Standing`) is never taken back
  (`Later`). Alone, `ApprovedIsWhatRuns`: a call goes on only with the record it judged (`Own`).
  `CallsAreShort` is the part of `CallsEnd` that needs no fairness: each step of a call spends from a budget
  (`Left`); a lost race starts a call over once, and a rejection loses its compare-and-set only to something
  that cannot be taken back.
* **Generation_proofs.** `TypeCorrect`; `MeaningFollowsMarker`; `ReadsOneMeaning`; `FailuresTellTheTruth`;
  `MarkerRises`. `GInv` says that all rows are in the marker's meaning and what each stage of a connection
  knows of the marker: an open snapshot pins one, a verb that read nothing newer than its build has read one
  meaning, and what it counted bounds what it saved.
* **Outbound_proofs.** `TypeCorrect`; `SentMeansSent`; `LettersLeaveOnce`: a dunning run whose letters are
  all sendable sends none twice, from any number of processes. The claim of a letter is a compare-and-set,
  and `LInv` says that from the claim to the record the letter belongs to one process. The two other sends
  have no such claim, and theirs is a theorem of one process: `LeavesAtMostOnce`, `LeftStaysOnRecord`, on
  `AInv` (what left is settled or still on record as an attempt, `Good`; what the guards saw still holds,
  `Stands`).
* **Recurring_proofs.** `TypeCorrect`; `CursorSkipsNothing`; `LogAccountsForPeriods`. The tick and the patch
  write stale copies, and yet the cursor never passes an unsettled period: `Holds` says that each copy in
  flight points past settled periods only, and settled rows stay (`Forward`), so that an old copy is still
  right when it is written. `Papers` ties key, invoice, postings and log row together. Alone,
  `BilledOnceAsWritten`, on `AInv`: the tick's copy of the row is the row, and a write by hand still meets
  the status it was admitted on (`Stands`); cursor and count agree with the log, and no open row holds the
  fingerprint of an edited draft (`Even`).
* **Automation_proofs.** `TypeCorrect`; `OnceAnOccurrence`; `RowsTrue`; `LogTellsTruth`; `CascadesHold`;
  `MarksAreAccounted`; `SchedulesAreKept`; `HistoryStands`. `IInv` says what a firing in flight has claimed
  (`JobsFit`), how a row, its act and its cause belong together (`RowsFit`), that a row is stuck only
  through a fault or somebody working on it (`StuckByFault`), and what a moved bookmark rests on
  (`MarkAccounted`). The cascade is one operator, so half of the module is lemmas about it: what is reached
  is a wired chain, what came before a kept occurrence is kept and acted, each rule for the first time
  (`KeptPart`), rows are added and never rewritten. `LogTellsTruth` adds `HInv` to it: a row that is skipped
  or about to be has not acted unless it is `hurried`. `SchedulesAreKept` adds `SInv`: a firing that is not
  `astray` either is in the hands of the one tick that made it or has the bookmark on it or beyond it, and
  then the next due day is a cadence away. `RowsTrue` is the part of the log's truth that needs no history.
* **EbicsSync_proofs.** `SyncKeepsPromise` (the refinement of `StatementBook`), `BankToldOnFile`,
  `OutcomesAreTrue`, `LeaseIsExclusive`, for any files, processes and faults. `IInv` says what a job in
  flight has in its hands (`Papers`: a receipt is for files on file; between the reading of what is pending
  and the receipt every file of it is looked at or still to do; a code waiting to be logged is true), that a
  sync within its lease holds the lease (`Young`), and that the books have a day once (`BookOnce`, without
  which "overlap" could turn into "known"). `Grows` is what a job that does not act relies on. `RuleJoins`
  is about the rule alone: what it takes joins both neighbours. `BooksAreSound` follows from the promise:
  every day once and no seam (`OncePerDay`, `Chained`).
* **BankLine_proofs.** `OneLinePerLeg`, `LinesAgreeWithLedger`, `TransfersBookedOnce`, `OpenDraftsAsk`,
  `RefusalsNeverBook`, `AnswersAreFinal`: every property of the run. `Lines` says of lines and entries that
  a live decision was spent on its line and claims something posted (`Linked`), that a key's entry was
  posted by a booking (`Posted`), and that who is reversing a claimed entry was overtaken by the claim
  (`Crossed`). `reverse_entry` looks for a live claim first; a standing booking always has one, so that only
  entries posted by hand are ever reversed that way (`Busy`). `Desks` is about the drafts: of two drafts of
  a desk one is the older (`Aged`), without which two of them could come back together, and what closed a
  draft decided the same line (`ClosedHere`). Decide, Queue and Reopen have a lemma each for the lines and
  one for the drafts; all other actions leave lines alone and settle drafts at most (`QuietStep`).

Only model-checked: liveness (`CallsEnd`, `DaysArrive`), and the counterexample of `automation_resend`.
Liveness under fairness, ENABLED and induction over data are out of the prover's reach; recursive operators
are not used in a module with theorems.

## Where the code and its words disagree

One has a run that ends in a counterexample, and an entry in `PROJECT.json` with the quotations.

* `automation_resend`: a firing runs inside a transaction of its own (`registry.ts:1104`). What its verb
  commits before it calls a transport is a savepoint of it, so a process that dies after the mail left
  leaves no trace of the send, and the retry of the stuck row sends again, against "there is no case where a
  retry can double-count" (`fire.ts:459-465`).

Seen while modelling, without a run of their own.

*Guards in front of a transaction, with a second process.* An entry is posted into a month locked meanwhile
(the period is looked at before the posting's transaction, `postEntry.ts:1225`). A seal set between
`reopen_month`'s look and its delete is removed (`periods.ts:156`, `305`, against "permanently", `173`). The
pin of a draft is judged before the replay, whose transactions do not look again (`draftedActions.ts:593`).
The intent of a send does not mark the row, so the draft of a mail on the wire can still be rejected. The
intent of an invoice's send is an unconditional overwrite, so two sends under one key both reach the
transport (`invoice.ts:1208`); a batch is ordered twice; a letter that fails to render is recorded as failed
over another process's claim (`dunning/run.ts:1441`); a letter is chased although another process booked its
payment after the run looked: the paid invoices are read once, before the first letter
(`dunning/run.ts:1353`). An invoice issued by hand beside a tick is posted twice, since `runTransition` does
not look at the status again (`document.ts:931`, `1002`). A tick writes an ended or paused schedule back to
active (`recurring.ts:702`, against "ended is terminal", `schema.ts:59`), and its count drifts from the log.
The first two are what `late` and `strays` name in `LockWatch`; most of the others fail a property that a
run states for one process. Of the status written back, and of the debtor who pays during the letters, no
property says anything, since what the code does there is the whole story.

*Recurring.* The scheduler calls the tick directly, so the tick's create is an outermost dispatch and the
claim refuses its own key when the due date has moved with the day. The period stays frozen on every later
day until `run_due_recurring` is called as a verb, whose creates are nested. `recurring_alone` has both
kinds of tick and payment terms, so the refusal happens there: the period is billed late, never twice.

*Automation.* A retry starts with an empty cascade frame, so a chain may pass through its root rule once
more (`fire.ts:531`; `ChainsEnd` allows it). A skipped rule is written in two commits (`fire.ts:293-301`)
where the comment says one statement (`287-290`). Of two processes that finish one stuck row the second may
settle it as failed although the act committed. A process that dies between a verb's commit and the dispatch
of its event leaves no run row (`registry.ts:1041`). A refused write of the run log abandons the remaining
rules of the event. Two ticks that overlap write one bookmark in either order, so it can go back and a
weekly schedule can fire twice within seven days, against "the bookmark never moves backwards"
(`tick.ts:25`); a tick that dies before its bookmark leaves the rule due again the next day (`CadenceKept`
says `astray` of both). A retry that meets a skipped row between its two commits calls a verb that accepts
an empty input, and the row still ends as skipped although it acted (`QuietDidNothing` says `hurried`). A
row without an input has no derived key, so two retries of it may act twice; `ActsOnce` speaks of rows with
an input. A memo's replay dispatches the event again, so a rule enabled later fires for an old call.

*Statement sync.* A final outcome may be followed by another one when a lease was taken over, although a
downloaded statement is "never processed again" (`feed.ts:115-119`); what is final stays true
(`FinalIsTrue`). Two syncs under one repeated key may both fetch, against `autoSync.ts:21-22`.

*Bank inbox.* `reverse_entry` looks for a live claim before its transaction (`reverseEntry.ts:386`), so
another process's match in between leaves a line resting on a reversed entry (`RestsOnStanding` says
`crossed`). A draft is screened before the transaction that queues it (`agent-gate.ts:515`, `595`), so one
may stay pending on a line decided in between (`NoOrphanDraft` says `late`). A retry under a spent key
passes the screen while its line is decided (`bankBooking.ts:2516-2524`), and the draft it queues decides
nothing once the line is open again (`NoSpentDraft` says `again`).

## What is not modelled

The reasons are beside each component in `PROJECT.json`. In short: read models (reports, dashboards, search,
forecast), the faces (REST, MCP, Studio), layout and parsing (PDF, QR, camt, pain, foreign formats), tables
of law (VAT rates), settings, and the business records whose verbs are one transaction each (documents,
contacts, projects, tasks). Capabilities enter the models as a verdict.

## Plan

In this order, most important first. Twelve questions are about as many runs as the project wants to carry,
so a new run replaces one whose subject a theorem has taken over.

1. **Numbers**: pure algorithms against a reference definition over bounded inputs: largest remainder
   (`fx/rateMath.ts:147`), exact allocation of cost (`valuation.ts:986`), allocation of payments. Sums
   proved for every input where no induction over data is needed.
2. **Settlements of bank lines** (open items, payment runs) on top of BankLine, with the payments' own
   reversal, and automatic booking (a grant pauses when its booking is undone).
3. **EntryNumber and the audit chain**: gap-free series, catch-up after numbering was off, a chain appended
   under the write lock; as a refinement of `Journal`'s order.
4. **Vorlage schedules** beside Recurring: each period its own posting, proposals re-pointed
   (`vorlageSchedule.ts:590-740`); template and cadence edits for both.
5. **Portability** (bundle published inside the transaction that records it) and a small **Host** (two hosts
   on one stale lock file).

Theorems next: Recurring as an implementation of a schedule billed in turn, Outbound of a thing handed over
once, BankLine of a line decided and undone; a budget for a statement sync, the part of `DaysArrive` that
needs no fairness.

## How to run

    tlc -config Ledger_books.cfg MCLedger.tla
    tlapm Ledger_proofs.tla

Each run's module and configuration are in `PROJECT.json`.
