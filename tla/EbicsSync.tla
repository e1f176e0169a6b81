----------------------------- MODULE EbicsSync -----------------------------
(***************************************************************************)
(* The EBICS statement sync (banking/ebics/channel.ts) of one connection,  *)
(* with one account routed to it: whoever syncs takes a lease, downloads   *)
(* what the bank offers, files it in one transaction, books what is        *)
(* pending one file at a time, and only then tells the bank to mark it as  *)
(* fetched.  Each of these is a commit, or a call of the bank, of its own. *)
(* The owner may import the same files by hand meanwhile.                  *)
(***************************************************************************)
EXTENDS FeedRule, FiniteSets

CONSTANTS
    Proc,       \* the callers: the host's worker, an agent's process
    Issued,     \* the files the bank cuts, in the order of their positions
    ByHand,     \* the files the owner may import
    MaxFaults   \* deaths, failures of the store and of the bank

ASSUME SyncAssumptions ==
    Issued \subseteq Doc /\ ByHand \subseteq Doc /\ "nobody" \notin Proc /\ MaxFaults \in Nat

VARIABLES
    state,      \* of the connection: active, or halted on its bank keys
    offered,    \* the bank: files it has cut
    acked,      \* the bank: files it was told are fetched
    filed,      \* the members of the order log, their bytes in the file store
    outcome,    \* the newest outcome row of a member, "none" before the first
    book,       \* the statements imported
    keyed,      \* the members whose import is in the idempotency memo
    lease,      \* sync_started_at and its owner
    job,        \* what each caller is doing
    faults

vars == <<state, offered, acked, filed, outcome, book, keyed, lease, job, faults>>
bank == <<offered, acked>>
books == <<book, keyed>>

Nobody == [by |-> "nobody", old |-> FALSE, dead |-> FALSE]
Leases == [by : Proc \cup {"nobody"}, old : BOOLEAN, dead : BOOLEAN]
Codes == Final \cup Pending
Stages == {"idle", "download", "persist", "read", "import", "log", "receipt", "release"}
\* got: the download; receipt: it has been filed; seen: the pending members and their outcome, as read;
\* over: the caller's lease has run out.
Jobs == [at : Stages, got : SUBSET Doc, receipt : BOOLEAN, todo : SUBSET Doc,
         seen : [Doc -> Codes \cup {"none"}], doc : Doc \cup {0}, code : Codes \cup {"none"}, over : BOOLEAN]
Nothing == [d \in Doc |-> "none"]
Idle == [at |-> "idle", got |-> {}, receipt |-> FALSE, todo |-> {}, seen |-> Nothing,
         doc |-> 0, code |-> "none", over |-> FALSE]

Init ==
    /\ state = "active"
    /\ offered = {} /\ acked = {}
    /\ filed = {} /\ outcome = Nothing
    /\ book = {} /\ keyed = {}
    /\ lease = Nobody
    /\ job = [p \in Proc |-> Idle]
    /\ faults = 0

At(p, stage) == job[p].at = stage
Goes(p, state_) == job' = [job EXCEPT ![p] = state_]
Fault == faults < MaxFaults /\ faults' = faults + 1
Syncing(p) == ~At(p, "idle")

-----------------------------------------------------------------------------
(* The lease *)

\* The conditional UPDATE: free, or older than SYNC_LEASE_MS.
Free_never_old == lease.by = "nobody"
Free == lease.by = "nobody" \/ lease.old

Start(p) ==
    /\ At(p, "idle") /\ state = "active" /\ Free
    /\ lease' = [by |-> p, old |-> FALSE, dead |-> FALSE]
    /\ Goes(p, [Idle EXCEPT !.at = "download"])
    /\ UNCHANGED <<state, bank, filed, outcome, books, faults>>

\* Only one's own: WHERE sync_started_at = the stamp it was taken with.
Released_any(p) == Nobody
Released(p) == IF lease.by = p THEN Nobody ELSE lease

\* Fifteen minutes pass.
Expire ==
    /\ lease.by # "nobody" /\ ~lease.old
    /\ lease' = [lease EXCEPT !.old = TRUE]
    /\ job' = [p \in Proc |-> IF p = lease.by /\ Syncing(p) THEN [job[p] EXCEPT !.over = TRUE] ELSE job[p]]
    /\ UNCHANGED <<state, bank, filed, outcome, books, faults>>

\* The next till up finds a lease whose process is gone.
Reclaim ==
    /\ lease.dead
    /\ lease' = Nobody
    /\ UNCHANGED <<state, bank, filed, outcome, books, job, faults>>

-----------------------------------------------------------------------------
(* One sync *)

NewAtBank == offered \ acked

\* Whatever the bank is told fetched it does not offer again; what it is not told, it does.
Download(p) ==
    /\ At(p, "download")
    /\ Goes(p, [job[p] EXCEPT !.at = IF NewAtBank = {} THEN "read" ELSE "persist", !.got = NewAtBank])
    /\ UNCHANGED <<state, bank, filed, outcome, books, lease, faults>>

\* A refusal, a replay or no answer: nothing is filed; a doubtful answer has the bank keys compared, and
\* changed ones halt the channel.  What is pending is booked all the same.
DownloadFails(p) ==
    /\ At(p, "download") /\ Fault
    /\ state' \in {state, "bank_keys_changed"}
    /\ Goes(p, [job[p] EXCEPT !.at = "read"])
    /\ UNCHANGED <<bank, filed, outcome, books, lease>>

\* The container and every new member, in one transaction.
Persist(p) ==
    /\ At(p, "persist")
    /\ filed' = filed \cup job[p].got
    /\ Goes(p, [job[p] EXCEPT !.at = "read", !.receipt = TRUE])
    /\ UNCHANGED <<state, bank, outcome, books, lease, faults>>

\* The commit fails: a negative receipt, and the bank offers the data again.
PersistFails_confirmed(p) ==
    /\ At(p, "persist") /\ Fault
    /\ Goes(p, [job[p] EXCEPT !.at = "read", !.receipt = TRUE])
    /\ UNCHANGED <<state, bank, filed, outcome, books, lease>>
PersistFails(p) ==
    /\ At(p, "persist") /\ Fault
    /\ Goes(p, [job[p] EXCEPT !.at = "read", !.got = {}])
    /\ UNCHANGED <<state, bank, filed, outcome, books, lease>>

PendingMembers == {d \in filed : outcome[d] \notin Final}
\* One member after the other, then the receipt of what was downloaded.
Rest(j) == IF j.todo # {} THEN [j EXCEPT !.at = "import"]
           ELSE IF j.receipt THEN [j EXCEPT !.at = "receipt"] ELSE [j EXCEPT !.at = "release"]

ReadPending(p) ==
    /\ At(p, "read")
    /\ Goes(p, Rest([job[p] EXCEPT !.todo = PendingMembers,
                                !.seen = [d \in Doc |-> IF d \in PendingMembers THEN outcome[d] ELSE "none"]]))
    /\ UNCHANGED <<state, bank, filed, outcome, books, lease, faults>>

\* In position order, the files that show none last.
Earliest(S) == {d \in S : \A e \in S \ {d} : /\ Data[e].dayEnd => Data[d].dayEnd /\ ~Earlier(Pos(e), Pos(d))}

\* importCamt under the member's fixed key: the memo answers, or the rule decides; no refusal is kept.
Answer_duplicate(d) == IF d \in keyed THEN "duplicate" ELSE decideSuccessor(d, book)
Answer(d) == IF d \in keyed THEN "imported" ELSE decideSuccessor(d, book)

ImportMember(p) ==
    /\ At(p, "import")
    /\ \E d \in Earliest(job[p].todo) :
        /\ book' = IF Answer(d) = "imported" THEN book \cup {d} ELSE book
        /\ keyed' = IF Answer(d) = "imported" THEN keyed \cup {d} ELSE keyed
        /\ Goes(p, [job[p] EXCEPT !.at = "log", !.todo = @ \ {d}, !.doc = d, !.code = Answer(d)])
    /\ UNCHANGED <<state, bank, filed, outcome, lease, faults>>

\* The outcome row, only when it differs from what was read at the start.
LogOutcome(p) ==
    /\ At(p, "log")
    /\ outcome' = IF job[p].seen[job[p].doc] # job[p].code
                  THEN [outcome EXCEPT ![job[p].doc] = job[p].code] ELSE outcome
    /\ Goes(p, Rest([job[p] EXCEPT !.seen[job[p].doc] = "none", !.doc = 0, !.code = "none"]))
    /\ UNCHANGED <<state, bank, filed, books, lease, faults>>

\* The positive receipt; the bank's confirmation is logged, and changes nothing.
Receipt(p) ==
    /\ At(p, "receipt")
    /\ acked' = acked \cup job[p].got
    /\ Goes(p, [job[p] EXCEPT !.at = "release"])
    /\ UNCHANGED <<state, offered, filed, outcome, books, lease, faults>>

ReceiptLost(p) ==
    /\ At(p, "receipt") /\ Fault
    /\ Goes(p, [job[p] EXCEPT !.at = "release"])
    /\ UNCHANGED <<state, bank, filed, outcome, books, lease>>

\* last_sync_at, the memo of the answer, and the lease.
Release(p) ==
    /\ At(p, "release")
    /\ lease' = Released(p)
    /\ Goes(p, Idle)
    /\ UNCHANGED <<state, bank, filed, outcome, books, faults>>

-----------------------------------------------------------------------------
(* Faults, the owner and the bank *)

\* The sync throws, or its host gives the worker up: nothing more is done, and the lease is given back.
GiveUp(p) ==
    /\ Syncing(p) /\ Fault
    /\ lease' = Released(p)
    /\ Goes(p, Idle)
    /\ UNCHANGED <<state, bank, filed, outcome, books>>

\* The process dies: its lease stays, with the name of a process that is gone.
Die(p) ==
    /\ Syncing(p) /\ Fault
    /\ lease' = IF lease.by = p THEN [lease EXCEPT !.dead = TRUE] ELSE lease
    /\ Goes(p, Idle)
    /\ UNCHANGED <<state, bank, filed, outcome, books>>

\* import_camt by hand, under a key of its own: the same rule.
ImportByHand(d) ==
    /\ decideSuccessor(d, book) = "imported"
    /\ book' = book \cup {d}
    /\ UNCHANGED <<state, bank, filed, outcome, keyed, lease, job, faults>>

\* The owner confirms the new keys.
ConfirmKeys ==
    /\ state = "bank_keys_changed"
    /\ state' = "active"
    /\ UNCHANGED <<bank, filed, outcome, books, lease, job, faults>>

Cut(d) ==
    /\ d \notin offered
    /\ \A e \in Issued \ offered : ~Earlier(Pos(e), Pos(d))
    /\ offered' = offered \cup {d}
    /\ UNCHANGED <<state, acked, filed, outcome, books, lease, job, faults>>

Works(p) ==
    \/ Download(p) \/ Persist(p) \/ ReadPending(p) \/ ImportMember(p) \/ LogOutcome(p)
    \/ Receipt(p) \/ Release(p)
Fails(p) == DownloadFails(p) \/ PersistFails(p) \/ ReceiptLost(p) \/ GiveUp(p) \/ Die(p)

Next ==
    \/ \E p \in Proc : Start(p) \/ Works(p) \/ Fails(p)
    \/ Expire \/ Reclaim \/ ConfirmKeys
    \/ \E d \in ByHand : ImportByHand(d)
    \/ \E d \in Issued : Cut(d)

Spec == Init /\ [][Next]_vars

\* A sync that runs goes on; time passes; the bank keeps cutting statements, the owner confirms changed
\* keys, and somebody (the daily fetch, if nobody else) syncs again.  Faults end, which MaxFaults says.
FairSpec ==
    /\ Spec
    /\ \A p \in Proc : WF_vars(Works(p))
    /\ WF_vars(Expire) /\ WF_vars(ConfirmKeys)
    /\ WF_vars(\E d \in Issued : Cut(d))
    /\ WF_vars(\E p \in Proc : Start(p))

-----------------------------------------------------------------------------
(* Properties *)

\* Every variable keeps its type.  (ebics_connection, ebics_order_log, bank_statement)
TypeOK ==
    /\ state \in {"active", "bank_keys_changed"}
    /\ offered \subseteq Issued /\ acked \subseteq Issued /\ filed \subseteq Issued
    /\ outcome \in [Doc -> Codes \cup {"none"}]
    /\ book \subseteq Doc /\ keyed \subseteq Doc
    /\ lease \in Leases
    /\ job \in [Proc -> Jobs]
    /\ faults \in 0..MaxFaults

\* What the bank was told is fetched is on file, and somebody has looked at it: nothing is lost between
\* the two, wherever a sync dies.  (the receipt follows the commit and the outcome rows)
AckedOnFile == \A d \in acked : d \in filed /\ outcome[d] # "none"

\* A final outcome tells the truth for good: the day is in the books, and with other balances where the
\* log says overlap.  (the log follows the import, in another commit)
FinalIsTrue ==
    TypeOK /\ \A d \in filed :
        /\ outcome[d] \in {"imported", "already_imported"} => Known(d, book)
        /\ outcome[d] = "overlap_refused" => Present(d, book) /\ ~Known(d, book)

\* Two syncs run at once only if one of them has outlived its lease.  (a lease of a dead process, a lease
\* given back by a sync that was taken over)
OneFreshSync == \A p, q \in Proc : Syncing(p) /\ Syncing(q) /\ p # q => job[p].over \/ job[q].over

\* The sync, its faults and the owner's hand make a feed as StatementBook promises it.
Promised == INSTANCE StatementBook WITH onFile <- filed, booked <- book, fetched <- acked
KeepsItsPromise == Promised!Spec

\* Every day the bank cut comes to stand in the books, from the first one there on, unless the owner
\* imported a copy of a day with other balances.  (at every sync all that is pending is tried again)
DaysArrive ==
    <>(book # {} /\ \A d \in Issued : \/ Known(d, book)
                                      \/ Below(d, book) = {}
                                      \/ \E e \in book : Present(e, Issued) /\ ~Known(e, Issued))
=============================================================================
