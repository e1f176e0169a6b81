------------------------------ MODULE Approval ------------------------------
(***************************************************************************)
(* The inbox of drafted actions (src/core/agent/draftedActions.ts): what   *)
(* an agent may only propose waits as an agent_action row, and runs when a *)
(* person approves it.                                                     *)
(*                                                                         *)
(* One verb under one key is proposed again and again (a void row leaves   *)
(* room for a fresh one).  Its act consumes ONE pinned record and commits  *)
(* step by step; a replay goes on where the key's own memos say it stopped.*)
(* The first step of an outbound act is a transport call, which commits an *)
(* intent before it and a record after it.                                 *)
(*                                                                         *)
(* A process runs one call at a time (a verb is synchronous); between      *)
(* processes every read and every transaction of a call interleaves.       *)
(***************************************************************************)
EXTENDS Integers

CONSTANTS
    Proc,          \* the processes that hold the book open
    Row,           \* agent_action ids, handed out in ascending order
    Version,       \* the contents the pinned record can have
    Steps,         \* how many transactions the act commits
    Outbound,      \* does its first step call a transport
    MemoUnderKey,  \* does the verb file its completed memo under its own name and key
    None           \* no version

ASSUME ApprovalAssumptions ==
    /\ Row \subseteq Nat \ {0}
    /\ Steps \in Nat \ {0}
    /\ Version # {} /\ None \notin Version
    /\ Outbound \in BOOLEAN /\ MemoUnderKey \in BOOLEAN

NoRow == 0

VARIABLES
    rec,      \* the pinned record, as it reads now
    row,      \* agent_action, by id
    done,     \* how many steps of the act are committed
    intent,   \* the act's send attempt stands at 'dispatching'
    auto,     \* the rows whose approval set the dial to 'auto' for good
    call,     \* what each process is doing
    ran,      \* the steps each row's approval committed (history)
    left,     \* the rows under whose approval something left the building (history)
    told      \* the outcomes people were told (history)

book == <<rec, row, done, intent, auto>>
vars == <<book, call, ran, left, told>>

Decided == {"executed", "rejected", "stale"}

\* committed: committed_at is set; leaves: committed_pin, the record as the act's last transaction left it.
Rows == [status : {"none", "pending"} \cup Decided, pin : Version \cup {None},
         committed : BOOLEAN, leaves : Version \cup {None}]
Unqueued == [status |-> "none", pin |-> None, committed |-> FALSE, leaves |-> None]
Queued == [status |-> "pending", pin |-> rec, committed |-> FALSE, leaves |-> None]

Stages == {"idle", "load", "judge", "void", "replay", "wire", "refused", "flip", "grant", "reject"}
CallStates ==
    [stage : Stages, approves : BOOLEAN, r : Row \cup {NoRow}, committed : BOOLEAN,
     leaves : Version \cup {None}, retried : BOOLEAN, allow : BOOLEAN, unknown : BOOLEAN]
Idle == [stage |-> "idle", approves |-> FALSE, r |-> NoRow, committed |-> FALSE, leaves |-> None,
         retried |-> FALSE, allow |-> FALSE, unknown |-> FALSE]

Init ==
    /\ rec \in Version
    /\ row = [r \in Row |-> Unqueued]
    /\ done = 0
    /\ intent = FALSE
    /\ auto = {}
    /\ call = [p \in Proc |-> Idle]
    /\ ran = [r \in Row |-> {}]
    /\ left = {}
    /\ told = {}

-----------------------------------------------------------------------------
(* Judging a row *)

\* The pin reads what the person approves, or what the act's own last transaction left; a verb that
\* memoises under its own name and key also settles once it is complete.
Settleable_forgiving(pin, leaves) == rec = pin \/ leaves # None
Settleable(pin, leaves) ==
    \/ rec = pin
    \/ leaves # None /\ rec = leaves
    \/ MemoUnderKey /\ done = Steps

\* The row a transaction of the act may still stamp with its mark.
Stampable_unchecked(r) == TRUE
Stampable(r) == row[r].status \in {"pending", "executed"}

Resolved(r, status) == [row[r] EXCEPT !.status = status]
Stamped(r, committed, v) == [row[r] EXCEPT !.committed = @ \/ committed, !.leaves = v]

-----------------------------------------------------------------------------
(* Proposing, and everybody else *)

Live == {r \in Row : row[r].status \notin {"none", "stale"}}
Pending == {r \in Row : row[r].status = "pending"}
Fresh(r) == row[r].status = "none" /\ \A s \in Row : row[s].status = "none" => r <= s

\* The replay target of a same-key proposal is void: it is pending and its record moved on.
Void(r) == row[r].status = "pending" /\ ~Settleable(row[r].pin, row[r].leaves)

\* A proposal mints a row unless the key has one already; a void one goes stale first.  One
\* transaction: the draft seam calls enqueueDraftedAction inside store.tx.
Voided_kept(r) == row[r]
Voided(r) == Resolved(r, "stale")

Enqueue(p) ==
    /\ call[p].stage = "idle"
    /\ \A r \in Live : Void(r)
    /\ \E new \in Row :
         /\ Fresh(new)
         /\ row' = [r \in Row |-> CASE r = new -> Queued
                                    [] r \in Live -> Voided(r)
                                    [] OTHER -> row[r]]
    /\ UNCHANGED <<rec, done, intent, auto, call, ran, left, told>>

\* Any other verb rewrites the pinned record.
Touch(p) ==
    /\ call[p].stage = "idle"
    /\ \E v \in Version \ {rec} : rec' = v
    /\ UNCHANGED <<row, done, intent, auto, call, ran, left, told>>

-----------------------------------------------------------------------------
(* Approving and rejecting: the calls' own reads and writes *)

Goes(p, state) == call' = [call EXCEPT ![p] = state]
Moves(p, stage) == Goes(p, [call[p] EXCEPT !.stage = stage])
Tells(p, outcome) ==
    /\ told' = told \cup {[r |-> call[p].r, outcome |-> outcome]}
    /\ Goes(p, Idle)

Approve(p, r, allow) ==
    /\ call[p].stage = "idle"
    /\ row[r].status # "none"
    /\ Goes(p, [Idle EXCEPT !.stage = "load", !.approves = TRUE, !.r = r, !.allow = allow])
    /\ UNCHANGED <<book, ran, left, told>>

Reject(p, r) ==
    /\ call[p].stage = "idle"
    /\ row[r].status # "none"
    /\ Goes(p, [Idle EXCEPT !.stage = "load", !.r = r])
    /\ UNCHANGED <<book, ran, left, told>>

\* A row whose act committed cannot be recorded as rejected: not when it is read ...
Refutable_unread(r) == TRUE
Refutable(r) == ~r.committed

\* loadAction: a decided row answers as it was decided, a pending one is judged on the mark as read.
Load(p) ==
    LET r == row[call[p].r] IN
    /\ call[p].stage = "load"
    /\ IF r.status # "pending" THEN Tells(p, r.status)
       ELSE /\ UNCHANGED told
            /\ IF call[p].approves
               THEN Goes(p, [call[p] EXCEPT !.stage = "judge", !.committed = r.committed, !.leaves = r.leaves])
               ELSE IF Refutable(r) THEN Moves(p, "reject") ELSE Goes(p, Idle)
    /\ UNCHANGED <<book, ran, left>>

Judge(p) ==
    /\ call[p].stage = "judge"
    /\ Moves(p, IF Settleable(row[call[p].r].pin, call[p].leaves) THEN "replay" ELSE "void")
    /\ UNCHANGED <<book, ran, left, told>>

\* lostRace: judge once more on the row as it is now, then give up with store_busy.
LosesRace(p) ==
    IF call[p].retried THEN Goes(p, Idle)
    ELSE Goes(p, [Idle EXCEPT !.stage = "load", !.approves = TRUE, !.r = call[p].r,
                              !.allow = call[p].allow, !.retried = TRUE])

\* markStale's compare-and-set: pending, and its mark what the caller judged.
Unmoved(r, seen) == r.status = "pending" /\ r.committed = seen.committed /\ r.leaves = seen.leaves

MarkStale(p) ==
    LET r == call[p].r IN
    /\ call[p].stage = "void"
    /\ IF Unmoved(row[r], call[p])
       THEN /\ row' = [row EXCEPT ![r] = Resolved(r, "stale")]
            /\ Tells(p, "stale")
       ELSE /\ LosesRace(p)
            /\ UNCHANGED <<row, told>>
    /\ UNCHANGED <<rec, done, intent, auto, ran, left>>

\* ... and not when it is written: the rejection's compare-and-set on the mark; a lost one reads again.
Rejectable_unmarked(r) == r.status = "pending"
Rejectable(r) == r.status = "pending" /\ ~r.committed

MarkRejected(p) ==
    LET r == call[p].r IN
    /\ call[p].stage = "reject"
    /\ IF Rejectable(row[r])
       THEN /\ row' = [row EXCEPT ![r] = Resolved(r, "rejected")]
            /\ Tells(p, "rejected")
       ELSE /\ Moves(p, "load")
            /\ UNCHANGED <<row, told>>
    /\ UNCHANGED <<rec, done, intent, auto, ran, left>>

-----------------------------------------------------------------------------
(* The replay under the commit mark *)

\* A transaction of the act commits and stamps the row it runs for, and leaves the record at v.
Stamps(r, committed, v) ==
    /\ rec' = v
    /\ row' = [row EXCEPT ![r] = Stamped(r, committed, v)]

\* An outbound act that has not yet recorded its send, and has not started it either.
SendsNext == Outbound /\ done = 0
MayRun_again(p, stage) == call[p].stage = stage /\ (stage = "replay" => ~intent)
MayRun(p, stage) == call[p].stage = stage /\ done < Steps /\ (stage = "replay" => ~intent)

\* A step commits.  After a transport it is the record of the send, which settles the intent.
RunStep(p) ==
    LET r == call[p].r IN
    /\ IF SendsNext THEN MayRun(p, "wire") ELSE MayRun(p, "replay")
    /\ Stampable(r)
    /\ \E v \in Version : Stamps(r, TRUE, v)
    /\ done' = done + 1
    /\ intent' = FALSE
    /\ left' = IF SendsNext THEN left \cup {r} ELSE left
    /\ ran' = [ran EXCEPT ![r] = @ \cup {done + 1}]
    /\ Moves(p, "replay")
    /\ UNCHANGED <<auto, told>>

\* The intent commits before the transport is called, and marks nothing (withoutCommitMark).
WriteIntent(p) ==
    LET r == call[p].r IN
    /\ SendsNext /\ MayRun(p, "replay")
    /\ Stampable(r)
    /\ \E v \in Version : Stamps(r, FALSE, v)
    /\ intent' = TRUE
    /\ Moves(p, "wire")
    /\ UNCHANGED <<done, auto, ran, left, told>>

\* The transport says nothing left: the intent is retracted, unmarked, and the verb refuses.
TransportRefuses(p) ==
    LET r == call[p].r IN
    /\ call[p].stage = "wire"
    /\ Stampable(r)
    /\ \E v \in Version : Stamps(r, FALSE, v)
    /\ intent' = FALSE
    /\ Moves(p, "refused")
    /\ UNCHANGED <<done, auto, ran, left, told>>

\* The transport throws: it may have sent, and commitMarkNow says so if the row still takes the mark.
TransportThrows(p) ==
    LET r == call[p].r IN
    /\ call[p].stage = "wire"
    /\ left' \in {left, left \cup {r}}
    /\ IF Stampable(r) THEN Stamps(r, TRUE, rec) ELSE UNCHANGED <<rec, row>>
    /\ Moves(p, "refused")
    /\ UNCHANGED <<done, intent, auto, ran, told>>

\* The row was rejected or voided meanwhile: the mark throws and takes the act's transaction with it.
MarkThrows(p) ==
    /\ MayRun(p, "replay") \/ MayRun(p, "wire")
    /\ ~Stampable(call[p].r)
    /\ left' \in IF call[p].stage = "wire" THEN {left, left \cup {call[p].r}} ELSE {left}
    /\ Moves(p, "refused")
    /\ UNCHANGED <<book, ran, told>>

\* The verb refuses: before any write, or after writing only about the refusal itself.
Refuses(p) ==
    LET r == call[p].r IN
    /\ MayRun(p, "replay")
    /\ \/ UNCHANGED <<rec, row>>
       \/ Stampable(r) /\ \E v \in Version : Stamps(r, FALSE, v)
    /\ Moves(p, "refused")
    /\ UNCHANGED <<done, intent, auto, ran, left, told>>

\* The act is complete: its own memo answers.
Completes(p) ==
    /\ call[p].stage = "replay" /\ done = Steps
    /\ Moves(p, "flip")
    /\ UNCHANGED <<book, ran, left, told>>

\* An attempt of unknown outcome stands: send_outcome_unknown before any write.  It settles a row that
\* an earlier attempt of this approval marked, and is a refusal of any other.
OutcomeUnknown(p) ==
    /\ call[p].stage = "replay" /\ intent /\ done < Steps
    /\ Goes(p, [call[p] EXCEPT !.stage = IF call[p].committed THEN "flip" ELSE "refused", !.unknown = TRUE])
    /\ UNCHANGED <<book, ran, left, told>>

\* A refusal is answered as it is, unless the row was decided meanwhile: then the row answers.
AnswerRefusal_settles(p) ==
    /\ call[p].stage = "refused"
    /\ Moves(p, "flip")
    /\ UNCHANGED <<book, ran, left, told>>
AnswerRefusal(p) ==
    /\ call[p].stage = "refused"
    /\ IF row[call[p].r].status # "pending" THEN LosesRace(p) ELSE Goes(p, Idle)
    /\ UNCHANGED <<book, ran, left, told>>

\* The status flip: a write of its own, after the act.
Flippable_blind(r) == TRUE
Flippable(r) == row[r].status = "pending"

\* The approver asked for a standing grant, and the act went through.
GrantsAuto_anyway(p) == call[p].allow
GrantsAuto(p) == call[p].allow /\ ~call[p].unknown

Flip(p) ==
    LET r == call[p].r IN
    /\ call[p].stage = "flip"
    /\ IF Flippable(r)
       THEN /\ row' = [row EXCEPT ![r] = Resolved(r, "executed")]
            /\ IF GrantsAuto(p) THEN Moves(p, "grant") /\ UNCHANGED told
               ELSE Tells(p, "executed")
       ELSE /\ LosesRace(p)
            /\ UNCHANGED <<row, told>>
    /\ UNCHANGED <<rec, done, intent, auto, ran, left>>

\* "Genehmigen und kuenftig automatisch": the dial write, the last of an approval that went through.
Grant(p) ==
    /\ call[p].stage = "grant"
    /\ auto' = auto \cup {call[p].r}
    /\ Tells(p, "executed")
    /\ UNCHANGED <<rec, row, done, intent, ran, left>>

\* The process dies.  In front of a transport nobody knows whether it had sent.
Crash(p) ==
    /\ call[p].stage # "idle"
    /\ left' \in IF call[p].stage = "wire" THEN {left, left \cup {call[p].r}} ELSE {left}
    /\ Goes(p, Idle)
    /\ UNCHANGED <<book, ran, told>>

Work(p) ==
    \/ Load(p) \/ Judge(p) \/ MarkStale(p) \/ MarkRejected(p)
    \/ RunStep(p) \/ WriteIntent(p) \/ TransportRefuses(p) \/ TransportThrows(p)
    \/ MarkThrows(p) \/ Refuses(p) \/ Completes(p) \/ OutcomeUnknown(p)
    \/ AnswerRefusal(p) \/ Flip(p) \/ Grant(p)

Next ==
    \E p \in Proc :
        \/ Enqueue(p) \/ Touch(p) \/ Crash(p) \/ Work(p)
        \/ \E r \in Row : Reject(p, r) \/ \E allow \in BOOLEAN : Approve(p, r, allow)

Spec == Init /\ [][Next]_vars

\* A verb is synchronous: once called it runs to its answer unless the process dies.
FairSpec == Spec /\ \A p \in Proc : WF_vars(Work(p))

-----------------------------------------------------------------------------
(* Properties *)

TypeOK ==
    /\ rec \in Version
    /\ row \in [Row -> Rows]
    /\ done \in 0..Steps
    /\ intent \in BOOLEAN
    /\ auto \subseteq Row
    /\ call \in [Proc -> CallStates]
    /\ \A p \in Proc : call[p].stage # "idle" => call[p].r \in Row
    /\ ran \in [Row -> SUBSET (1..Steps)]
    /\ left \subseteq Row
    /\ told \subseteq [r : Row, outcome : Decided]

\* A row recorded as rejected never committed anything: whoever approves it in another process either
\* commits first, and then it cannot be rejected, or finds the "no" and rolls back.
\* (the reject's compare-and-set on committed_at, and the commit mark's throw)
RejectedNeverRan == \A r \in Row : row[r].status = "rejected" => ran[r] = {}

\* A row recorded as executed ran its act to the end, or to an outcome nobody knows; never in part.
ExecutedRanOut == \A r \in Row : row[r].status = "executed" => done = Steps \/ intent

\* One proposal at a time: a void row never stays pending beside the row that replaces it.
\* (enqueueOnce: the void comes first)
OneQuestion == \A r, s \in Pending : r = s

\* Nobody is told two different outcomes of one row, whatever raced.
\* (lostRace, and the re-reads after every compare-and-set)
OneAnswer == \A a, b \in told : a.r = b.r => a.outcome = b.outcome

\* What was decided stays decided, and a decided row's act commits nothing more, except that a second
\* approval of an executed row may still finish it.
DecidedForGood ==
    [][\A r \in Row : row[r].status \in Decided =>
         /\ row'[r].status = row[r].status
         /\ row[r].status # "executed" => ran'[r] = ran[r]]_<<row, ran>>

\* An attempt of unknown outcome: the intent stands and no call is left in front of the transport.
OnWire(p) == call[p].stage = "wire"
Sunk == intent /\ \A p \in Proc : ~OnWire(p)

\* Whatever races and dies, the rows are one question at a time, answered once, under which the act's
\* steps commit in turn.  (the module Decision)
D == INSTANCE Decision WITH status <- [r \in Row |-> row[r].status], lost <- Sunk
DecisionSpec == D!Spec

\* What was approved is what runs: a step of the act runs on the record as the person approved it, or
\* as the act's own earlier steps left it.  (settleable, judged before the replay)
RunsWhatWasApproved ==
    [][\A r \in Row : ran'[r] # ran[r] => rec \in {row[r].pin, row[r].leaves}]_ran

\* A standing grant never outlives a failed approval, nor rides on an unknown outcome.
GrantsOnlyExecuted == \A r \in auto : row[r].status = "executed" /\ done = Steps

\* Every call is answered: no approval, and no rejection, re-reads its row for ever.
CallsEnd == \A p \in Proc : call[p].stage # "idle" ~> call[p].stage = "idle"

\* One question, one answer: never two open rows for one act, nor two outcomes told of one row.
\* (enqueueOnce, lostRace)
OneQuestionOneAnswer == OneQuestion /\ OneAnswer

\* What reads executed was executed, and only on that does a standing grant rest.  (approveOnce)
ExecutedIsReal == ExecutedRanOut /\ GrantsOnlyExecuted
=============================================================================
