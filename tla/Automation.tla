----------------------------- MODULE Automation -----------------------------
(***************************************************************************)
(* Automation (src/core/automation): a rule names an event and the verb to *)
(* call when it happens.  A firing is three commits: the run row is        *)
(* claimed, the verb is invoked in one transaction, the row is settled.    *)
(* The verb's own event is dispatched inside its transaction, so a whole   *)
(* cascade of rules commits, or vanishes, with the firing it started from. *)
(*                                                                         *)
(* An occurrence is a source (a call of a verb, or a day of the tick) and  *)
(* the chain of rules it came through: each step appends the derived key   *)
(* of its firing to the event's key, so the chain is what event_ref says.  *)
(***************************************************************************)
EXTENDS Integers, Sequences

CONSTANTS
    Proc,       \* the processes that hold the book open
    Event,      \* the calls of emitting verbs, each under a key of its own
    Rule,       \* the stored rules, numbered by created_at
    Listens,    \* the rules on each call's event
    Triggers,   \* the rules on the event that a rule's verb emits
    Every,      \* the cadence of the schedule rules, in days
    Denied,     \* the rules whose verb the denylist names since they were saved
    Sends,      \* the rules whose verb hands something to a transport
    Bare,       \* the rules whose verb accepts an empty input
    Switched,   \* the rules people turn off and on
    MaxDepth,   \* MAX_CASCADE_DEPTH
    MaxDay,     \* the clock ends here
    MaxFaults   \* deaths of a process and refusals of the store

Day == 1..MaxDay
Source == Event \cup Day
MaxCount == 2   \* histories count to this

ASSUME AutomationAssumptions ==
    /\ Rule \subseteq Nat
    /\ Event \cap Day = {}
    /\ Listens \in [Event -> SUBSET Rule] /\ Triggers \in [Rule -> SUBSET Rule]
    /\ DOMAIN Every \subseteq Rule /\ \A r \in DOMAIN Every : Every[r] \in Nat \ {0}
    /\ Denied \subseteq Rule /\ Sends \subseteq Rule /\ Bare \subseteq Rule /\ Switched \subseteq Rule
    /\ MaxDepth \in Nat \ {0} /\ MaxDay \in Nat \ {0} /\ MaxFaults \in Nat

\* A rule listens to one event: rules that share one of their calls share them all, and a schedule rule has
\* none.
ASSUME OneTrigger ==
    LET Heard == {Listens[e] : e \in Event} \cup {Triggers[r] : r \in Rule} IN
    \A S, T \in Heard : (S = T \/ S \cap T = {}) /\ S \cap DOMAIN Every = {}

VARIABLES
    day,        \* the clock
    enabled,    \* the rules that are on
    happened,   \* the calls whose verb committed
    run,        \* automation_run: a row per claimed occurrence
    mark,       \* last_fired_at of the schedule rules, 0 before the first
    job,        \* what each process is doing
    acts,       \* how often the verb of an occurrence committed
    left,       \* how often it handed its message to the transport (history)
    faults      \* deaths and refusals so far

vars == <<day, enabled, happened, run, mark, job, acts, left, faults>>

Quiet == {"skipped_condition", "suppressed_loop", "suppressed_depth"}
Statuses == {"running", "ok", "failed"} \cup Quiet
Row == [status : Statuses, input : {"resolved", "none"}]
Chains == UNION {[1..n -> Rule] : n \in 1..(MaxDepth + 2)}
Occurrence == Source \X Chains
Verdicts == {"ok", "failed", "undone"}

Stages == {"idle", "called", "list", "invoke", "settle", "mark"}
Jobs == [at : Stages, kind : {"event", "tick", "retry"}, src : Source \cup {0}, todo : SUBSET Rule,
         rule : Rule \cup {0}, verdict : {"ok", "failed", "skipped_condition"}]
Idle == [at |-> "idle", kind |-> "event", src |-> 0, todo |-> {}, rule |-> 0, verdict |-> "ok"]

Init ==
    /\ day = 1
    /\ enabled = Rule
    /\ happened = {}
    /\ run = << >>
    /\ mark = [r \in DOMAIN Every |-> 0]
    /\ job = [p \in Proc |-> Idle]
    /\ acts = << >>
    /\ left = << >>
    /\ faults = 0

Goes(p, state) == job' = [job EXCEPT ![p] = state]
At(p, stage) == job[p].at = stage
\* After one rule the next; the tick writes the rule's bookmark in between.
Rest(j) == IF j.kind = "retry" \/ j.todo = {} THEN Idle ELSE [j EXCEPT !.at = "list"]
Answered_caught(j, verdict) == IF verdict = "failed" THEN Idle ELSE [j EXCEPT !.at = "settle", !.verdict = verdict]
Answered(j, verdict) == [j EXCEPT !.at = "settle", !.verdict = verdict]
Accounted(j) == IF j.kind = "tick" THEN [j EXCEPT !.at = "mark"] ELSE Rest(j)
Claimed == DOMAIN run
Count(f, o) == IF o \in DOMAIN f THEN f[o] ELSE 0
Bump(f, S) == [o \in DOMAIN f \cup S |-> IF o \in S /\ Count(f, o) < MaxCount THEN Count(f, o) + 1 ELSE Count(f, o)]
First(S) == CHOOSE r \in S : \A s \in S : r <= s
Root(p) == <<job[p].src, <<job[p].rule>>>>
Ending(o) == o[2][Len(o[2])]
Before(o) == <<o[1], SubSeq(o[2], 1, Len(o[2]) - 1)>>

-----------------------------------------------------------------------------
(* Dispatch: the rules of an event, or the schedule rules that are due *)

\* A verb commits, or answers a repeated call from its memo; either way its event is dispatched after.
Call(p, e) ==
    /\ At(p, "idle")
    /\ happened' = happened \cup {e}
    /\ Goes(p, [Idle EXCEPT !.at = "called", !.src = e])
    /\ UNCHANGED <<day, enabled, run, mark, acts, left, faults>>

Dispatch(p) ==
    /\ At(p, "called")
    /\ Goes(p, Rest([job[p] EXCEPT !.todo = Listens[job[p].src] \cap enabled]))
    /\ UNCHANGED <<day, enabled, happened, run, mark, acts, left, faults>>

Due_early(r, asOf) == mark[r] = 0 \/ asOf - mark[r] + 1 >= Every[r]
Due(r, asOf) == mark[r] = 0 \/ asOf - mark[r] >= Every[r]

\* The tick reads the rules and their bookmarks once; asOf may lie in the past.
Tick(p, asOf) ==
    /\ At(p, "idle")
    /\ asOf <= day
    /\ Goes(p, Rest([Idle EXCEPT !.kind = "tick", !.src = asOf,
                                 !.todo = {r \in DOMAIN Every \cap enabled : Due(r, asOf)}]))
    /\ UNCHANGED <<day, enabled, happened, run, mark, acts, left, faults>>

-----------------------------------------------------------------------------
(* A firing *)

Evaluated(p, r) == [job[p] EXCEPT !.todo = @ \ {r}, !.rule = r]

\* The INSERT decides who fires: a row that is there already only counts the redelivery (not kept here).
Taken(o) == o \in Claimed
\* A rule that does not fire is claimed without an input, and settled in a commit of its own.
Claim_resolved(v) == [status |-> "running", input |-> "resolved"]
Claim(v) == [status |-> "running", input |-> IF v = "ok" THEN "resolved" ELSE "none"]

Evaluate(p) ==
    LET r == First(job[p].todo)
        o == <<job[p].src, <<r>>>> IN
    /\ At(p, "list")
    /\ \/ /\ Taken(o)
          /\ UNCHANGED run
          /\ Goes(p, Accounted(Evaluated(p, r)))
       \/ /\ ~Taken(o)
          /\ \E v \in {"ok", "failed", "skipped_condition"} :
              /\ v = "failed" <=> r \in Denied
              /\ run' = [x \in Claimed \cup {o} |-> IF x = o THEN Claim(v) ELSE run[x]]
              /\ Goes(p, [Evaluated(p, r) EXCEPT !.at = IF v = "ok" THEN "invoke" ELSE "settle", !.verdict = v])
    /\ UNCHANGED <<day, enabled, happened, mark, acts, left, faults>>

\* What becomes of a nested occurrence, the frame holding the chain's rules from position s on: a firing
\* pushes its own rule, a retry leaves the frame empty.
Known(c, s) == {c[i] : i \in s..(Len(c) - 1)}
Deep_off(c, s) == Len(c) - s > MaxDepth
Deep(c, s) == Len(c) - s >= MaxDepth
Fate(o, s, judge) ==
    LET r == Ending(o) IN
    IF o \in Claimed THEN "again"
    ELSE IF r \in Known(o[2], s) THEN "suppressed_loop"
    ELSE IF Deep(o[2], s) THEN "suppressed_depth"
    ELSE IF r \in Denied THEN "failed" ELSE judge[r]

\* The nested occurrences a firing of root reaches: rules on the event of a verb that answered ok.
\* "undone" is a verb that answered ok and whose firing was rolled back for a bank ledger leg.
Wired == {c \in {Append(b, r) : b \in Chains, r \in Rule} :
             Len(c) <= MaxDepth + 2 /\ \A i \in 1..(Len(c) - 1) : c[i + 1] \in Triggers[c[i]]}
Prefix(o, n) == <<o[1], SubSeq(o[2], 1, n)>>
Reached(root, s, judge) ==
    {o \in {<<root[1], c>> : c \in {w \in Wired : w[1] = root[2][1]}} :
        \A n \in 2..Len(o[2]) :
            /\ o[2][n] \in enabled
            /\ n < Len(o[2]) => Fate(Prefix(o, n), s, judge) \in {"ok", "undone"}}
Kept_always(o, s, verdict, judge) == TRUE
Kept(o, s, verdict, judge) ==
    verdict = "ok" /\ \A n \in 2..(Len(o[2]) - 1) : Fate(Prefix(o, n), s, judge) = "ok"

\* The derived key makes the verb answer a second invocation from its memo; an empty input has none.
Replays_unkeyed(o) == FALSE
Replays(o) == run[o].input = "resolved" /\ Count(acts, o) > 0

\* What the verb may answer: it may always refuse (the author's rights are gone, the book is busy).
MayAnswer(o, verdict) ==
    /\ Replays(o) => verdict # "undone"
    /\ run[o].input = "none" /\ Ending(o) \notin Bare => verdict = "failed"

Settled_undone(fate) == fate
Settled_ok(fate) == IF fate = "undone" THEN "ok" ELSE fate
Settled(fate) == IF fate = "undone" THEN "failed" ELSE fate
Nested_open(fate) == [status |-> IF fate = "ok" THEN "running" ELSE fate,
                      input |-> IF fate \in Quiet THEN "none" ELSE "resolved"]
Nested(fate) == [status |-> Settled(fate),
                 input |-> IF fate \in Quiet THEN "none" ELSE "resolved"]

\* The transaction of an invocation: the verb's act, and the rows and acts of its whole cascade.  What a
\* transport was given stays out, whatever becomes of the transaction.
Effect(root, s, verdict, judge) ==
    LET fresh == IF Replays(root) THEN {} ELSE {root}
        reached == IF verdict = "failed" THEN {} ELSE Reached(root, s, judge)
        kept == {o \in reached : Kept(o, s, verdict, judge)} IN
    [run |-> [o \in Claimed \cup kept |->
                  IF o \in Claimed THEN run[o] ELSE Nested(Fate(o, s, judge))],
     acts |-> IF verdict # "ok" THEN acts
              ELSE Bump(acts, fresh \cup {o \in kept : Fate(o, s, judge) = "ok"}),
     left |-> IF verdict = "failed" THEN left
              ELSE Bump(left, {o \in fresh : Ending(o) \in Sends} \cup
                              {o \in reached : Ending(o) \in Sends /\ Fate(o, s, judge) \in {"ok", "undone"}})]

\* What the verbs of the rules it may start will answer; most start none.
Judges(root) ==
    [IF Triggers[Ending(root)] = {} THEN {} ELSE UNION {Triggers[r] : r \in Rule} ->
        Verdicts \cup {"skipped_condition"}]
Base(p) == IF job[p].kind = "retry" THEN 2 ELSE 1

Invoke(p) ==
    /\ At(p, "invoke")
    /\ \E verdict \in {v \in Verdicts : MayAnswer(Root(p), v)} :
        /\ \E effect \in {Effect(Root(p), Base(p), verdict, judge) : judge \in Judges(Root(p))} :
            run' = effect.run /\ acts' = effect.acts /\ left' = effect.left
        /\ Goes(p, Answered(job[p], Settled(verdict)))
    /\ UNCHANGED <<day, enabled, happened, mark, faults>>

\* The first settlement stands: WHERE status = 'running'.
Settles_again(row) == TRUE
Settles(row) == row.status = "running"

Settle(p) ==
    /\ At(p, "settle")
    /\ run' = IF Settles(run[Root(p)]) THEN [run EXCEPT ![Root(p)].status = job[p].verdict] ELSE run
    /\ Goes(p, Accounted(job[p]))
    /\ UNCHANGED <<day, enabled, happened, mark, acts, left, faults>>

\* The tick moves the rule's bookmark, to the day it worked for, once the occurrence is accounted for.
Bookmark(j) == j.src
Mark(p) ==
    /\ At(p, "mark")
    /\ mark' = [mark EXCEPT ![job[p].rule] = Bookmark(job[p])]
    /\ Goes(p, Rest(job[p]))
    /\ UNCHANGED <<day, enabled, happened, run, acts, left, faults>>

-----------------------------------------------------------------------------
(* The retry of a stuck row, by hand *)

Stuck(o) == o \in Claimed /\ run[o].status = "running"

\* Without a key the retry is the same three commits, on the row that is there.
Retry(p, o) ==
    /\ At(p, "idle") /\ Stuck(o)
    /\ Goes(p, [Idle EXCEPT !.at = IF Ending(o) \in Denied THEN "settle" ELSE "invoke",
                            !.kind = "retry", !.src = o[1], !.rule = Ending(o), !.verdict = "failed"])
    /\ UNCHANGED <<day, enabled, happened, run, mark, acts, left, faults>>

\* Under a key it runs whole inside the transaction of the memo.
RetryWhole(p, o) ==
    /\ At(p, "idle") /\ Stuck(o)
    /\ \E verdict \in {v \in Verdicts : MayAnswer(o, v)} :
        /\ Ending(o) \in Denied => verdict = "failed"
        /\ \E effect \in {Effect(o, 2, verdict, judge) : judge \in Judges(o)} :
            /\ run' = [effect.run EXCEPT ![o].status = Settled(verdict)]
            /\ acts' = effect.acts /\ left' = effect.left
    /\ UNCHANGED <<day, enabled, happened, mark, job, faults>>

-----------------------------------------------------------------------------
(* Faults and the world *)

\* The process dies, or the store refuses a run-log write and the dispatch is abandoned.
Abandon(p) ==
    /\ ~At(p, "idle")
    /\ faults < MaxFaults /\ faults' = faults + 1
    /\ Goes(p, Idle)
    /\ UNCHANGED <<day, enabled, happened, run, mark, acts, left>>

\* The process dies inside an invocation: its transaction is gone, what it sent is not.
DieActing(p) ==
    /\ At(p, "invoke")
    /\ faults < MaxFaults /\ faults' = faults + 1
    /\ MayAnswer(Root(p), "ok")
    /\ left' \in {Effect(Root(p), Base(p), "ok", judge).left : judge \in Judges(Root(p))}
    /\ Goes(p, Idle)
    /\ UNCHANGED <<day, enabled, happened, run, mark, acts>>

\* Off, and on again unless the denylist names its verb.
Switch(r) ==
    /\ r \in Denied => r \in enabled
    /\ enabled' = IF r \in enabled THEN enabled \ {r} ELSE enabled \cup {r}
    /\ UNCHANGED <<day, happened, run, mark, job, acts, left, faults>>

Tomorrow ==
    /\ day < MaxDay
    /\ day' = day + 1
    /\ UNCHANGED <<enabled, happened, run, mark, job, acts, left, faults>>

Works(p) == Dispatch(p) \/ Evaluate(p) \/ Invoke(p) \/ Settle(p) \/ Mark(p)

Next ==
    \/ Tomorrow
    \/ \E r \in Switched : Switch(r)
    \/ \E p \in Proc :
        \/ Works(p) \/ Abandon(p) \/ DieActing(p)
        \/ \E e \in Event : Call(p, e)
        \/ \E asOf \in Day : Tick(p, asOf)
        \/ \E o \in Claimed : Retry(p, o) \/ RetryWhole(p, o)

Spec == Init /\ [][Next]_vars

-----------------------------------------------------------------------------
(* Properties *)

\* Every variable keeps its type.  (the columns of automation_run and automation_rule)
TypeOK ==
    /\ day \in Day /\ faults \in 0..MaxFaults
    /\ enabled \subseteq Rule /\ happened \subseteq Event
    /\ Claimed \subseteq Occurrence /\ run \in [Claimed -> Row]
    /\ mark \in [DOMAIN Every -> Day \cup {0}]
    /\ job \in [Proc -> Jobs]
    /\ DOMAIN acts \subseteq Occurrence /\ acts \in [DOMAIN acts -> 0..MaxCount]
    /\ DOMAIN left \subseteq Occurrence /\ left \in [DOMAIN left -> 0..MaxCount]

\* An occurrence acts once per rule, however often the event is delivered, and however many processes
\* finish the same stuck row.  (automation_run_once, and the derived key)
ActsOnce == \A o \in DOMAIN acts : o \in Claimed /\ (run[o].input = "resolved" => acts[o] <= 1)

\* A run that says ok did commit its act, whoever settled it.  (claim, invoke, settle)
OkActed == \A o \in Claimed : run[o].status = "ok" => Count(acts, o) > 0

\* No row and no act outlives its cause: a nested one is there only with the act it came from, and a
\* first one only with its call.  (one savepoint per firing; the emit after the commit)
CauseStands ==
    \A o \in Claimed : IF Len(o[2]) > 1 THEN Count(acts, Before(o)) > 0
                       ELSE o[1] \in happened \cup Day

\* A dead process leaves one row to finish, the root's: no row inside a cascade is ever unsettled.
NestedSettled == \A o \in Claimed : Len(o[2]) > 1 => run[o].status # "running"

\* Chains end: one rule past the depth bound at most, and only the root may come by a second time, by
\* way of a retry.  (the cascade frame; a retry starts with none)
ChainsEnd ==
    \A o \in DOMAIN acts :
        /\ Len(o[2]) <= MaxDepth + 1
        /\ \A i, j \in 2..Len(o[2]) : o[2][i] = o[2][j] => i = j

\* A row that nobody is working on is unsettled only after a fault: no refusal and no throw of a verb
\* leaves one behind.  (the catch around the invocation)
StuckByFault ==
    \A o \in Claimed : run[o].status = "running" =>
        faults > 0 \/ \E p \in Proc : Root(p) = o /\ job[p].at \in {"invoke", "settle"}

\* A cascade stands and falls with its cause, settles before its root, and ends.
\* (automationInvokerFor's savepoints, the cascade frame)
CascadeHolds == CauseStands /\ NestedSettled /\ ChainsEnd

\* The bookmark of a schedule rule stands on an occurrence that the log has, wherever a tick died; days
\* without a tick are jumped on purpose.  (last_fired_at is written after the firing)
MarkAccounted == \A r \in DOMAIN Every : mark[r] # 0 => <<mark[r], <<r>>>> \in Claimed

\* The run log is history: no row goes away and no terminal status is rewritten.  (settleRun)
SettledStands ==
    [][\A o \in Claimed : /\ o \in DOMAIN run'
                          /\ run[o].status # "running" => run'[o].status = run[o].status]_run

\* Nothing leaves the building twice for one occurrence.
\* ("A RETRY IS SAFE ... there is no case where a retry can double-count")
LeavesOnce == \A o \in DOMAIN left : left[o] <= 1
=============================================================================
