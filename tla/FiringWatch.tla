----------------------------- MODULE FiringWatch -----------------------------
(***************************************************************************)
(* What the run log and the schedules of Automation may be trusted for.    *)
(*                                                                         *)
(* A rule that is skipped is claimed and settled in two commits, and a     *)
(* schedule's bookmark follows its firing in a commit of its own.  Two     *)
(* histories on top of Automation say which occurrences met a retry or     *)
(* another tick in such a gap.                                             *)
(***************************************************************************)
EXTENDS Automation

VARIABLES
    hurried,    \* the skipped occurrences retried before their claimer settled them (history)
    astray      \* the scheduled ones whose tick died before the bookmark, or met another tick (history)

watched == <<vars, hurried, astray>>

\* About to be settled as skipped by the process that claimed it.
Skipping(o) == \E p \in Proc : At(p, "settle") /\ job[p].verdict = "skipped_condition" /\ Root(p) = o
\* A retry of it begins, or runs whole.
Retried(o) ==
    \/ \E p \in Proc : At(p, "idle") /\ job'[p].kind = "retry" /\ Root(p)' = o
    \/ job' = job /\ run'[o].status # run[o].status

\* The tick fired the rule and has not written its bookmark; it has the rule in hand from the moment it
\* read it.
Fired(j, r) == j.kind = "tick" /\ j.at \in {"invoke", "settle", "mark"} /\ j.rule = r
Holds(j, r) == j.kind = "tick" /\ (Fired(j, r) \/ r \in j.todo)

Firings(j) == {<<j.src, <<r>>>> : r \in {s \in DOMAIN Every : Fired(j, s)}}
Dropped(p) == IF faults' # faults /\ job'[p] # job[p] THEN Firings(job[p]) ELSE {}
Shared(p) == {o \in Firings(job'[p]) : \E q \in Proc \ {p} : Holds(job'[q], Ending(o))}

WInit == Init /\ hurried = {} /\ astray = {}

WNext ==
    /\ Next
    /\ hurried' = hurried \cup {o \in Claimed : Skipping(o) /\ Retried(o)}
    /\ astray' = astray \cup UNION {Dropped(p) \cup Shared(p) : p \in Proc}

Watched == WInit /\ [][WNext]_watched

-----------------------------------------------------------------------------
(* Properties *)

\* What the log calls skipped or suppressed never acted, unless a retry met the row between its claim and
\* its settlement, and the verb accepts the empty input it was claimed with.  (recordWithoutFiring)
QuietDidNothing ==
    \A o \in Claimed : run[o].status \in Quiet => Count(acts, o) = 0 \/ (o \in hurried /\ Ending(o) \in Bare)

\* The run log tells the truth: ok acted, quiet did not, and running means somebody works or somebody died.
\* (claimRun, evaluateAndFire, settleRun)
RunLogTrue == TypeOK /\ OkActed /\ QuietDidNothing /\ StuckByFault

\* Two firings of a schedule are a cadence apart, in whatever order the ticks named their days, unless the
\* tick of one of them died before its bookmark was written or met another tick there.  (scheduleSource)
CadenceKept ==
    \A r \in DOMAIN Every : \A a, b \in {d \in Day : <<d, <<r>>>> \in Claimed \ astray} :
        a < b => b - a >= Every[r]

\* A schedule reminds once a cadence, and its bookmark stands on a firing that the log has.
\* (runDueAutomations)
SchedulesKept == MarkAccounted /\ CadenceKept
=============================================================================
