-------------------------- MODULE Recurring_proofs --------------------------
(* Theorems about Recurring, for every number of processes and periods. *)
EXTENDS Recurring, TLAPS

-----------------------------------------------------------------------------
(* The invariant *)

\* What a call holds is still true: its copy of the cursor stands past settled periods only, it works on
\* the period its copy points at, on an invoice that was written, and it settles what it saw.
Holds(c) ==
    /\ \A k \in Period : k < c.row.next => log[k] # "none"
    /\ c.stage \in {"create", "fate", "issue", "post", "note", "settle"} => c.k = c.row.next
    /\ c.stage \in {"look", "create", "fate", "issue", "post", "note", "settle"} => c.today # 0
    /\ c.stage \in {"fate", "issue", "post", "note", "settle", "hand"} => doc[c.k].status # "none"
    /\ c.stage = "status" => c.to \in Statuses
    /\ c.stage = "settle" => /\ c.to \in Outcomes
                             /\ c.to = "issued" => posts[c.k] # 0
                             /\ c.to = "discarded" => doc[c.k].status = "gone"

\* A period's key, invoice, postings and log row agree.
Papers ==
    \A k \in Period :
        /\ asked[k] = 0 <=> doc[k].status = "none"
        /\ posts[k] = 0 <=> doc[k].status \in {"none", "draft", "gone"}
        /\ k \in issued => posts[k] # 0
        /\ log[k] = "issued" => posts[k] # 0
        /\ log[k] = "discarded" => doc[k].status = "gone"
        /\ log[k] = "drafted" => asked[k] # 0

IInv == TypeOK /\ Papers /\ NoneSkipped /\ \A p \in Proc : Holds(call[p])

\* What no step takes back: a settled row, a written invoice, a deleted one, a posting.
Forward ==
    \A k \in Period :
        /\ log[k] # "none" => log'[k] # "none"
        /\ doc[k].status # "none" => doc'[k].status # "none"
        /\ doc[k].status = "gone" => doc'[k].status = "gone"
        /\ posts[k] # 0 => posts'[k] # 0

-----------------------------------------------------------------------------
(* Calls *)

\* What a call holds stays true.
LEMMA HoldsOn ==
    ASSUME Forward, NEW c \in Calls, Holds(c)
    PROVE  Holds(c)'
BY DEF Forward, Holds, Calls

\* Replacing one call by another that holds leaves all of them holding.
LEMMA CallGoes ==
    ASSUME TypeOK, \A q \in Proc : Holds(call[q]), Forward,
           NEW p \in Proc, NEW c \in Calls, Goes(p, c), Holds(c)'
    PROVE  call' \in [Proc -> Calls] /\ \A q \in Proc : Holds(call[q])'
<1>1. call \in [Proc -> Calls]
  BY DEF TypeOK
<1>2. call' \in [Proc -> Calls] /\ call'[p] = c /\ \A q \in Proc \ {p} : call'[q] = call[q]
  BY <1>1 DEF Goes
<1>3. ASSUME NEW q \in Proc PROVE Holds(call[q])'
  <2>1. CASE q = p
    BY <1>2, <2>1 DEF Holds
  <2>2. CASE q # p
    <3> DEFINE d == call[q]
    <3>1. d \in Calls /\ Holds(d) /\ call'[q] = d
      BY <1>1, <1>2, <2>2
    <3>2. \A e \in Calls : Holds(e) => Holds(e)'
      BY HoldsOn
    <3> HIDE DEF d
    <3> QED BY <3>1, <3>2 DEF Holds
  <2> QED BY <2>1, <2>2
<1> QED BY <1>2, <1>3

\* An answered call holds nothing.
LEMMA Answered == Idle \in Calls /\ Holds(Idle)'
<1>1. 1 \in Period /\ 1 \in 1..(Last + 1) /\ 0 \in 0..Last
  BY RecurringAssumptions DEF Period
<1>2. Idle \in Calls
  BY <1>1 DEF Idle, Calls, Stages, NewSchedule, Schedules, Statuses
<1>3. Idle.stage = "idle" /\ Idle.row.next = 1
  BY DEF Idle, NewSchedule
<1> QED BY <1>2, <1>3 DEF Holds, Period

\* The next stage of a call keeps the rest of it.
LEMMA Stage ==
    ASSUME IInv, NEW p \in Proc, NEW s \in Stages
    PROVE  LET c == [call[p] EXCEPT !.stage = s]
           IN  c \in Calls /\ c.stage = s /\ c.k = call[p].k /\ c.row = call[p].row /\ c.today = call[p].today
BY DEF IInv, TypeOK, Calls

\* A call that settles is the same call with an outcome.
LEMMA Outcome ==
    ASSUME IInv, NEW p \in Proc, NEW o \in Outcomes
    PROVE  LET c == [call[p] EXCEPT !.stage = "settle", !.to = o]
           IN  /\ c \in Calls /\ c.stage = "settle" /\ c.to = o
               /\ c.k = call[p].k /\ c.row = call[p].row /\ c.today = call[p].today
BY DEF IInv, TypeOK, Calls, Stages

-----------------------------------------------------------------------------
(* Steps *)

\* The types of everything but the calls.
Typed ==
    /\ day \in 0..Last
    /\ sched \in Schedules
    /\ asked \in [Period -> 0..Last]
    /\ doc \in [Period -> Documents]
    /\ issued \subseteq Period
    /\ log \in [Period -> Outcomes \cup {"none"}]
    /\ noted \in [Period -> Contents \cup {"none"}]
    /\ posts \in [Period -> 0..MaxPosts]
    /\ ticked \subseteq [k : Period, content : Contents]

\* A step of one process that keeps the store true and leaves its call holding keeps the invariant.
LEMMA Effect ==
    ASSUME IInv, Typed', Papers', NoneSkipped', Forward,
           NEW p \in Proc, NEW c \in Calls, Goes(p, c), Holds(c)'
    PROVE  IInv'
<1>1. call' \in [Proc -> Calls] /\ \A q \in Proc : Holds(call[q])'
  BY CallGoes DEF IInv
<1>2. TypeOK'
  BY <1>1 DEF Typed, TypeOK
<1> QED BY <1>1, <1>2 DEF IInv

\* A step that leaves the store alone keeps it true.
LEMMA Unmoved ==
    ASSUME IInv, UNCHANGED store, UNCHANGED history, day' \in 0..Last
    PROVE  Typed' /\ Papers' /\ NoneSkipped' /\ Forward
<1>1. /\ sched' = sched /\ asked' = asked /\ doc' = doc /\ issued' = issued /\ log' = log /\ noted' = noted
      /\ posts' = posts /\ ticked' = ticked
  BY DEF store, history
<1>2. Typed'
  BY <1>1 DEF IInv, TypeOK, Typed
<1> QED BY <1>1, <1>2 DEF IInv, Papers, NoneSkipped, Forward

\* A read moves its own call only.
LEMMA Quiet ==
    ASSUME IInv, UNCHANGED <<day, store, history>>,
           NEW p \in Proc, NEW c \in Calls, Goes(p, c), Holds(c)
    PROVE  IInv'
<1>1. UNCHANGED store /\ UNCHANGED history /\ day' \in 0..Last
  BY DEF IInv, TypeOK
<1>2. Typed' /\ Papers' /\ NoneSkipped' /\ Forward
  BY <1>1, Unmoved
<1>3. Holds(c)'
  BY <1>2, HoldsOn
<1> QED BY <1>2, <1>3, Effect

\* So does an answer, and a death.
LEMMA QuietEnd ==
    ASSUME IInv, UNCHANGED <<day, store, history>>, NEW p \in Proc, Goes(p, Idle)
    PROVE  IInv'
<1>1. UNCHANGED store /\ UNCHANGED history /\ day' \in 0..Last
  BY DEF IInv, TypeOK
<1>2. Typed' /\ Papers' /\ NoneSkipped' /\ Forward
  BY <1>1, Unmoved
<1> QED BY <1>2, Answered, Effect

\* The facts of a call, its period being one.
LEMMA CallFacts ==
    ASSUME IInv, NEW p \in Proc
    PROVE  /\ call[p] \in Calls /\ Holds(call[p])
           /\ call[p].k \in Period /\ call[p].row \in Schedules /\ call[p].today \in 0..Last
BY DEF IInv, TypeOK, Calls

\* A posting leaves an issued invoice, and the papers in order.
LEMMA Posting ==
    ASSUME IInv, NEW k \in Period, Posts(k), doc[k].status # "none",
           asked' = asked, log' = log, issued' = issued \/ issued' = issued \cup {k}
    PROVE  /\ doc' \in [Period -> Documents] /\ posts' \in [Period -> 0..MaxPosts]
           /\ Papers' /\ Forward /\ posts'[k] # 0 /\ doc'[k].status # "none"
<1>1. doc \in [Period -> Documents] /\ posts \in [Period -> 0..2] /\ MaxPosts = 2
  BY DEF IInv, TypeOK, MaxPosts
<1>2. doc' = [doc EXCEPT ![k].status = "issued"]
  BY DEF Posts
<1>3. /\ doc' \in [Period -> Documents] /\ doc'[k].status = "issued"
      /\ \A j \in Period \ {k} : doc'[j] = doc[j]
  BY <1>1, <1>2 DEF Documents
<1>4. posts' \in [Period -> 0..2] /\ posts'[k] # 0 /\ \A j \in Period \ {k} : posts'[j] = posts[j]
  <2>1. CASE posts[k] < 2
    <3>1. posts' = [posts EXCEPT ![k] = posts[k] + 1]
      BY <1>1, <2>1 DEF Posts
    <3> QED BY <1>1, <2>1, <3>1
  <2>2. CASE ~(posts[k] < 2)
    <3>1. posts' = [posts EXCEPT ![k] = posts[k]]
      BY <1>1, <2>2 DEF Posts
    <3> QED BY <1>1, <2>2, <3>1
  <2> QED BY <2>1, <2>2
<1>5. doc[k].status # "gone"
  BY DEF Posts
<1>6. ASSUME NEW j \in Period
      PROVE  /\ asked'[j] = 0 <=> doc'[j].status = "none"
             /\ posts'[j] = 0 <=> doc'[j].status \in {"none", "draft", "gone"}
             /\ j \in issued' => posts'[j] # 0
             /\ log'[j] = "issued" => posts'[j] # 0
             /\ log'[j] = "discarded" => doc'[j].status = "gone"
             /\ log'[j] = "drafted" => asked'[j] # 0
  <2>1. CASE j = k
    BY <1>3, <1>4, <1>5, <2>1 DEF IInv, Papers
  <2>2. CASE j # k
    BY <1>3, <1>4, <2>2 DEF IInv, Papers
  <2> QED BY <2>1, <2>2
<1>7. Papers'
  BY <1>6 DEF Papers
<1>8. Forward
  BY <1>3, <1>4, <1>5 DEF Forward
<1> QED BY <1>1, <1>3, <1>4, <1>7, <1>8

\* A write to the schedule alone, whose cursor is a call's copy of it or stays, keeps the store true.
LEMMA Scheduling ==
    ASSUME IInv, sched' \in Schedules, UNCHANGED <<day, asked, doc, issued, log, noted, history>>,
           \A k \in Period : k < sched'.next => log[k] # "none"
    PROVE  Typed' /\ Papers' /\ NoneSkipped' /\ Forward
<1>1. posts' = posts /\ ticked' = ticked
  BY DEF history
<1> QED BY <1>1 DEF IInv, TypeOK, Typed, Papers, NoneSkipped, Forward

\* The first read of a tick.
LEMMA TickStep == ASSUME IInv, NEW p \in Proc, Tick(p) PROVE IInv'
<1>0. PICK outer \in BOOLEAN : Goes(p, [Idle EXCEPT !.stage = "look", !.row = sched, !.today = day, !.outer = outer])
  BY DEF Tick
<1> DEFINE c == [Idle EXCEPT !.stage = "look", !.row = sched, !.today = day, !.outer = outer]
<1>1. sched \in Schedules /\ day \in 0..Last /\ sched.next <= day /\ sched.next \in 1..(Last + 1)
  BY DEF IInv, TypeOK, Tick, Schedules
<1>2. Idle \in Calls
  BY Answered
<1>3. c \in Calls /\ c.stage = "look" /\ c.row = sched /\ c.today = day
  BY <1>1, <1>2 DEF Calls, Stages
<1>4. Goes(p, c) /\ UNCHANGED <<day, store, history>>
  BY <1>0 DEF Tick
<1> HIDE DEF c
<1>5. Holds(c)
  BY <1>1, <1>3, RecurringAssumptions DEF Holds, IInv, NoneSkipped
<1> QED BY <1>3, <1>4, <1>5, Quiet

\* The next due period.
LEMMA LookStep == ASSUME IInv, NEW p \in Proc, Look(p) PROVE IInv'
<1> DEFINE r == call[p].row
           c == [call[p] EXCEPT !.stage = "create", !.k = r.next, !.fresh = asked[r.next] = 0]
<1>1. call[p] \in Calls /\ Holds(call[p]) /\ r \in Schedules /\ call[p].today \in 0..Last /\ call[p].stage = "look"
  BY CallFacts DEF Look, At
<1>2. UNCHANGED <<day, asked, doc, issued, log, noted, history>>
  BY DEF Look
<1>3. CASE Goes(p, Idle) /\ sched' = sched
  BY <1>2, <1>3, QuietEnd DEF store
<1>4. CASE Goes(p, Idle) /\ sched' = [sched EXCEPT !.status = "ended"]
  <2>1. sched' \in Schedules /\ sched'.next = sched.next
    BY <1>4 DEF IInv, TypeOK, Schedules, Statuses
  <2>2. \A k \in Period : k < sched'.next => log[k] # "none"
    BY <2>1 DEF IInv, NoneSkipped
  <2> QED BY <1>2, <1>4, <2>1, <2>2, Scheduling, Answered, Effect
<1>5. CASE ~Past(r.next, r.done, r.most) /\ Goes(p, c) /\ sched' = sched
  <2>1. r.next \in Period
    <3>1. ~(r.next > Last) /\ r.next \in 1..(Last + 1)
      BY <1>1, <1>5 DEF Past, Schedules
    <3> HIDE DEF r
    <3> QED BY <3>1, RecurringAssumptions DEF Period
  <2>2. c \in Calls /\ c.stage = "create" /\ c.k = r.next /\ c.row = r /\ c.today = call[p].today
    BY <1>1, <2>1 DEF Calls, Stages
  <2> HIDE DEF c
  <2>3. Holds(c)
    BY <1>1, <2>2 DEF Holds
  <2> QED BY <1>2, <1>5, <2>2, <2>3, Quiet DEF store
<1> QED BY <1>3, <1>4, <1>5 DEF Look

\* The draft of a period, the first time or from its memo.
LEMMA CreateStep == ASSUME IInv, NEW p \in Proc, Create(p) PROVE IInv'
<1> DEFINE k == call[p].k
<1>1. /\ call[p] \in Calls /\ Holds(call[p]) /\ call[p].stage = "create" /\ k \in Period
      /\ call[p].today \in 0..Last /\ call[p].today # 0
  BY CallFacts DEF Create, At, Holds
<1>2. /\ UNCHANGED <<day, sched, issued, log, noted, posts, ticked>>
  BY DEF Create
<1>3. CASE Conflict(p)
  <2>1. Goes(p, Idle) /\ asked' = asked /\ doc' = doc
    BY <1>3 DEF Create
  <2>2. Typed' /\ Papers' /\ NoneSkipped' /\ Forward
    BY <1>1, <1>2, <2>1 DEF IInv, TypeOK, Typed, Papers, NoneSkipped, Forward
  <2> QED BY <2>1, <2>2, Answered, Effect
<1>4. CASE ~Conflict(p)
  <2>1. Moves(p, "fate")
    BY <1>4 DEF Create
  <2>2. PICK c \in Calls : /\ c = [call[p] EXCEPT !.stage = "fate"] /\ c.stage = "fate"
                           /\ c.k = k /\ c.row = call[p].row /\ c.today = call[p].today
    BY Stage DEF Stages
  <2>3. Goes(p, c)
    BY <2>1, <2>2 DEF Moves
  <2>4. CASE asked[k] = 0 /\ asked' = [asked EXCEPT ![k] = Arguments(p)]
             /\ doc' = [doc EXCEPT ![k] = [status |-> "draft", content |-> "own"]]
    <3>1. Arguments(p) \in 0..Last /\ Arguments(p) # 0
      BY <1>1, RecurringAssumptions DEF Arguments
    <3>2. [status |-> "draft", content |-> "own"] \in Documents
      BY DEF Documents, Contents
    <3>3. asked \in [Period -> 0..Last] /\ doc \in [Period -> Documents]
      BY DEF IInv, TypeOK
    <3>4. /\ asked' \in [Period -> 0..Last] /\ doc' \in [Period -> Documents]
          /\ asked'[k] # 0 /\ doc'[k].status = "draft"
          /\ \A j \in Period \ {k} : asked'[j] = asked[j] /\ doc'[j] = doc[j]
      BY <1>1, <2>4, <3>1, <3>2, <3>3
    <3>5. doc[k].status = "none" /\ posts[k] = 0
      BY <1>1, <2>4 DEF IInv, Papers
    <3>6. Typed'
      BY <1>2, <2>1, <3>4 DEF IInv, TypeOK, Typed
    <3>7. ASSUME NEW j \in Period
          PROVE  /\ asked'[j] = 0 <=> doc'[j].status = "none"
                 /\ posts[j] = 0 <=> doc'[j].status \in {"none", "draft", "gone"}
                 /\ j \in issued => posts[j] # 0
                 /\ log[j] = "issued" => posts[j] # 0
                 /\ log[j] = "discarded" => doc'[j].status = "gone"
                 /\ log[j] = "drafted" => asked'[j] # 0
      <4>1. CASE j = k
        BY <3>4, <3>5, <4>1 DEF IInv, Papers
      <4>2. CASE j # k
        BY <3>4, <4>2 DEF IInv, Papers
      <4> QED BY <4>1, <4>2
    <3>8. Papers' /\ NoneSkipped'
      BY <1>2, <3>7 DEF Papers, NoneSkipped, IInv
    <3>9. Forward
      BY <1>2, <3>4, <3>5 DEF Forward
    <3>10. Holds(c)'
      BY <1>1, <1>2, <2>2, <3>4 DEF Holds
    <3> QED BY <2>3, <3>6, <3>8, <3>9, <3>10, Effect
  <2>5. CASE asked[k] # 0 /\ asked' = asked /\ doc' = doc
    <3>1. Holds(c)
      BY <1>1, <2>2, <2>5 DEF Holds, IInv, Papers
    <3>2. UNCHANGED <<day, store, history>>
      BY <1>2, <2>1, <2>5 DEF store, history
    <3> QED BY <2>3, <3>1, <3>2, Quiet
  <2> QED BY <1>4, <2>4, <2>5 DEF Create, Creates
<1> QED BY <1>3, <1>4

\* What the document's fate says is so.
LEMMA JudgeStep == ASSUME IInv, NEW p \in Proc, Judge(p) PROVE IInv'
<1> DEFINE k == call[p].k
           o == Fate(doc[k])
<1>1. call[p] \in Calls /\ Holds(call[p]) /\ call[p].stage = "fate" /\ k \in Period
  BY CallFacts DEF Judge, At
<1>2. UNCHANGED <<day, store, history>>
  BY DEF Judge
<1>3. doc[k] \in Documents /\ doc[k].status # "none"
  BY <1>1 DEF IInv, TypeOK, Holds
<1>4. /\ o \in Outcomes
      /\ o = "issued" => posts[k] # 0
      /\ o = "discarded" => doc[k].status = "gone"
  BY <1>1, <1>3 DEF Fate, Outcomes, Documents, IInv, Papers
<1>5. CASE Settles(p, o)
  <2> DEFINE c == [call[p] EXCEPT !.stage = "settle", !.to = o]
  <2>1. c \in Calls /\ c.stage = "settle" /\ c.to = o /\ c.k = k /\ c.row = call[p].row /\ c.today = call[p].today
    BY <1>4, Outcome
  <2>2. Goes(p, c)
    BY <1>5 DEF Settles
  <2> HIDE DEF c, o
  <2>3. Holds(c)
    BY <1>1, <1>3, <1>4, <2>1 DEF Holds
  <2> QED BY <1>2, <2>1, <2>2, <2>3, Quiet
<1>6. CASE Moves(p, "issue")
  <2> DEFINE c == [call[p] EXCEPT !.stage = "issue"]
  <2>1. c \in Calls /\ c.stage = "issue" /\ c.k = k /\ c.row = call[p].row /\ c.today = call[p].today
    BY Stage DEF Stages
  <2>2. Goes(p, c)
    BY <1>6 DEF Moves
  <2> HIDE DEF c
  <2>3. Holds(c)
    BY <1>1, <1>3, <2>1 DEF Holds
  <2> QED BY <1>2, <2>1, <2>2, <2>3, Quiet
<1>7. CASE Goes(p, Idle)
  BY <1>2, <1>7, QuietEnd
<1> QED BY <1>5, <1>6, <1>7 DEF Judge

\* The memo and the guard of the issue.
LEMMA GuardStep == ASSUME IInv, NEW p \in Proc, GuardIssue(p) PROVE IInv'
<1> DEFINE k == call[p].k
<1>1. call[p] \in Calls /\ Holds(call[p]) /\ call[p].stage = "issue" /\ k \in Period
  BY CallFacts DEF GuardIssue, At
<1>2. UNCHANGED <<day, store, history>>
  BY DEF GuardIssue
<1>3. CASE k \in issued
  <2>1. PICK c \in Calls : /\ c = [call[p] EXCEPT !.stage = "settle", !.to = "issued"] /\ c.stage = "settle"
                           /\ c.to = "issued" /\ c.k = k /\ c.row = call[p].row /\ c.today = call[p].today
    BY Outcome DEF Outcomes
  <2>2. Goes(p, c)
    BY <1>3, <2>1 DEF GuardIssue, Settles
  <2>3. Holds(c)
    BY <1>1, <1>3, <2>1 DEF Holds, IInv, Papers, Outcomes
  <2> QED BY <1>2, <2>2, <2>3, Quiet
<1>4. CASE k \notin issued
  <2>1. PICK s \in {"post", "note"} : Moves(p, s)
    BY <1>4 DEF GuardIssue
  <2>2. s \in Stages
    BY DEF Stages
  <2>3. PICK c \in Calls : /\ c = [call[p] EXCEPT !.stage = s] /\ c.stage = s
                           /\ c.k = k /\ c.row = call[p].row /\ c.today = call[p].today
    BY <2>2, Stage
  <2>4. Goes(p, c)
    BY <2>1, <2>3 DEF Moves
  <2>5. Holds(c)
    BY <1>1, <2>3 DEF Holds
  <2> QED BY <1>2, <2>4, <2>5, Quiet
<1> QED BY <1>3, <1>4

\* The issue that lands, or replays.
LEMMA IssueStep == ASSUME IInv, NEW p \in Proc, Issue(p) PROVE IInv'
<1> DEFINE k == call[p].k
<1>1. /\ call[p] \in Calls /\ Holds(call[p]) /\ call[p].stage = "post" /\ k \in Period /\ doc[k].status # "none"
  BY CallFacts DEF Issue, At, Holds
<1>2. UNCHANGED <<day, sched, asked, log, noted>>
  BY DEF Issue
<1>3. PICK c \in Calls : /\ c = [call[p] EXCEPT !.stage = "settle", !.to = "issued"] /\ c.stage = "settle"
                         /\ c.to = "issued" /\ c.k = k /\ c.row = call[p].row /\ c.today = call[p].today
  BY Outcome DEF Outcomes
<1>4. Goes(p, c)
  BY <1>3 DEF Issue, Settles
<1>5. CASE k \in issued
  <2>1. UNCHANGED <<day, store, history>>
    BY <1>2, <1>5 DEF Issue, store, history
  <2>2. Holds(c)
    BY <1>1, <1>3, <1>5 DEF Holds, IInv, Papers, Outcomes
  <2> QED BY <1>4, <2>1, <2>2, Quiet
<1>6. CASE k \notin issued
  <2>1. /\ Posts(k) /\ issued' = issued \cup {k}
        /\ ticked' = ticked \cup {[k |-> k, content |-> doc[k].content]}
    BY <1>6 DEF Issue
  <2>2. /\ doc' \in [Period -> Documents] /\ posts' \in [Period -> 0..MaxPosts]
        /\ Papers' /\ Forward /\ posts'[k] # 0 /\ doc'[k].status # "none"
    BY <1>1, <1>2, <2>1, Posting
  <2>3. [k |-> k, content |-> doc[k].content] \in [k : Period, content : Contents]
    BY <1>1 DEF IInv, TypeOK, Documents
  <2>4. Typed' /\ NoneSkipped'
    BY <1>1, <1>2, <2>1, <2>2, <2>3 DEF IInv, TypeOK, Typed, NoneSkipped
  <2>5. Holds(c)'
    BY <1>1, <1>2, <1>3, <2>2 DEF Holds, Outcomes
  <2> QED BY <1>4, <2>2, <2>4, <2>5, Effect
<1> QED BY <1>5, <1>6

\* The issue that rolls back.
LEMMA RefusedStep == ASSUME IInv, NEW p \in Proc, IssueRefused(p) PROVE IInv'
<1>1. call[p] \in Calls /\ Holds(call[p]) /\ call[p].stage = "post"
  BY CallFacts DEF IssueRefused, At
<1>2. PICK c \in Calls : /\ c = [call[p] EXCEPT !.stage = "note"] /\ c.stage = "note"
                         /\ c.k = call[p].k /\ c.row = call[p].row /\ c.today = call[p].today
  BY Stage DEF Stages
<1>3. Goes(p, c) /\ UNCHANGED <<day, store, history>>
  BY <1>2 DEF IssueRefused, Moves
<1>4. Holds(c)
  BY <1>1, <1>2 DEF Holds
<1> QED BY <1>3, <1>4, Quiet

\* The open row.
LEMMA NoteStep == ASSUME IInv, NEW p \in Proc, Note(p) PROVE IInv'
<1> DEFINE k == call[p].k
<1>1. k \in Period /\ Goes(p, Idle) /\ UNCHANGED <<day, sched, asked, doc, issued, log, history>>
  BY CallFacts DEF Note
<1>2. posts' = posts /\ ticked' = ticked
  BY <1>1 DEF history
<1>3. noted' \in [Period -> Contents \cup {"none"}]
  <2>1. doc[k].content \in Contents /\ noted \in [Period -> Contents \cup {"none"}]
    BY <1>1 DEF IInv, TypeOK, Documents
  <2>2. noted' = noted \/ noted' = [noted EXCEPT ![k] = doc[k].content]
    BY DEF Note
  <2> QED BY <1>1, <2>1, <2>2
<1>4. Typed' /\ Papers' /\ NoneSkipped' /\ Forward
  BY <1>1, <1>2, <1>3 DEF IInv, TypeOK, Typed, Papers, NoneSkipped, Forward
<1> QED BY <1>1, <1>4, Answered, Effect

\* The settled row, and the cursor from the copy.
LEMMA SettleStep == ASSUME IInv, NEW p \in Proc, Settle(p) PROVE IInv'
<1> DEFINE r == call[p].row
           k == call[p].k
<1>1. /\ call[p] \in Calls /\ Holds(call[p]) /\ call[p].stage = "settle" /\ k \in Period
      /\ r \in Schedules /\ k = r.next /\ call[p].today \in 0..Last /\ call[p].today # 0 /\ call[p].to \in Outcomes
  BY CallFacts DEF Settle, At, Holds
<1>2. UNCHANGED <<day, asked, doc, issued, noted, posts, ticked>>
  BY DEF Settle, history
<1>3. k + 1 \in 1..(Last + 1) /\ r.done + 1 \in Nat
  BY <1>1, RecurringAssumptions DEF Period, Schedules
<1>4. PICK moved \in Schedules :
          /\ moved = [r EXCEPT !.next = After(k), !.done = Counted(r),
                               !.status = IF Past(After(k), Counted(r), r.most) THEN "ended" ELSE @]
          /\ moved.next = k + 1
  <2> DEFINE v == IF Past(After(k), Counted(r), r.most) THEN "ended" ELSE r.status
             m == [r EXCEPT !.next = After(k), !.done = Counted(r),
                            !.status = IF Past(After(k), Counted(r), r.most) THEN "ended" ELSE @]
  <2>1. v \in Statuses
    BY <1>1 DEF Schedules, Statuses
  <2>2. m = [r EXCEPT !.next = After(k), !.done = Counted(r), !.status = v]
    BY <1>1 DEF Schedules
  <2> HIDE DEF v
  <2>3. m \in Schedules /\ m.next = k + 1
    BY <1>1, <1>3, <2>1, <2>2 DEF Schedules, After, Counted
  <2> QED BY <2>3
<1>5. /\ log' = IF log[k] = "none" THEN [log EXCEPT ![k] = call[p].to] ELSE log
      /\ sched' = [moved EXCEPT !.most = sched.most]
      /\ Goes(p, IF moved.status = "active"
                 THEN [Idle EXCEPT !.stage = "look", !.row = moved, !.today = call[p].today, !.outer = call[p].outer]
                 ELSE Idle)
  BY <1>4 DEF Settle
<1>6. sched' \in Schedules /\ sched'.next = k + 1
  BY <1>4, <1>5 DEF IInv, TypeOK, Schedules
<1>7. /\ log' \in [Period -> Outcomes \cup {"none"}] /\ log'[k] # "none"
      /\ log'[k] = log[k] \/ log'[k] = call[p].to
      /\ \A j \in Period \ {k} : log'[j] = log[j]
  BY <1>1, <1>5 DEF IInv, TypeOK, Outcomes
<1>8. \A j \in Period : j < k + 1 => log'[j] # "none"
  <2> SUFFICES ASSUME NEW j \in Period, j < k + 1 PROVE log'[j] # "none"
    OBVIOUS
  <2>1. CASE j = k
    BY <1>7, <2>1
  <2>2. CASE j # k
    <3>1. j < r.next
      BY <1>1, <2>2 DEF Period
    <3> QED BY <1>1, <1>7, <2>2, <3>1 DEF Holds
  <2> QED BY <2>1, <2>2
<1>9. Typed' /\ NoneSkipped' /\ Forward
  <2>1. Typed'
    BY <1>2, <1>6, <1>7 DEF IInv, TypeOK, Typed
  <2>2. NoneSkipped'
    BY <1>6, <1>8 DEF NoneSkipped
  <2>3. Forward
    BY <1>2, <1>7 DEF Forward
  <2> QED BY <2>1, <2>2, <2>3
<1>10. Papers'
  <2>1. ASSUME NEW j \in Period
        PROVE  /\ log'[j] = "issued" => posts[j] # 0
               /\ log'[j] = "discarded" => doc[j].status = "gone"
               /\ log'[j] = "drafted" => asked[j] # 0
    <3>1. CASE j = k
      BY <1>1, <1>7, <3>1 DEF Holds, IInv, Papers
    <3>2. CASE j # k
      BY <1>7, <3>2 DEF IInv, Papers
    <3> QED BY <3>1, <3>2
  <2> QED BY <1>2, <2>1 DEF IInv, Papers
<1>11. CASE moved.status = "active"
  <2>1. PICK c \in Calls : /\ c = [Idle EXCEPT !.stage = "look", !.row = moved, !.today = call[p].today,
                                            !.outer = call[p].outer]
                           /\ c.stage = "look" /\ c.row = moved /\ c.today = call[p].today
    <3> DEFINE e == [Idle EXCEPT !.stage = "look", !.row = moved, !.today = call[p].today, !.outer = call[p].outer]
    <3>1. e \in Calls /\ e.stage = "look" /\ e.row = moved /\ e.today = call[p].today
      BY <1>1, Answered DEF Calls, Stages
    <3> QED BY <3>1
  <2>2. Holds(c)'
    BY <1>1, <1>4, <1>8, <2>1 DEF Holds
  <2> QED BY <1>5, <1>9, <1>10, <1>11, <2>1, <2>2, Effect
<1>12. CASE moved.status # "active"
  BY <1>5, <1>9, <1>10, <1>12, Answered, Effect
<1> QED BY <1>11, <1>12

\* People's verbs look first.
LEMMA AskStep ==
    ASSUME IInv, NEW p \in Proc,
           \/ \E k \in Period, to \in {"issued", "cancelled", "edited"} : TakeInHand(p, k, to)
           \/ \E s \in Statuses : AskStatus(p, s)
           \/ \E most \in Period : AskPatch(p, most)
    PROVE  IInv'
<1>1. Idle \in Calls /\ Idle.row.next = 1
  BY Answered DEF Idle, NewSchedule
<1>2. ASSUME NEW k \in Period, NEW to \in {"issued", "cancelled", "edited"}, TakeInHand(p, k, to) PROVE IInv'
  <2>1. PICK c \in Calls : /\ c = [Idle EXCEPT !.stage = "hand", !.k = k, !.to = to]
                           /\ c.stage = "hand" /\ c.k = k /\ c.row = Idle.row
    <3> DEFINE e == [Idle EXCEPT !.stage = "hand", !.k = k, !.to = to]
    <3>1. e \in Calls /\ e.stage = "hand" /\ e.k = k /\ e.row = Idle.row
      BY <1>1 DEF Calls, Stages, Outcomes
    <3> QED BY <3>1
  <2>2. Goes(p, c) /\ UNCHANGED <<day, store, history>> /\ doc[k].status # "none"
    BY <1>2, <2>1 DEF TakeInHand, Legal
  <2>3. Holds(c)
    BY <1>1, <2>1, <2>2 DEF Holds, Period
  <2> QED BY <2>2, <2>3, Quiet
<1>3. ASSUME NEW s \in Statuses, AskStatus(p, s) PROVE IInv'
  <2>1. PICK c \in Calls : /\ c = [Idle EXCEPT !.stage = "status", !.to = s]
                           /\ c.stage = "status" /\ c.to = s /\ c.row = Idle.row
    <3> DEFINE e == [Idle EXCEPT !.stage = "status", !.to = s]
    <3>1. e \in Calls /\ e.stage = "status" /\ e.to = s /\ e.row = Idle.row
      BY <1>1 DEF Calls, Stages
    <3> QED BY <3>1
  <2>2. Goes(p, c) /\ UNCHANGED <<day, store, history>>
    BY <1>3, <2>1 DEF AskStatus
  <2>3. Holds(c)
    BY <1>1, <2>1 DEF Holds, Period
  <2> QED BY <2>2, <2>3, Quiet
<1>4. ASSUME NEW most \in Period, AskPatch(p, most) PROVE IInv'
  <2>1. [sched EXCEPT !.most = most] \in Schedules /\ [sched EXCEPT !.most = most].next = sched.next
    BY DEF IInv, TypeOK, Schedules
  <2>2. PICK c \in Calls : /\ c = [Idle EXCEPT !.stage = "patch", !.row = [sched EXCEPT !.most = most]]
                           /\ c.stage = "patch" /\ c.row.next = sched.next
    <3> DEFINE e == [Idle EXCEPT !.stage = "patch", !.row = [sched EXCEPT !.most = most]]
    <3>1. e \in Calls /\ e.stage = "patch" /\ e.row.next = sched.next
      BY <1>1, <2>1 DEF Calls, Stages
    <3> QED BY <3>1
  <2>3. Goes(p, c) /\ UNCHANGED <<day, store, history>>
    BY <1>4, <2>2 DEF AskPatch
  <2>4. Holds(c)
    BY <2>2 DEF Holds, IInv, NoneSkipped
  <2> QED BY <2>3, <2>4, Quiet
<1> QED BY <1>2, <1>3, <1>4

\* An issue by hand.
LEMMA HandIssueStep == ASSUME IInv, NEW p \in Proc, IssueByHand(p) PROVE IInv'
<1> DEFINE k == call[p].k
<1>1. /\ k \in Period /\ doc[k].status # "none" /\ Goes(p, Idle) /\ Posts(k)
      /\ UNCHANGED <<day, sched, asked, issued, log, noted, ticked>>
  BY CallFacts DEF IssueByHand, At, Holds
<1>2. /\ doc' \in [Period -> Documents] /\ posts' \in [Period -> 0..MaxPosts] /\ Papers' /\ Forward
  BY <1>1, Posting
<1>3. Typed' /\ NoneSkipped'
  BY <1>1, <1>2 DEF IInv, TypeOK, Typed, NoneSkipped
<1> QED BY <1>1, <1>2, <1>3, Answered, Effect

\* A cancellation or an edit by hand changes one document, and neither posts it nor takes a posting back.
LEMMA HandWriteStep ==
    ASSUME IInv, NEW p \in Proc, CancelByHand(p) \/ EditByHand(p)
    PROVE  IInv'
<1> DEFINE k == call[p].k
<1>1. k \in Period /\ Goes(p, Idle) /\ UNCHANGED <<day, sched, asked, issued, log, noted, history>>
  BY CallFacts DEF CancelByHand, EditByHand
<1>2. posts' = posts /\ ticked' = ticked
  BY <1>1 DEF history
<1>3. doc \in [Period -> Documents] /\ doc[k] \in Documents
  BY <1>1 DEF IInv, TypeOK
<1>4. /\ doc' \in [Period -> Documents] /\ \A j \in Period \ {k} : doc'[j] = doc[j]
      /\ \/ doc'[k].status = doc[k].status
         \/ doc[k].status = "draft" /\ doc'[k].status = "gone"
         \/ doc[k].status = "issued" /\ doc'[k].status = "cancelled"
  <2>1. CASE CancelByHand(p)
    <3>1. PICK s \in {"gone", "cancelled"} : /\ doc' = [doc EXCEPT ![k].status = s]
                                              /\ \/ doc[k].status = "draft" /\ s = "gone"
                                                 \/ doc[k].status = "issued" /\ s = "cancelled"
      BY <1>1, <1>3, <2>1 DEF CancelByHand
    <3> QED BY <1>1, <1>3, <3>1 DEF Documents
  <2>2. CASE EditByHand(p)
    <3>1. PICK content \in Contents : doc' = [doc EXCEPT ![k].content = content]
      BY <2>2 DEF EditByHand
    <3> QED BY <1>1, <1>3, <3>1 DEF Documents
  <2> QED BY <2>1, <2>2
<1>5. Typed' /\ NoneSkipped'
  BY <1>1, <1>2, <1>4 DEF IInv, TypeOK, Typed, NoneSkipped
<1>6. ASSUME NEW j \in Period
      PROVE  /\ asked[j] = 0 <=> doc'[j].status = "none"
             /\ posts[j] = 0 <=> doc'[j].status \in {"none", "draft", "gone"}
             /\ log[j] = "discarded" => doc'[j].status = "gone"
             /\ doc[j].status # "none" => doc'[j].status # "none"
             /\ doc[j].status = "gone" => doc'[j].status = "gone"
  <2>1. CASE j = k
    BY <1>4, <2>1 DEF IInv, Papers
  <2>2. CASE j # k
    BY <1>4, <2>2 DEF IInv, Papers
  <2> QED BY <2>1, <2>2
<1>7. Papers'
  BY <1>1, <1>2, <1>6 DEF IInv, Papers
<1>8. Forward
  BY <1>1, <1>2, <1>6 DEF Forward
<1> QED BY <1>1, <1>5, <1>7, <1>8, Answered, Effect

\* Pause, resume, end and patch leave the cursor, or put back an older one.
LEMMA ScheduleWriteStep ==
    ASSUME IInv, NEW p \in Proc, SetStatus(p) \/ Patch(p)
    PROVE  IInv'
<1>1. Goes(p, Idle) /\ UNCHANGED <<day, asked, doc, issued, log, noted, history>>
  BY DEF SetStatus, Patch
<1>2. call[p] \in Calls /\ Holds(call[p]) /\ call[p].row \in Schedules
  BY CallFacts
<1>3. sched' \in Schedules /\ sched'.next \in {sched.next, call[p].row.next}
  <2>1. CASE SetStatus(p)
    <3>1. call[p].to \in Statuses /\ sched' = [sched EXCEPT !.status = call[p].to]
      BY <1>2, <2>1 DEF SetStatus, At, Holds
    <3> QED BY <3>1 DEF IInv, TypeOK, Schedules
  <2>2. CASE Patch(p)
    BY <1>2, <2>2 DEF Patch, IInv, TypeOK, Schedules
  <2> QED BY <2>1, <2>2
<1>4. \A k \in Period : k < sched'.next => log[k] # "none"
  BY <1>2, <1>3 DEF IInv, NoneSkipped, Holds
<1> QED BY <1>1, <1>3, <1>4, Scheduling, Answered, Effect

\* The clock moves, or nothing does.
LEMMA TimeStep == ASSUME IInv, Tomorrow \/ UNCHANGED vars PROVE IInv'
<1>1. UNCHANGED store /\ UNCHANGED history /\ call' = call /\ day' \in 0..Last
  BY RecurringAssumptions DEF Tomorrow, vars, store, history, IInv, TypeOK
<1>2. Typed' /\ Papers' /\ NoneSkipped' /\ Forward
  BY <1>1, Unmoved
<1>3. call \in [Proc -> Calls]
  BY DEF IInv, TypeOK
<1>4. ASSUME NEW q \in Proc PROVE Holds(call[q])'
  <2> DEFINE d == call[q]
  <2>1. PICK e \in Calls : e = d /\ Holds(e)
    BY <1>3 DEF IInv
  <2>2. Holds(e)'
    BY <1>2, <2>1, HoldsOn
  <2>3. call'[q] = e
    BY <1>1, <2>1
  <2> QED BY <2>2, <2>3 DEF Holds
<1> QED BY <1>1, <1>2, <1>3, <1>4 DEF IInv, Typed, TypeOK

-----------------------------------------------------------------------------
(* The theorems *)

LEMMA InvInit == Init => IInv
<1> SUFFICES ASSUME Init PROVE IInv
  OBVIOUS
<1>1. PICK most \in Period : sched = NewSchedule(most)
  BY DEF Init
<1>2. 1 \in 1..(Last + 1) /\ 0 \in 0..Last /\ 0 \in Nat
  BY RecurringAssumptions
<1>3. sched \in Schedules /\ sched.next = 1
  BY <1>1, <1>2 DEF NewSchedule, Schedules, Statuses
<1>4. Idle \in Calls
  BY Answered
<1>5. TypeOK
  <2>1. Unwritten \in Documents
    BY DEF Unwritten, Documents, Contents
  <2> QED BY <1>2, <1>3, <1>4, <2>1 DEF Init, TypeOK, MaxPosts
<1>6. Papers
  BY DEF Init, Papers, Unwritten
<1>7. NoneSkipped
  BY <1>3 DEF NoneSkipped, Period
<1>8. \A p \in Proc : Holds(call[p])
  <2>1. \A p \in Proc : call[p] = Idle
    BY DEF Init
  <2>2. Idle.row.next = 1 /\ Idle.stage = "idle"
    BY DEF Idle, NewSchedule
  <2>3. \A k \in Period : ~(k < 1)
    BY RecurringAssumptions DEF Period
  <2>4. Holds(Idle)
    BY <2>2, <2>3 DEF Holds
  <2>5. ASSUME NEW p \in Proc PROVE Holds(call[p])
    BY <2>1, <2>4
  <2> QED BY <2>5
<1> QED BY <1>5, <1>6, <1>7, <1>8 DEF IInv

LEMMA InvStep == IInv /\ [Next]_vars => IInv'
<1> SUFFICES ASSUME IInv, [Next]_vars PROVE IInv'
  OBVIOUS
<1>1. CASE Tomorrow \/ UNCHANGED vars
  BY <1>1, TimeStep
<1>2. ASSUME NEW p \in Proc,
             \/ Tick(p) \/ Look(p) \/ Create(p) \/ Judge(p) \/ GuardIssue(p) \/ Issue(p) \/ IssueRefused(p)
             \/ Note(p) \/ Settle(p)
      PROVE  IInv'
  BY <1>2, TickStep, LookStep, CreateStep, JudgeStep, GuardStep, IssueStep, RefusedStep, NoteStep, SettleStep
<1>3. ASSUME NEW p \in Proc, Crash(p) PROVE IInv'
  BY <1>3, QuietEnd DEF Crash
<1>4. ASSUME NEW p \in Proc,
             \/ \E k \in Period, to \in {"issued", "cancelled", "edited"} : TakeInHand(p, k, to)
             \/ \E s \in Statuses : AskStatus(p, s)
             \/ \E most \in Period : AskPatch(p, most)
      PROVE  IInv'
  BY <1>4, AskStep
<1>5. ASSUME NEW p \in Proc,
             IssueByHand(p) \/ CancelByHand(p) \/ EditByHand(p) \/ SetStatus(p) \/ Patch(p)
      PROVE  IInv'
  BY <1>5, HandIssueStep, HandWriteStep, ScheduleWriteStep
<1> QED BY <1>1, <1>2, <1>3, <1>4, <1>5 DEF Next

LEMMA Invariant == Spec => []IInv
BY InvInit, InvStep, PTL DEF Spec

\* Every variable keeps its type.  (recurring_schedule, recurring_run_log and the calls in flight)
THEOREM TypeCorrect == Spec => []TypeOK
<1>1. IInv => TypeOK
  BY DEF IInv
<1> QED BY <1>1, Invariant, PTL

\* The cursor never passes an unsettled period, whatever processes tick, patch and die beside each other:
\* a stale copy can only put it back.  (settleAndAdvance, updateRecurringSchedule)
THEOREM CursorSkipsNothing == Spec => []NoneSkipped
<1>1. IInv => NoneSkipped
  BY DEF IInv
<1> QED BY <1>1, Invariant, PTL

\* What the run log says of a period is so, for any number of processes.  (runOccurrence's invariant I2)
LEMMA LogTellsTheTruth == Spec => []LogIsTrue
<1>1. IInv => LogIsTrue
  BY DEF IInv, TypeOK, Papers, LogIsTrue, MaxPosts
<1> QED BY <1>1, Invariant, PTL

\* Every period behind the cursor is accounted for, and truly.  (settleAndAdvance, invariant I2)
THEOREM LogAccountsForPeriods == Spec => []PeriodsAccounted
<1>1. LogIsTrue /\ NoneSkipped => PeriodsAccounted
  BY DEF PeriodsAccounted
<1> QED BY <1>1, CursorSkipsNothing, LogTellsTheTruth, PTL

-----------------------------------------------------------------------------
(* One process *)

\* One process has the book open, and runs one call at a time.
Alone == \A p, q \in Proc : p = q

Working == {"look", "create", "fate", "issue", "post", "note", "settle"}

\* A call's copies are as new as its next write needs: a tick works on the schedule as it is, on a draft
\* that is still its own, and a person on an invoice whose status still admits the write.
Stands(c) ==
    /\ c.stage \in Working => c.row = sched
    /\ c.stage = "patch" => c.row.next = sched.next
    /\ c.stage = "status" => sched.status # "ended"
    /\ c.stage = "create" /\ c.fresh => asked[c.k] = 0
    /\ c.stage = "fate" /\ c.fresh => doc[c.k].content = "own"
    /\ c.stage \in {"issue", "post"} => doc[c.k].status = "draft"
    /\ c.stage \in {"issue", "post", "note"} => doc[c.k].content = "own"
    /\ c.stage = "hand" => Legal(doc[c.k], c.to)

\* Cursor and count agree with the log, and no open row holds the fingerprint of an edited draft.
Even ==
    /\ BilledOnce /\ CountIsLog /\ IssuesItsOwn
    /\ sched.next = sched.done + 1
    /\ \A k \in Period : noted[k] \in {"none", "own"}

AInv == IInv /\ Even /\ \A p \in Proc : Stands(call[p])

\* An answered call stands.
LEMMA IdleStands == Stands(Idle) /\ Stands(Idle)' /\ Idle.stage = "idle"
<1>1. Idle.stage = "idle"
  BY DEF Idle
<1> QED BY <1>1 DEF Stands, Working

\* The only call goes on to one that stands.
LEMMA AloneKeeps ==
    ASSUME Alone, AInv, IInv', Even', NEW p \in Proc, NEW c \in Calls, Goes(p, c), Stands(c)'
    PROVE  AInv'
<1>1. call \in [Proc -> Calls]
  BY DEF AInv, IInv, TypeOK
<1>2. \A q \in Proc : call'[q] = c
  BY <1>1 DEF Goes, Alone
<1>3. \A q \in Proc : Stands(call[q])'
  BY <1>2 DEF Stands
<1> QED BY <1>3 DEF AInv

\* A read changes nothing a call stands on.
LEMMA AloneReads ==
    ASSUME Alone, AInv, IInv', UNCHANGED <<day, store, history>>,
           NEW p \in Proc, NEW c \in Calls, Goes(p, c), Stands(c)
    PROVE  AInv'
<1>1. Even'
  BY DEF AInv, Even, BilledOnce, CountIsLog, IssuesItsOwn, store, history
<1>2. Stands(c)'
  BY DEF Stands, store
<1> QED BY <1>1, <1>2, AloneKeeps

\* So does an answer.
LEMMA AloneEnds ==
    ASSUME Alone, AInv, IInv', UNCHANGED <<day, store, history>>, NEW p \in Proc, Goes(p, Idle)
    PROVE  AInv'
BY AloneReads, IdleStands, Answered

\* The facts of the one call.
LEMMA AloneFacts ==
    ASSUME AInv, NEW p \in Proc
    PROVE  /\ IInv /\ Even /\ call[p] \in Calls /\ Holds(call[p]) /\ Stands(call[p])
           /\ call[p].k \in Period /\ call[p].row \in Schedules
BY CallFacts DEF AInv

\* The tick's reads: the schedule, the due period, the draft's fate, the guard of the issue.
LEMMA AloneTick == ASSUME Alone, AInv, IInv', NEW p \in Proc, Tick(p) PROVE AInv'
<1>0. PICK outer \in BOOLEAN : Goes(p, [Idle EXCEPT !.stage = "look", !.row = sched, !.today = day, !.outer = outer])
  BY DEF Tick
<1>1. PICK c \in Calls : c = [Idle EXCEPT !.stage = "look", !.row = sched, !.today = day, !.outer = outer]
                         /\ c.stage = "look" /\ c.row = sched
  <2> DEFINE e == [Idle EXCEPT !.stage = "look", !.row = sched, !.today = day, !.outer = outer]
  <2>1. e \in Calls /\ e.stage = "look" /\ e.row = sched
    BY Answered DEF AInv, IInv, TypeOK, Calls, Stages
  <2> QED BY <2>1
<1>2. Stands(c)
  BY <1>1 DEF Stands
<1> QED BY <1>0, <1>1, <1>2, AloneReads DEF Tick

\* The due period, or the end of the schedule.
LEMMA AloneLook == ASSUME Alone, AInv, IInv', NEW p \in Proc, Look(p) PROVE AInv'
<1> DEFINE r == call[p].row
<1>1. /\ IInv /\ Even /\ call[p] \in Calls /\ Stands(call[p]) /\ call[p].stage = "look" /\ r = sched
      /\ r \in Schedules
  BY AloneFacts DEF Look, At, Stands, Working
<1>2. UNCHANGED <<day, asked, doc, issued, log, noted, history>>
  BY DEF Look
<1>3. CASE Goes(p, Idle) /\ sched' = sched
  BY <1>2, <1>3, AloneEnds DEF store
<1>4. CASE Goes(p, Idle) /\ sched' = [sched EXCEPT !.status = "ended"]
  <2>1. sched'.next = sched.next /\ sched'.done = sched.done
    BY <1>1, <1>4 DEF Schedules
  <2>2. Even'
    BY <1>1, <1>2, <2>1 DEF Even, BilledOnce, CountIsLog, IssuesItsOwn, history
  <2> QED BY <1>4, <2>2, AloneKeeps, IdleStands, Answered
<1>5. CASE /\ ~Past(r.next, r.done, r.most)
           /\ Goes(p, [call[p] EXCEPT !.stage = "create", !.k = r.next, !.fresh = asked[r.next] = 0])
           /\ sched' = sched
  <2>1. r.next \in Period
    <3>1. ~(r.next > Last) /\ r.next \in 1..(Last + 1)
      BY <1>1, <1>5 DEF Past, Schedules
    <3> HIDE DEF r
    <3> QED BY <3>1, RecurringAssumptions DEF Period
  <2>2. PICK n, f : n = r.next /\ f = (asked[r.next] = 0) /\ f \in BOOLEAN
    OBVIOUS
  <2>3. PICK c \in Calls : /\ c = [call[p] EXCEPT !.stage = "create", !.k = n, !.fresh = f]
                           /\ c.stage = "create" /\ c.k = n /\ c.row = r /\ c.fresh = f
    <3> DEFINE e == [call[p] EXCEPT !.stage = "create", !.k = n, !.fresh = f]
    <3>1. e \in Calls /\ e.stage = "create" /\ e.k = n /\ e.row = r /\ e.fresh = f
      BY <1>1, <2>1, <2>2 DEF Calls, Stages
    <3> QED BY <3>1
  <2>4. Stands(c)
    BY <1>1, <2>2, <2>3 DEF Stands
  <2>5. Goes(p, c)
    BY <1>5, <2>2, <2>3
  <2>6. UNCHANGED <<day, store, history>>
    BY <1>2, <1>5 DEF store
  <2> QED BY <2>4, <2>5, <2>6, AloneReads
<1> QED BY <1>3, <1>4, <1>5 DEF Look

\* The draft: written as its own, or the memo's.
LEMMA AloneCreate == ASSUME Alone, AInv, IInv', NEW p \in Proc, Create(p) PROVE AInv'
<1> DEFINE k == call[p].k
<1>1. /\ IInv /\ Even /\ call[p] \in Calls /\ Stands(call[p]) /\ call[p].stage = "create" /\ k \in Period
      /\ call[p].row = sched
  BY AloneFacts DEF Create, At, Stands, Working
<1>2. UNCHANGED <<day, sched, issued, log, noted, posts, ticked>>
  BY DEF Create
<1>3. Even'
  BY <1>1, <1>2 DEF Even, BilledOnce, CountIsLog, IssuesItsOwn
<1>4. CASE Conflict(p)
  BY <1>3, <1>4, AloneKeeps, IdleStands, Answered DEF Create
<1>5. CASE ~Conflict(p)
  <2>1. PICK c \in Calls : /\ c = [call[p] EXCEPT !.stage = "fate"] /\ c.stage = "fate"
                           /\ c.k = k /\ c.row = sched /\ c.fresh = call[p].fresh
    <3> DEFINE e == [call[p] EXCEPT !.stage = "fate"]
    <3>1. e \in Calls /\ e.stage = "fate" /\ e.k = k /\ e.row = sched /\ e.fresh = call[p].fresh
      BY <1>1 DEF Calls, Stages
    <3> QED BY <3>1
  <2>2. Goes(p, c)
    BY <1>5, <2>1 DEF Create, Moves
  <2>3. call[p].fresh => doc'[k].content = "own"
    <3> SUFFICES ASSUME call[p].fresh PROVE doc'[k].content = "own"
      OBVIOUS
    <3>1. Creates(k)
      BY <1>1 DEF Stands, Creates
    <3>2. doc' = [doc EXCEPT ![k] = [status |-> "draft", content |-> "own"]] /\ doc \in [Period -> Documents]
      BY <1>1, <1>5, <3>1 DEF Create, IInv, TypeOK
    <3> QED BY <1>1, <3>2
  <2>4. Stands(c)'
    BY <1>2, <2>1, <2>3 DEF Stands
  <2> QED BY <1>3, <2>2, <2>4, AloneKeeps
<1> QED BY <1>4, <1>5

\* A period that settles.
LEMMA AloneSettles ==
    ASSUME Alone, AInv, IInv', UNCHANGED <<day, store, history>>, NEW p \in Proc, NEW o \in Outcomes,
           call[p].stage \in Working, Settles(p, o)
    PROVE  AInv'
<1>1. call[p].row = sched /\ IInv
  BY AloneFacts DEF Stands
<1>2. PICK c \in Calls : c = [call[p] EXCEPT !.stage = "settle", !.to = o] /\ c.stage = "settle" /\ c.row = sched
  BY <1>1, Outcome
<1>3. Stands(c) /\ Goes(p, c)
  BY <1>2 DEF Stands, Settles
<1> QED BY <1>3, AloneReads

\* A call that moves on to a stage it stands at.
LEMMA AloneMoves ==
    ASSUME Alone, AInv, IInv', UNCHANGED <<day, store, history>>,
           NEW p \in Proc, NEW s \in Working \ {"create", "fate"}, call[p].stage \in Working, Moves(p, s),
           s \in {"issue", "post"} => doc[call[p].k].status = "draft",
           s \in {"issue", "post", "note"} => doc[call[p].k].content = "own"
    PROVE  AInv'
<1>1. call[p].row = sched /\ IInv
  BY AloneFacts DEF Stands
<1>2. s \in Stages
  BY DEF Working, Stages
<1>3. PICK c \in Calls : c = [call[p] EXCEPT !.stage = s] /\ c.stage = s /\ c.row = sched /\ c.k = call[p].k
  BY <1>1, <1>2, Stage
<1>4. Stands(c) /\ Goes(p, c)
  BY <1>3 DEF Stands, Moves, Working
<1> QED BY <1>4, AloneReads

\* An unattended issue starts from a draft nobody changed.
LEMMA AloneJudge == ASSUME Alone, AInv, IInv', NEW p \in Proc, Judge(p) PROVE AInv'
<1> DEFINE k == call[p].k
<1>1. IInv /\ Even /\ Stands(call[p]) /\ Holds(call[p]) /\ call[p].stage = "fate" /\ k \in Period
  BY AloneFacts DEF Judge, At
<1>2. UNCHANGED <<day, store, history>>
  BY DEF Judge
<1>3. call[p].stage \in Working
  BY <1>1 DEF Working
<1>4. Fate(doc[k]) \in Outcomes
  BY DEF Fate, Outcomes
<1>5. CASE Settles(p, Fate(doc[k]))
  BY <1>2, <1>3, <1>4, <1>5, AloneSettles
<1>6. CASE Own(p) /\ doc[k].status = "draft" /\ Moves(p, "issue")
  <2>1. doc[k].content = "own"
    <3>1. doc[k].content \in Contents /\ noted[k] \in {"none", "own"}
      BY <1>1 DEF IInv, TypeOK, Documents, Even
    <3> QED BY <1>1, <1>6, <3>1 DEF Own, Stands, Contents
  <2>2. "issue" \in Working \ {"create", "fate"}
    BY DEF Working
  <2> QED BY <1>2, <1>3, <1>6, <2>1, <2>2, AloneMoves
<1>7. CASE Goes(p, Idle)
  BY <1>2, <1>7, AloneEnds
<1> QED BY <1>5, <1>6, <1>7 DEF Judge

\* The issue's guard, and its refusal.
LEMMA AloneGuard == ASSUME Alone, AInv, IInv', NEW p \in Proc, GuardIssue(p) \/ IssueRefused(p) PROVE AInv'
<1> DEFINE k == call[p].k
<1>1. /\ UNCHANGED <<day, store, history>> /\ Stands(call[p]) /\ call[p].stage \in {"issue", "post"}
      /\ call[p].stage \in Working
  BY AloneFacts DEF GuardIssue, IssueRefused, At, Working
<1>2. doc[k].status = "draft" /\ doc[k].content = "own"
  BY <1>1 DEF Stands
<1>3. "issued" \in Outcomes /\ "post" \in Working \ {"create", "fate"} /\ "note" \in Working \ {"create", "fate"}
  BY DEF Outcomes, Working
<1>4. Settles(p, "issued") \/ Moves(p, "post") \/ Moves(p, "note")
  BY <1>2 DEF GuardIssue, IssueRefused
<1> QED BY <1>1, <1>2, <1>3, <1>4, AloneSettles, AloneMoves

\* A posting of a draft is its first.
LEMMA FirstPosting ==
    ASSUME IInv, BilledOnce, NEW k \in Period, doc[k].status = "draft", Posts(k)
    PROVE  BilledOnce'
<1>1. posts[k] = 0 /\ posts \in [Period -> 0..MaxPosts]
  BY DEF IInv, TypeOK, Papers
<1>2. posts' = [posts EXCEPT ![k] = IF posts[k] < MaxPosts THEN posts[k] + 1 ELSE posts[k]]
  BY DEF Posts
<1>3. posts'[k] = 1 /\ \A j \in Period \ {k} : posts'[j] = posts[j]
  BY <1>1, <1>2 DEF MaxPosts
<1> QED BY <1>3 DEF BilledOnce

\* The tick's issue posts a draft that reads as the tick wrote it.
LEMMA AloneIssue == ASSUME Alone, AInv, IInv', NEW p \in Proc, Issue(p) PROVE AInv'
<1> DEFINE k == call[p].k
<1>1. /\ IInv /\ Even /\ Stands(call[p]) /\ call[p].stage = "post" /\ k \in Period /\ call[p].row = sched
      /\ doc[k].status = "draft" /\ doc[k].content = "own"
  BY AloneFacts DEF Issue, At, Stands, Working
<1>2. UNCHANGED <<day, sched, asked, log, noted>> /\ Settles(p, "issued")
  BY DEF Issue
<1>3. BilledOnce'
  <2>1. CASE k \in issued
    BY <1>1, <2>1 DEF Issue, Even, BilledOnce
  <2>2. CASE k \notin issued
    BY <1>1, <2>2, FirstPosting DEF Issue, Even
  <2> QED BY <2>1, <2>2
<1>4. IssuesItsOwn'
  <2>1. ticked' = ticked \/ ticked' = ticked \cup {[k |-> k, content |-> doc[k].content]}
    BY DEF Issue
  <2> QED BY <1>1, <2>1 DEF Even, IssuesItsOwn
<1>5. Even'
  BY <1>1, <1>2, <1>3, <1>4 DEF Even, CountIsLog
<1>6. PICK c \in Calls : /\ c = [call[p] EXCEPT !.stage = "settle", !.to = "issued"]
                         /\ c.stage = "settle" /\ c.row = sched
  BY <1>1, Outcome DEF Outcomes
<1>7. Stands(c)' /\ Goes(p, c)
  BY <1>2, <1>6 DEF Stands, Settles
<1> QED BY <1>5, <1>7, AloneKeeps

\* The open row keeps the fingerprint of a draft that is the tick's own.
LEMMA AloneNote == ASSUME Alone, AInv, IInv', NEW p \in Proc, Note(p) PROVE AInv'
<1> DEFINE k == call[p].k
<1>1. IInv /\ Even /\ Stands(call[p]) /\ call[p].stage = "note" /\ k \in Period /\ doc[k].content = "own"
  BY AloneFacts DEF Note, At, Stands
<1>2. noted \in [Period -> Contents \cup {"none"}] /\ (noted' = noted \/ noted' = [noted EXCEPT ![k] = "own"])
  BY <1>1 DEF Note, IInv, TypeOK
<1>3. \A j \in Period : noted'[j] \in {"none", "own"}
  BY <1>1, <1>2 DEF Even
<1>4. Even'
  BY <1>1, <1>3 DEF Note, Even, BilledOnce, CountIsLog, IssuesItsOwn, history
<1> QED BY <1>4, AloneKeeps, IdleStands, Answered DEF Note

\* The settled row and the cursor move together, and from the schedule as it is.
LEMMA AloneSettle == ASSUME Alone, AInv, IInv', NEW p \in Proc, Settle(p) PROVE AInv'
<1> DEFINE k == call[p].k
<1>1. /\ IInv /\ Even /\ Stands(call[p]) /\ Holds(call[p]) /\ call[p].stage = "settle" /\ k \in Period
      /\ call[p] \in Calls /\ call[p].row = sched /\ k = sched.next /\ call[p].to \in Outcomes
  BY AloneFacts DEF Settle, At, Stands, Working, Holds
<1>2. sched \in Schedules /\ sched.done \in Nat /\ k = sched.done + 1 /\ log \in [Period -> Outcomes \cup {"none"}]
  BY <1>1 DEF IInv, TypeOK, Schedules, Even
<1>3. PICK s \in Statuses : s = (IF Past(After(k), Counted(sched), sched.most) THEN "ended" ELSE sched.status)
  BY <1>2 DEF Schedules, Statuses
<1>4. PICK m : m = [sched EXCEPT !.next = k + 1, !.done = sched.done + 1, !.status = s]
  OBVIOUS
<1>5. /\ m = [sched EXCEPT !.next = After(k), !.done = Counted(sched),
                           !.status = IF Past(After(k), Counted(sched), sched.most) THEN "ended" ELSE @]
      /\ m.next = k + 1 /\ m.done = sched.done + 1 /\ m.most = sched.most /\ [m EXCEPT !.most = sched.most] = m
  BY <1>2, <1>3, <1>4 DEF After, Counted, Schedules
<1>6. /\ log' = IF log[k] = "none" THEN [log EXCEPT ![k] = call[p].to] ELSE log
      /\ sched' = m
      /\ Goes(p, IF m.status = "active"
                 THEN [Idle EXCEPT !.stage = "look", !.row = m, !.today = call[p].today, !.outer = call[p].outer]
                 ELSE Idle)
      /\ UNCHANGED <<day, asked, doc, issued, noted, history>>
  BY <1>1, <1>5 DEF Settle
<1>7. log'[k] # "none" /\ \A j \in Period \ {k} : log'[j] = log[j]
  BY <1>1, <1>2, <1>6 DEF Outcomes
<1>8. CountIsLog'
  <2>1. ASSUME NEW j \in Period PROVE log'[j] # "none" <=> j <= sched.done + 1
    <3>1. CASE j = k
      BY <1>2, <1>7, <3>1
    <3>2. CASE j # k
      BY <1>1, <1>2, <1>7, <3>2 DEF Even, CountIsLog, Period
    <3> QED BY <3>1, <3>2
  <2> QED BY <1>5, <1>6, <2>1 DEF CountIsLog
<1>9. Even'
  BY <1>1, <1>2, <1>5, <1>6, <1>8 DEF Even, BilledOnce, IssuesItsOwn, history
<1>10. CASE m.status = "active"
  <2>1. m \in Schedules
    BY <1>6 DEF IInv, TypeOK
  <2>2. PICK c \in Calls : /\ c = [Idle EXCEPT !.stage = "look", !.row = m, !.today = call[p].today,
                                            !.outer = call[p].outer]
                           /\ c.stage = "look" /\ c.row = m
    <3> DEFINE e == [Idle EXCEPT !.stage = "look", !.row = m, !.today = call[p].today, !.outer = call[p].outer]
    <3>1. e \in Calls /\ e.stage = "look" /\ e.row = m
      BY <1>1, <2>1, Answered DEF Calls, Stages
    <3> QED BY <3>1
  <2>3. Stands(c)' /\ Goes(p, c)
    BY <1>6, <1>10, <2>2 DEF Stands
  <2> QED BY <1>9, <2>3, AloneKeeps
<1>11. CASE m.status # "active"
  BY <1>6, <1>9, <1>11, AloneKeeps, IdleStands, Answered
<1> QED BY <1>10, <1>11

\* What people ask for.
LEMMA AloneAsk ==
    ASSUME Alone, AInv, IInv', NEW p \in Proc,
           \/ \E k \in Period, to \in {"issued", "cancelled", "edited"} : TakeInHand(p, k, to)
           \/ \E s \in Statuses : AskStatus(p, s)
           \/ \E most \in Period : AskPatch(p, most)
    PROVE  AInv'
<1>1. IInv /\ Idle \in Calls /\ UNCHANGED <<day, store, history>>
  BY Answered DEF AInv, TakeInHand, AskStatus, AskPatch
<1>2. ASSUME NEW k \in Period, NEW to \in {"issued", "cancelled", "edited"}, TakeInHand(p, k, to) PROVE AInv'
  <2>1. PICK c \in Calls : /\ c = [Idle EXCEPT !.stage = "hand", !.k = k, !.to = to]
                           /\ c.stage = "hand" /\ c.k = k /\ c.to = to
    <3> DEFINE e == [Idle EXCEPT !.stage = "hand", !.k = k, !.to = to]
    <3>1. e \in Calls /\ e.stage = "hand" /\ e.k = k /\ e.to = to
      BY <1>1 DEF Calls, Stages, Outcomes
    <3> QED BY <3>1
  <2>2. Goes(p, c) /\ Legal(doc[k], to)
    BY <1>2, <2>1 DEF TakeInHand
  <2>3. Stands(c)
    BY <2>1, <2>2 DEF Stands, Working
  <2> QED BY <1>1, <2>2, <2>3, AloneReads
<1>3. ASSUME NEW s \in Statuses, AskStatus(p, s) PROVE AInv'
  <2>1. PICK c \in Calls : c = [Idle EXCEPT !.stage = "status", !.to = s] /\ c.stage = "status" /\ c.to = s
    <3> DEFINE e == [Idle EXCEPT !.stage = "status", !.to = s]
    <3>1. e \in Calls /\ e.stage = "status" /\ e.to = s
      BY <1>1 DEF Calls, Stages
    <3> QED BY <3>1
  <2>2. Goes(p, c) /\ sched.status # "ended"
    BY <1>3, <2>1 DEF AskStatus, MaySet
  <2>3. Stands(c)
    BY <2>1, <2>2 DEF Stands, Working
  <2> QED BY <1>1, <2>2, <2>3, AloneReads
<1>4. ASSUME NEW most \in Period, AskPatch(p, most) PROVE AInv'
  <2>1. [sched EXCEPT !.most = most] \in Schedules /\ [sched EXCEPT !.most = most].next = sched.next
    BY <1>1 DEF IInv, TypeOK, Schedules
  <2>2. PICK c \in Calls : /\ c = [Idle EXCEPT !.stage = "patch", !.row = [sched EXCEPT !.most = most]]
                           /\ c.stage = "patch" /\ c.row.next = sched.next
    <3> DEFINE e == [Idle EXCEPT !.stage = "patch", !.row = [sched EXCEPT !.most = most]]
    <3>1. e \in Calls /\ e.stage = "patch" /\ e.row.next = sched.next
      BY <1>1, <2>1 DEF Calls, Stages
    <3> QED BY <3>1
  <2>3. Goes(p, c)
    BY <1>4, <2>2 DEF AskPatch
  <2>4. Stands(c)
    BY <2>2 DEF Stands, Working
  <2> QED BY <1>1, <2>3, <2>4, AloneReads
<1> QED BY <1>2, <1>3, <1>4

\* A person's write on the invoice meets the status it was checked against.
LEMMA AloneHand ==
    ASSUME Alone, AInv, IInv', NEW p \in Proc, IssueByHand(p) \/ CancelByHand(p) \/ EditByHand(p)
    PROVE  AInv'
<1> DEFINE k == call[p].k
<1>1. IInv /\ Even /\ Stands(call[p]) /\ call[p].stage = "hand" /\ k \in Period
  BY AloneFacts DEF IssueByHand, CancelByHand, EditByHand, At
<1>2. UNCHANGED <<day, sched, asked, issued, log, noted, ticked>> /\ Goes(p, Idle)
  BY DEF IssueByHand, CancelByHand, EditByHand, history
<1>3. BilledOnce'
  <2>1. CASE IssueByHand(p)
    <3>1. doc[k].status = "draft" /\ Posts(k)
      BY <1>1, <2>1 DEF IssueByHand, Stands, Legal
    <3> QED BY <1>1, <3>1, FirstPosting DEF Even
  <2>2. CASE CancelByHand(p) \/ EditByHand(p)
    BY <1>1, <2>2 DEF CancelByHand, EditByHand, history, Even, BilledOnce
  <2> QED BY <2>1, <2>2
<1>4. Even'
  BY <1>1, <1>2, <1>3 DEF Even, CountIsLog, IssuesItsOwn
<1> QED BY <1>2, <1>4, AloneKeeps, IdleStands, Answered

\* A status or a bound that a person sets leaves cursor and count.
LEMMA AloneSchedule == ASSUME Alone, AInv, IInv', NEW p \in Proc, SetStatus(p) \/ Patch(p) PROVE AInv'
<1>1. IInv /\ Even /\ Stands(call[p]) /\ sched \in Schedules
  BY AloneFacts DEF IInv, TypeOK
<1>2. Goes(p, Idle) /\ UNCHANGED <<day, asked, doc, issued, log, noted, history>>
  BY DEF SetStatus, Patch
<1>3. sched'.next = sched.next /\ sched'.done = sched.done
  <2>1. CASE SetStatus(p)
    BY <1>1, <2>1 DEF SetStatus, Schedules
  <2>2. CASE Patch(p)
    BY <1>1, <2>2 DEF Patch, Schedules, At, Stands
  <2> QED BY <2>1, <2>2
<1>4. Even'
  BY <1>1, <1>2, <1>3 DEF Even, BilledOnce, CountIsLog, IssuesItsOwn, history
<1> QED BY <1>2, <1>4, AloneKeeps, IdleStands, Answered

LEMMA AloneInit == Init => AInv
<1> SUFFICES ASSUME Init PROVE AInv
  OBVIOUS
<1>1. IInv /\ \A p \in Proc : call[p] = Idle
  BY InvInit DEF Init
<1>2. PICK most \in Period : sched = NewSchedule(most)
  BY DEF Init
<1>3. sched.next = 1 /\ sched.done = 0
  BY <1>2 DEF NewSchedule
<1>4. Even
  BY <1>3, RecurringAssumptions DEF Init, Even, BilledOnce, CountIsLog, IssuesItsOwn, Period
<1> QED BY <1>1, <1>4, IdleStands DEF AInv

LEMMA AloneStep == Alone /\ AInv /\ [Next]_vars => AInv'
<1> SUFFICES ASSUME Alone, AInv, [Next]_vars PROVE AInv'
  OBVIOUS
<1>1. IInv'
  BY InvStep DEF AInv
<1>2. CASE Tomorrow \/ UNCHANGED vars
  <2>1. UNCHANGED <<store, call, history>>
    BY <1>2 DEF Tomorrow, vars
  <2>2. Even'
    BY <2>1 DEF AInv, Even, BilledOnce, CountIsLog, IssuesItsOwn, store, history
  <2>3. \A p \in Proc : Stands(call[p])'
    BY <2>1 DEF AInv, Stands, store
  <2> QED BY <1>1, <2>2, <2>3 DEF AInv
<1>3. ASSUME NEW p \in Proc,
             Tick(p) \/ Look(p) \/ Create(p) \/ Judge(p) \/ GuardIssue(p) \/ IssueRefused(p) \/ Issue(p)
      PROVE  AInv'
  BY <1>1, <1>3, AloneTick, AloneLook, AloneCreate, AloneJudge, AloneGuard, AloneIssue
<1>4. ASSUME NEW p \in Proc, Note(p) \/ Settle(p) PROVE AInv'
  BY <1>1, <1>4, AloneNote, AloneSettle
<1>5. ASSUME NEW p \in Proc, Crash(p) PROVE AInv'
  BY <1>1, <1>5, AloneEnds DEF Crash
<1>6. ASSUME NEW p \in Proc,
             \/ \E k \in Period, to \in {"issued", "cancelled", "edited"} : TakeInHand(p, k, to)
             \/ \E s \in Statuses : AskStatus(p, s)
             \/ \E most \in Period : AskPatch(p, most)
      PROVE  AInv'
  BY <1>1, <1>6, AloneAsk
<1>7. ASSUME NEW p \in Proc,
             IssueByHand(p) \/ CancelByHand(p) \/ EditByHand(p) \/ SetStatus(p) \/ Patch(p)
      PROVE  AInv'
  BY <1>1, <1>7, AloneHand, AloneSchedule
<1> QED BY <1>2, <1>3, <1>4, <1>5, <1>6, <1>7 DEF Next

LEMMA AloneInvariant == ASSUME Alone PROVE Spec => []AInv
<1>1. AInv /\ [Next]_vars => AInv'
  BY AloneStep
<1> QED BY <1>1, AloneInit, PTL DEF Spec

\* With one process a period is billed once and counted once, wherever a tick died and whatever people did
\* to its invoice, and a tick issues a draft only as it wrote it.  (the derived keys, the document's fate,
\* the fingerprint of D141)
THEOREM BilledOnceAsWritten == ASSUME Alone PROVE Spec => []BillsOwnOnce
<1>1. AInv => BillsOwnOnce
  BY DEF AInv, Even, BillsOwnOnce
<1> QED BY <1>1, AloneInvariant, PTL

=============================================================================
