--------------------------- MODULE Approval_proofs --------------------------
(* Theorems about Approval, for every number of processes, rows, versions and steps. *)
EXTENDS Approval, TLAPS

-----------------------------------------------------------------------------
(* Types *)

\* A process that runs a call has a row to run it for, and any stage it moves to is one.
LEMMA Moved ==
    ASSUME TypeOK, NEW p \in Proc, call[p].stage # "idle"
    PROVE  /\ call[p].r \in Row
           /\ Idle \in CallStates /\ Idle.stage = "idle"
           /\ \A s \in Stages : /\ [call[p] EXCEPT !.stage = s] \in CallStates
                                /\ [call[p] EXCEPT !.stage = s].r = call[p].r
BY DEF TypeOK, CallStates, Idle, Stages

\* Replacing the state of one process by another state of its row keeps the calls' types.
LEMMA CallTypes ==
    ASSUME TypeOK, NEW p \in Proc, NEW c \in CallStates, c.stage # "idle" => c.r \in Row, Goes(p, c)
    PROVE  /\ call' \in [Proc -> CallStates]
           /\ \A q \in Proc : call'[q].stage # "idle" => call'[q].r \in Row
BY DEF TypeOK, Goes

\* So does a move to another stage, an answer and a lost race.
LEMMA MoveTypes ==
    ASSUME TypeOK, NEW p \in Proc, call[p].stage # "idle",
           \/ \E s \in Stages : Moves(p, s)
           \/ Goes(p, Idle)
           \/ LosesRace(p)
    PROVE  /\ call' \in [Proc -> CallStates]
           /\ \A q \in Proc : call'[q].stage # "idle" => call'[q].r \in Row
<1>1. call[p].r \in Row /\ call[p].allow \in BOOLEAN
  BY Moved DEF TypeOK, CallStates
<1>2. [Idle EXCEPT !.stage = "load", !.approves = TRUE, !.r = call[p].r,
                   !.allow = call[p].allow, !.retried = TRUE] \in CallStates
  BY <1>1 DEF Idle, CallStates, Stages
<1>3. CASE \E s \in Stages : Moves(p, s)
  BY <1>1, <1>3, Moved, CallTypes DEF Moves
<1>4. CASE Goes(p, Idle)
  BY <1>4, Moved, CallTypes
<1>5. CASE LosesRace(p)
  <2>1. CASE call[p].retried
    BY <1>4, <1>5, <2>1 DEF LosesRace
  <2>2. CASE ~call[p].retried
    <3> DEFINE c == [Idle EXCEPT !.stage = "load", !.approves = TRUE, !.r = call[p].r,
                                 !.allow = call[p].allow, !.retried = TRUE]
    <3>1. c.r \in Row /\ c \in CallStates
      BY <1>1, <1>2 DEF Idle
    <3>2. Goes(p, c)
      BY <1>5, <2>2 DEF LosesRace
    <3> HIDE DEF c
    <3> QED BY <3>1, <3>2, CallTypes
  <2> QED BY <2>1, <2>2
<1> QED BY <1>3, <1>4, <1>5

\* A row resolved or stamped is a row.
LEMMA RowTypes ==
    ASSUME TypeOK, NEW r \in Row
    PROVE  /\ \A s \in Decided : Resolved(r, s) \in Rows
           /\ \A b \in BOOLEAN, v \in Version : Stamped(r, b, v) \in Rows
           /\ Queued \in Rows
<1>1. row[r] \in Rows /\ rec \in Version
  BY DEF TypeOK
<1>2. ASSUME NEW s \in Decided PROVE Resolved(r, s) \in Rows
  BY <1>1 DEF Rows, Resolved, Decided
<1>3. ASSUME NEW b \in BOOLEAN, NEW v \in Version PROVE Stamped(r, b, v) \in Rows
  <2>1. row[r].committed \in BOOLEAN
    BY <1>1 DEF Rows
  <2>2. (row[r].committed \/ b) \in BOOLEAN
    BY <2>1
  <2>3. ASSUME NEW c \in BOOLEAN
        PROVE  [row[r] EXCEPT !.committed = c, !.leaves = v] \in Rows
    BY <1>1 DEF Rows
  <2>4. Stamped(r, b, v) = [row[r] EXCEPT !.committed = row[r].committed \/ b, !.leaves = v]
    BY Zenon DEF Stamped
  <2> QED BY <2>2, <2>3, <2>4, Zenon
<1>4. Queued \in Rows
  BY <1>1 DEF Rows, Queued
<1> QED BY <1>2, <1>3, <1>4

\* What a transaction of the act leaves has the types of a record and of rows.
LEMMA StampTypes ==
    ASSUME TypeOK, NEW r \in Row, NEW b \in BOOLEAN, NEW v \in Version, Stamps(r, b, v)
    PROVE  rec' \in Version /\ row' \in [Row -> Rows]
BY RowTypes DEF Stamps, TypeOK

\* Telling a decided outcome keeps told's type.
LEMMA ToldTypes ==
    ASSUME TypeOK, NEW p \in Proc, call[p].r \in Row, NEW o \in Decided, Tells(p, o)
    PROVE  told' \subseteq [r : Row, outcome : Decided]
BY DEF TypeOK, Tells

\* A call is about a row that was proposed: no step leaves one for a row that never was.
Called == \A p \in Proc : call[p].stage # "idle" => row[call[p].r].status # "none"

LEMMA TypeInit == Init => TypeOK /\ Called
<1> SUFFICES ASSUME Init PROVE TypeOK /\ Called
  OBVIOUS
<1>1. Unqueued \in Rows
  BY DEF Unqueued, Rows
<1>2. Idle \in CallStates /\ Idle.stage = "idle"
  BY DEF CallStates, Idle, Stages
<1>3. row \in [Row -> Rows] /\ call \in [Proc -> CallStates]
  BY <1>1, <1>2 DEF Init
<1>4. \A p \in Proc : call[p].stage = "idle"
  BY <1>2 DEF Init
<1>5. ran \in [Row -> SUBSET (1..Steps)] /\ done \in 0..Steps
  BY ApprovalAssumptions DEF Init
<1> QED BY <1>3, <1>4, <1>5 DEF Init, TypeOK, Called

\* Every step keeps the types.
LEMMA TypeStep == TypeOK /\ Called /\ [Next]_vars => TypeOK'
<1> SUFFICES ASSUME TypeOK, Called, [Next]_vars PROVE TypeOK'
  OBVIOUS
<1> USE ApprovalAssumptions
<1>0. \A p \in Proc : call[p].stage # "idle" => call[p].r \in Row
  BY DEF TypeOK
<1>1. CASE UNCHANGED vars
  BY <1>1 DEF vars, book, TypeOK
<1>2. ASSUME NEW p \in Proc, Enqueue(p) PROVE TypeOK'
  <2>1. row' \in [Row -> Rows]
    BY <1>2, RowTypes DEF Enqueue, Voided, TypeOK, Decided
  <2> QED BY <1>2, <2>1 DEF Enqueue, TypeOK
<1>3. ASSUME NEW p \in Proc, Touch(p) PROVE TypeOK'
  BY <1>3 DEF Touch, TypeOK
<1>4. ASSUME NEW p \in Proc, Crash(p) PROVE TypeOK'
  <2>1. left' \subseteq Row
    BY <1>0, <1>4 DEF Crash, TypeOK
  <2> QED BY <1>4, <2>1, MoveTypes DEF Crash, TypeOK, book
<1>5. ASSUME NEW p \in Proc, NEW r \in Row, Reject(p, r) PROVE TypeOK'
  <2> DEFINE c == [Idle EXCEPT !.stage = "load", !.r = r]
  <2>1. c \in CallStates /\ c.r \in Row
    BY DEF Idle, CallStates, Stages
  <2>2. Goes(p, c)
    BY <1>5 DEF Reject
  <2> HIDE DEF c
  <2> QED BY <1>5, <2>1, <2>2, CallTypes DEF Reject, TypeOK, book
<1>6. ASSUME NEW p \in Proc, NEW r \in Row, NEW allow \in BOOLEAN, Approve(p, r, allow) PROVE TypeOK'
  <2> DEFINE c == [Idle EXCEPT !.stage = "load", !.approves = TRUE, !.r = r, !.allow = allow]
  <2>1. c \in CallStates /\ c.r \in Row
    BY DEF Idle, CallStates, Stages
  <2>2. Goes(p, c)
    BY <1>6 DEF Approve
  <2> HIDE DEF c
  <2> QED BY <1>6, <2>1, <2>2, CallTypes DEF Approve, TypeOK, book
<1>7. ASSUME NEW p \in Proc, Load(p) PROVE TypeOK'
  <2> DEFINE r == call[p].r
             j == [call[p] EXCEPT !.stage = "judge", !.committed = row[r].committed, !.leaves = row[r].leaves]
  <2>1. r \in Row /\ row[r] \in Rows
    BY <1>0, <1>7 DEF Load, TypeOK
  <2>2. j \in CallStates /\ j.r \in Row
    <3>1. call[p] \in CallStates
      BY DEF TypeOK
    <3>2. row[r].committed \in BOOLEAN /\ row[r].leaves \in Version \cup {None}
      BY <2>1 DEF Rows
    <3>3. ASSUME NEW b \in BOOLEAN, NEW v \in Version \cup {None}
          PROVE  LET k == [call[p] EXCEPT !.stage = "judge", !.committed = b, !.leaves = v]
                 IN  k \in CallStates /\ k.r = call[p].r
      BY <3>1 DEF CallStates, Stages
    <3> QED BY <2>1, <3>2, <3>3
  <2>3. \/ Tells(p, row[r].status) /\ row[r].status # "pending"
        \/ told' = told /\ (Goes(p, j) \/ Moves(p, "reject") \/ Goes(p, Idle))
    BY <1>7, Zenon DEF Load
  <2>4. CASE Tells(p, row[r].status) /\ row[r].status # "pending"
    <3>1. row[r].status \in Decided
      BY <1>7, <2>1, <2>4 DEF Load, Rows, Decided, Called
    <3>2. told' \subseteq [r : Row, outcome : Decided]
      BY <2>1, <2>4, <3>1, ToldTypes
    <3> QED BY <1>7, <2>4, <3>2, MoveTypes DEF Load, Tells, TypeOK, book
  <2>5. CASE told' = told /\ Goes(p, j)
    <3> HIDE DEF j
    <3> QED BY <1>7, <2>2, <2>5, CallTypes DEF Load, TypeOK, book
  <2>6. CASE told' = told /\ (Moves(p, "reject") \/ Goes(p, Idle))
    BY <1>7, <2>6, MoveTypes DEF Load, TypeOK, book, Stages
  <2> QED BY <2>3, <2>4, <2>5, <2>6
<1>8. ASSUME NEW p \in Proc, Judge(p) PROVE TypeOK'
  BY <1>8, MoveTypes DEF Judge, TypeOK, book, Stages
<1>9. ASSUME NEW p \in Proc, MarkStale(p) PROVE TypeOK'
  <2>1. call[p].r \in Row
    BY <1>0, <1>9 DEF MarkStale
  <2>2. row' \in [Row -> Rows] /\ told' \subseteq [r : Row, outcome : Decided]
    BY <1>9, <2>1, RowTypes DEF MarkStale, Tells, TypeOK, Decided
  <2> QED BY <1>9, <2>2, MoveTypes DEF MarkStale, Tells, TypeOK
<1>10. ASSUME NEW p \in Proc, MarkRejected(p) PROVE TypeOK'
  <2>1. call[p].r \in Row
    BY <1>0, <1>10 DEF MarkRejected
  <2>2. row' \in [Row -> Rows] /\ told' \subseteq [r : Row, outcome : Decided]
    BY <1>10, <2>1, RowTypes DEF MarkRejected, Tells, TypeOK, Decided
  <2> QED BY <1>10, <2>2, MoveTypes DEF MarkRejected, Tells, TypeOK, Stages
<1>11. ASSUME NEW p \in Proc, RunStep(p) PROVE TypeOK'
  <2>1. call[p].r \in Row /\ done < Steps /\ call[p].stage # "idle"
    BY <1>0, <1>11 DEF RunStep, MayRun
  <2>2. done' \in 0..Steps /\ done + 1 \in 1..Steps
    BY <1>11, <2>1 DEF RunStep, TypeOK
  <2>3. rec' \in Version /\ row' \in [Row -> Rows]
    BY <1>11, <2>1, StampTypes DEF RunStep
  <2>4. ran' \in [Row -> SUBSET (1..Steps)] /\ left' \subseteq Row
    BY <1>11, <2>1, <2>2 DEF RunStep, TypeOK
  <2> QED BY <1>11, <2>1, <2>2, <2>3, <2>4, MoveTypes DEF RunStep, TypeOK, Stages
<1>12. ASSUME NEW p \in Proc, WriteIntent(p) PROVE TypeOK'
  <2>1. call[p].r \in Row /\ call[p].stage # "idle"
    BY <1>0, <1>12 DEF WriteIntent, MayRun
  <2>2. rec' \in Version /\ row' \in [Row -> Rows]
    BY <1>12, <2>1, StampTypes DEF WriteIntent
  <2> QED BY <1>12, <2>1, <2>2, MoveTypes DEF WriteIntent, TypeOK, Stages
<1>13. ASSUME NEW p \in Proc, TransportRefuses(p) PROVE TypeOK'
  <2>1. call[p].r \in Row
    BY <1>0, <1>13 DEF TransportRefuses
  <2>2. rec' \in Version /\ row' \in [Row -> Rows]
    BY <1>13, <2>1, StampTypes DEF TransportRefuses
  <2> QED BY <1>13, <2>2, MoveTypes DEF TransportRefuses, TypeOK, Stages
<1>14. ASSUME NEW p \in Proc, TransportThrows(p) PROVE TypeOK'
  <2>1. call[p].r \in Row /\ left' \subseteq Row
    BY <1>0, <1>14 DEF TransportThrows, TypeOK
  <2>2. rec' \in Version /\ row' \in [Row -> Rows]
    BY <1>14, <2>1, StampTypes DEF TransportThrows, TypeOK
  <2> QED BY <1>14, <2>1, <2>2, MoveTypes DEF TransportThrows, TypeOK, Stages
<1>15. ASSUME NEW p \in Proc, MarkThrows(p) PROVE TypeOK'
  <2>1. call[p].r \in Row /\ left' \subseteq Row /\ call[p].stage # "idle"
    BY <1>0, <1>15 DEF MarkThrows, MayRun, TypeOK
  <2> QED BY <1>15, <2>1, MoveTypes DEF MarkThrows, TypeOK, Stages, book
<1>16. ASSUME NEW p \in Proc, Refuses(p) PROVE TypeOK'
  <2>1. call[p].r \in Row /\ call[p].stage # "idle"
    BY <1>0, <1>16 DEF Refuses, MayRun
  <2>2. rec' \in Version /\ row' \in [Row -> Rows]
    BY <1>16, <2>1, StampTypes DEF Refuses, TypeOK
  <2> QED BY <1>16, <2>1, <2>2, MoveTypes DEF Refuses, TypeOK, Stages
<1>17. ASSUME NEW p \in Proc, Completes(p) PROVE TypeOK'
  BY <1>17, MoveTypes DEF Completes, TypeOK, Stages, book
<1>18. ASSUME NEW p \in Proc, OutcomeUnknown(p) PROVE TypeOK'
  <2> DEFINE c == [call[p] EXCEPT !.stage = IF call[p].committed THEN "flip" ELSE "refused", !.unknown = TRUE]
  <2>0. call[p] \in CallStates /\ call[p].r \in Row
    BY <1>0, <1>18 DEF OutcomeUnknown, TypeOK
  <2>1. c \in CallStates /\ c.r \in Row
    BY <2>0 DEF CallStates, Stages
  <2>2. Goes(p, c)
    BY <1>18 DEF OutcomeUnknown
  <2> HIDE DEF c
  <2> QED BY <1>18, <2>1, <2>2, CallTypes DEF OutcomeUnknown, TypeOK, book
<1>19. ASSUME NEW p \in Proc, AnswerRefusal(p) PROVE TypeOK'
  BY <1>19, MoveTypes DEF AnswerRefusal, TypeOK, book
<1>20. ASSUME NEW p \in Proc, Flip(p) PROVE TypeOK'
  <2>1. call[p].r \in Row
    BY <1>0, <1>20 DEF Flip
  <2>2. row' \in [Row -> Rows] /\ told' \subseteq [r : Row, outcome : Decided]
    BY <1>20, <2>1, RowTypes DEF Flip, Tells, TypeOK, Decided
  <2> QED BY <1>20, <2>2, MoveTypes DEF Flip, Tells, TypeOK, Stages
<1>21. ASSUME NEW p \in Proc, Grant(p) PROVE TypeOK'
  <2>1. call[p].r \in Row
    BY <1>0, <1>21 DEF Grant
  <2>2. auto' \subseteq Row /\ told' \subseteq [r : Row, outcome : Decided]
    BY <1>21, <2>1, ToldTypes DEF Grant, TypeOK, Decided
  <2> QED BY <1>21, <2>2, MoveTypes DEF Grant, Tells, TypeOK
<1> QED BY <1>1, <1>2, <1>3, <1>4, <1>5, <1>6, <1>7, <1>8, <1>9, <1>10, <1>11, <1>12, <1>13, <1>14,
           <1>15, <1>16, <1>17, <1>18, <1>19, <1>20, <1>21 DEF Next, Work
-----------------------------------------------------------------------------
(* What a step does to the rows and to what they ran *)

Keeps == row' = row /\ ran' = ran

\* A proposal mints one row, and voids every pending one.
Mints ==
    /\ ran' = ran
    /\ \A r \in Live : row[r].status = "pending"
    /\ \E new \in Row :
         /\ row[new].status = "none"
         /\ row' = [r \in Row |-> CASE r = new -> Queued
                                    [] r \in Live -> Resolved(r, "stale")
                                    [] OTHER -> row[r]]

\* A pending row is decided; as rejected only if nothing of it was committed.
Decides(r, outcome) ==
    /\ row[r].status = "pending"
    /\ outcome = "rejected" => ~row[r].committed
    /\ row' = [row EXCEPT ![r] = Resolved(r, outcome)]
    /\ ran' = ran

\* A transaction of the act stamps its row, and whatever runs is marked committed.
Marks(r, committed, v) ==
    /\ Stampable(r)
    /\ row' = [row EXCEPT ![r] = Stamped(r, committed, v)]
    /\ \/ ran' = ran
       \/ committed = TRUE /\ \E n \in 1..Steps : ran' = [ran EXCEPT ![r] = @ \cup {n}]

Effect ==
    \/ Keeps
    \/ Mints
    \/ \E r \in Row, outcome \in Decided : Decides(r, outcome)
    \/ \E r \in Row, committed \in BOOLEAN, v \in Version : Marks(r, committed, v)

\* Every step is one of these.
LEMMA StepEffect == TypeOK /\ [Next]_vars => Effect
<1> SUFFICES ASSUME TypeOK, [Next]_vars PROVE Effect
  OBVIOUS
<1> USE ApprovalAssumptions
<1>0. \A p \in Proc : call[p].stage # "idle" => call[p].r \in Row
  BY DEF TypeOK
<1>1. CASE UNCHANGED vars
  BY <1>1 DEF vars, book, Effect, Keeps
<1>2. ASSUME NEW p \in Proc, Enqueue(p) PROVE Effect
  <2>1. Mints
    BY <1>2 DEF Enqueue, Mints, Voided, Void, Fresh
  <2> QED BY <2>1 DEF Effect
<1>3. ASSUME NEW p \in Proc,
             \/ Touch(p) \/ Crash(p) \/ Load(p) \/ Judge(p) \/ MarkThrows(p) \/ Completes(p)
             \/ OutcomeUnknown(p) \/ AnswerRefusal(p) \/ Grant(p)
             \/ \E r \in Row : Reject(p, r) \/ \E allow \in BOOLEAN : Approve(p, r, allow)
      PROVE Effect
  BY <1>3 DEF Touch, Crash, Load, Judge, MarkThrows, Completes, OutcomeUnknown, AnswerRefusal, Grant,
              Reject, Approve, book, Effect, Keeps
<1>4. ASSUME NEW p \in Proc, MarkStale(p) PROVE Effect
  <2>1. Keeps \/ Decides(call[p].r, "stale")
    BY <1>4 DEF MarkStale, Keeps, Decides, Unmoved
  <2> QED BY <1>0, <1>4, <2>1 DEF MarkStale, Effect, Decided
<1>5. ASSUME NEW p \in Proc, MarkRejected(p) PROVE Effect
  <2>1. Keeps \/ Decides(call[p].r, "rejected")
    BY <1>5 DEF MarkRejected, Keeps, Decides, Rejectable
  <2> QED BY <1>0, <1>5, <2>1 DEF MarkRejected, Effect, Decided
<1>6. ASSUME NEW p \in Proc, Flip(p) PROVE Effect
  <2>1. Keeps \/ Decides(call[p].r, "executed")
    BY <1>6 DEF Flip, Keeps, Decides, Flippable
  <2> QED BY <1>0, <1>6, <2>1 DEF Flip, Effect, Decided
<1>7. ASSUME NEW p \in Proc, RunStep(p) PROVE Effect
  <2>1. done < Steps /\ call[p].r \in Row
    BY <1>0, <1>7 DEF RunStep, MayRun
  <2>2. done + 1 \in 1..Steps
    BY <2>1 DEF TypeOK
  <2>3. PICK v \in Version : Stamps(call[p].r, TRUE, v)
    BY <1>7 DEF RunStep
  <2>4. Marks(call[p].r, TRUE, v)
    BY <1>7, <2>2, <2>3 DEF RunStep, Stamps, Marks
  <2> QED BY <2>1, <2>4 DEF Effect
<1>8. ASSUME NEW p \in Proc, WriteIntent(p) \/ TransportRefuses(p) \/ TransportThrows(p) \/ Refuses(p)
      PROVE Effect
  <2>1. call[p].r \in Row /\ rec \in Version /\ ran' = ran
    BY <1>0, <1>8 DEF WriteIntent, TransportRefuses, TransportThrows, Refuses, MayRun, TypeOK
  <2>2. \/ row' = row
        \/ Stampable(call[p].r) /\ \E b \in BOOLEAN, v \in Version : Stamps(call[p].r, b, v)
    BY <1>8, <2>1 DEF WriteIntent, TransportRefuses, TransportThrows, Refuses
  <2>3. CASE row' = row
    BY <2>1, <2>3 DEF Effect, Keeps
  <2>4. ASSUME Stampable(call[p].r), NEW b \in BOOLEAN, NEW v \in Version, Stamps(call[p].r, b, v)
        PROVE  Effect
    <3>1. Marks(call[p].r, b, v)
      BY <2>1, <2>4 DEF Stamps, Marks
    <3> QED BY <2>1, <3>1 DEF Effect
  <2> QED BY <2>2, <2>3, <2>4
<1> QED BY <1>1, <1>2, <1>3, <1>4, <1>5, <1>6, <1>7, <1>8 DEF Next, Work

\* A row stamped or resolved keeps what the stamp or the resolution does not touch.
LEMMA RowFields ==
    ASSUME TypeOK, NEW r \in Row
    PROVE  /\ \A s \in Decided : /\ Resolved(r, s).status = s
                                 /\ Resolved(r, s).committed = row[r].committed
           /\ \A b \in BOOLEAN, v \in Version : /\ Stamped(r, b, v).status = row[r].status
                                                /\ Stamped(r, TRUE, v).committed
                                                /\ row[r].committed => Stamped(r, b, v).committed
           /\ Queued.status = "pending" /\ ~Queued.committed
<1>1. row[r] \in Rows
  BY DEF TypeOK
<1>2. ASSUME NEW s \in Decided
      PROVE  Resolved(r, s).status = s /\ Resolved(r, s).committed = row[r].committed
  BY <1>1 DEF Resolved, Rows
<1>3. ASSUME NEW b \in BOOLEAN, NEW v \in Version
      PROVE  /\ Stamped(r, b, v).status = row[r].status
             /\ Stamped(r, TRUE, v).committed
             /\ row[r].committed => Stamped(r, b, v).committed
  <2>1. \A c : LET k == [row[r] EXCEPT !.committed = c, !.leaves = v]
               IN  k.status = row[r].status /\ k.committed = c
    BY <1>1 DEF Rows
  <2>2. \A c : Stamped(r, c, v) = [row[r] EXCEPT !.committed = row[r].committed \/ c, !.leaves = v]
    BY Zenon DEF Stamped
  <2>3. \A c : Stamped(r, c, v).status = row[r].status /\ Stamped(r, c, v).committed = (row[r].committed \/ c)
    BY <2>1, <2>2, Zenon
  <2> QED BY <2>3, Zenon
<1> QED BY <1>2, <1>3, Zenon DEF Queued

\* What was decided stays decided, what was proposed stays proposed, and a row that was turned down
\* runs nothing more.
LEMMA EffectKeeps ==
    ASSUME TypeOK, Effect, NEW r \in Row
    PROVE  /\ row[r].status \in Decided => row'[r].status = row[r].status
           /\ row[r].status # "none" => row'[r].status # "none"
           /\ row[r].status \in {"rejected", "stale"} => ran'[r] = ran[r]
<1> DEFINE Kept == /\ row[r].status \in Decided => row'[r].status = row[r].status
                   /\ row[r].status # "none" => row'[r].status # "none"
                   /\ row[r].status \in {"rejected", "stale"} => ran'[r] = ran[r]
<1>1. CASE Keeps
  BY <1>1 DEF Keeps
<1>2. CASE Mints
  <2>1. PICK new \in Row :
          /\ row[new].status = "none"
          /\ row' = [t \in Row |-> CASE t = new -> Queued
                                     [] t \in Live -> Resolved(t, "stale")
                                     [] OTHER -> row[t]]
    BY <1>2 DEF Mints
  <2>2. ran' = ran /\ (r \in Live => row[r].status = "pending")
    BY <1>2 DEF Mints
  <2>3. CASE r = new
    <3>1. row'[r] = Queued
      BY <2>1, <2>3 DEF Live
    <3> QED BY <2>1, <2>2, <2>3, <3>1, RowFields DEF Decided
  <2>4. CASE r # new /\ r \in Live
    <3>1. row'[r] = Resolved(r, "stale")
      BY <2>1, <2>4
    <3>2. row'[r].status = "stale"
      BY <3>1, RowFields DEF Decided
    <3> QED BY <2>2, <2>4, <3>2 DEF Decided
  <2>5. CASE r # new /\ r \notin Live
    <3>1. row'[r] = row[r]
      BY <2>1, <2>5
    <3> QED BY <2>2, <3>1
  <2> QED BY <2>3, <2>4, <2>5
<1>3. ASSUME NEW s \in Row, NEW outcome \in Decided, Decides(s, outcome) PROVE Kept
  <2>1. row[s].status = "pending" /\ ran' = ran
    BY <1>3 DEF Decides
  <2>2. row'[r] = IF r = s THEN Resolved(s, outcome) ELSE row[r]
    BY <1>3 DEF Decides, TypeOK
  <2>3. r = s => row'[r].status = outcome
    <3>1. Resolved(r, outcome).status = outcome
      BY RowFields, Zenon
    <3> QED BY <2>2, <3>1
  <2>4. r # s => row'[r] = row[r]
    BY <2>2
  <2> QED BY <2>1, <2>3, <2>4 DEF Decided
<1>4. ASSUME NEW s \in Row, NEW b \in BOOLEAN, NEW v \in Version, Marks(s, b, v) PROVE Kept
  <2>1. row[s].status \in {"pending", "executed"}
    BY <1>4 DEF Marks, Stampable
  <2>2. row'[r] = IF r = s THEN Stamped(s, b, v) ELSE row[r]
    BY <1>4 DEF Marks, TypeOK
  <2>3. Stamped(r, b, v).status = row[r].status
    BY RowFields, Zenon
  <2>4. row'[r].status = row[r].status
    BY <1>4, <2>2, <2>3
  <2>5. r # s => ran'[r] = ran[r]
    BY <1>4 DEF Marks, TypeOK
  <2> QED BY <2>1, <2>4, <2>5
<1> QED BY <1>1, <1>2, <1>3, <1>4 DEF Effect

-----------------------------------------------------------------------------
(* The inductive invariant *)

\* A standing grant is written only after its row was recorded as executed.
Granting == \A p \in Proc : call[p].stage = "grant" => row[call[p].r].status = "executed"

\* Whatever ran is marked as committed, and nothing ran for a row never proposed or turned down.
Marked == \A r \in Row : ran[r] # {} => row[r].committed
Unran == \A r \in Row : row[r].status \in {"none", "rejected"} => ran[r] = {}

\* What people were told is how the row stands.
Truthful == \A t \in told : row[t.r].status = t.outcome

IInv == TypeOK /\ Called /\ Granting /\ Marked /\ Unran /\ OneQuestion /\ Truthful

\* A step that marks keeps the mark; one that runs sets it; one that rejects finds it unset.
LEMMA RowStep ==
    ASSUME IInv, Effect
    PROVE  Marked' /\ Unran' /\ OneQuestion'
<1> USE DEF IInv
<1>1. CASE Keeps
  BY <1>1 DEF Keeps, Marked, Unran, OneQuestion, Pending
<1>2. CASE Mints
  <2>1. PICK new \in Row :
          /\ row[new].status = "none"
          /\ row' = [r \in Row |-> CASE r = new -> Queued
                                     [] r \in Live -> Resolved(r, "stale")
                                     [] OTHER -> row[r]]
    BY <1>2 DEF Mints
  <2>2. ran' = ran /\ \A r \in Live : row[r].status = "pending"
    BY <1>2 DEF Mints
  <2>3. ran[new] = {}
    BY <2>1 DEF Unran
  <2>4. ASSUME NEW r \in Row, r # new
        PROVE  /\ row'[r].committed = row[r].committed
               /\ row'[r].status \notin {"pending", "rejected"}
               /\ row'[r].status = "none" => row[r].status = "none"
    <3>1. CASE r \in Live
      BY <2>1, <2>2, <2>4, <3>1, RowFields DEF Decided
    <3>2. CASE r \notin Live
      BY <2>1, <2>2, <2>4, <3>2 DEF Live
    <3> QED BY <3>1, <3>2
  <2>5. row'[new] = Queued /\ Queued.status = "pending"
    BY <2>1 DEF Queued, Live
  <2>6. OneQuestion'
    BY <2>4, <2>5 DEF OneQuestion, Pending
  <2>7. Marked' /\ Unran'
    BY <2>2, <2>3, <2>4, <2>5 DEF Marked, Unran
  <2> QED BY <2>6, <2>7
<1>3. ASSUME NEW s \in Row, NEW outcome \in Decided, Decides(s, outcome)
      PROVE  Marked' /\ Unran' /\ OneQuestion'
  <2>1. /\ row' = [row EXCEPT ![s] = Resolved(s, outcome)]
        /\ ran' = ran /\ row[s].status = "pending"
        /\ outcome = "rejected" => ~row[s].committed
    BY <1>3 DEF Decides
  <2>2. row'[s].status = outcome /\ row'[s].committed = row[s].committed
    BY <2>1, RowFields DEF TypeOK
  <2>3. \A r \in Row \ {s} : row'[r] = row[r]
    BY <2>1 DEF TypeOK
  <2>4. outcome # "none" /\ outcome # "pending"
    BY DEF Decided
  <2>5. OneQuestion'
    BY <2>2, <2>3, <2>4 DEF OneQuestion, Pending
  <2>6. Marked'
    BY <2>1, <2>2, <2>3 DEF Marked
  <2>7. Unran'
    BY <2>1, <2>2, <2>3, <2>4 DEF Unran, Marked
  <2> QED BY <2>5, <2>6, <2>7
<1>4. ASSUME NEW s \in Row, NEW b \in BOOLEAN, NEW v \in Version, Marks(s, b, v)
      PROVE  Marked' /\ Unran' /\ OneQuestion'
  <2>1. row' = [row EXCEPT ![s] = Stamped(s, b, v)] /\ row[s].status \in {"pending", "executed"}
    BY <1>4 DEF Marks, Stampable
  <2>2. /\ row'[s].status = row[s].status
        /\ row[s].committed => row'[s].committed
        /\ b = TRUE => row'[s].committed
    BY <2>1, RowFields DEF TypeOK
  <2>3. \A r \in Row \ {s} : row'[r] = row[r]
    BY <2>1 DEF TypeOK
  <2>4. /\ \A r \in Row \ {s} : ran'[r] = ran[r]
        /\ b = TRUE \/ ran'[s] = ran[s]
    BY <1>4 DEF Marks, TypeOK
  <2>5. OneQuestion'
    BY <2>2, <2>3 DEF OneQuestion, Pending
  <2>6. Marked'
    BY <2>2, <2>3, <2>4 DEF Marked
  <2>7. Unran'
    BY <2>1, <2>2, <2>3, <2>4 DEF Unran
  <2> QED BY <2>5, <2>6, <2>7
<1> QED BY <1>1, <1>2, <1>3, <1>4 DEF Effect

\* Nobody is told anything but how the row stands after the step.
LEMMA TellStep ==
    ASSUME IInv, [Next]_vars, Effect
    PROVE  Truthful'
<1> USE DEF IInv
<1>0. \A p \in Proc : call[p].stage # "idle" => call[p].r \in Row
  BY DEF TypeOK
<1>1. \A t \in told : t.r \in Row /\ t.outcome \in Decided
  BY DEF TypeOK
<1>2. \A t \in told : row'[t.r].status = t.outcome
  BY <1>1, EffectKeeps DEF Truthful
<1>3. ASSUME NEW p \in Proc, call[p].r \in Row, Tells(p, row'[call[p].r].status)
      PROVE  Truthful'
  <2>1. told' = told \cup {[r |-> call[p].r, outcome |-> row'[call[p].r].status]}
    BY <1>3 DEF Tells
  <2> QED BY <1>2, <2>1 DEF Truthful
<1>4. CASE told' = told
  BY <1>2, <1>4 DEF Truthful
<1>5. ASSUME NEW p \in Proc, Load(p) PROVE Truthful'
  <2>1. told' = told \/ Tells(p, row[call[p].r].status)
    BY <1>5 DEF Load
  <2>2. call[p].r \in Row /\ row' = row
    BY <1>0, <1>5 DEF Load, book
  <2> QED BY <1>3, <1>4, <2>1, <2>2
<1>6. ASSUME NEW p \in Proc, NEW outcome \in Decided, Tells(p, outcome),
             call[p].r \in Row, row' = [row EXCEPT ![call[p].r] = Resolved(call[p].r, outcome)]
      PROVE  Truthful'
  <2>1. row'[call[p].r].status = outcome
    BY <1>6, RowFields DEF TypeOK
  <2> QED BY <1>3, <1>6, <2>1
<1>7. ASSUME NEW p \in Proc, MarkStale(p) \/ MarkRejected(p) \/ Flip(p) PROVE Truthful'
  BY <1>0, <1>4, <1>6, <1>7 DEF MarkStale, MarkRejected, Flip, Decided
<1>8. ASSUME NEW p \in Proc, Grant(p) PROVE Truthful'
  <2>1. call[p].r \in Row /\ row' = row /\ row[call[p].r].status = "executed"
    BY <1>0, <1>8 DEF Grant, Granting
  <2> QED BY <1>3, <1>8, <2>1 DEF Grant
<1>9. \/ told' = told
      \/ \E p \in Proc : Load(p) \/ MarkStale(p) \/ MarkRejected(p) \/ Flip(p) \/ Grant(p)
  BY DEF Next, Work, vars, book, Enqueue, Touch, Crash, Reject, Approve, Judge, RunStep, WriteIntent,
         TransportRefuses, TransportThrows, MarkThrows, Refuses, Completes, OutcomeUnknown, AnswerRefusal
<1> QED BY <1>4, <1>5, <1>7, <1>8, <1>9

\* A call stays with its row; only Flip, which decides the row as executed, goes on to the grant.
LEMMA CallStep ==
    ASSUME IInv, [Next]_vars, Effect
    PROVE  Called' /\ Granting'
<1> USE DEF IInv
<1> DEFINE Stays(p) == /\ \A q \in Proc \ {p} : call'[q] = call[q]
                       /\ call'[p].stage # "idle" =>
                            /\ call'[p].r \in Row /\ row[call'[p].r].status # "none"
                            /\ call'[p].stage = "grant" => row'[call'[p].r].status = "executed"
<1>0. \A p \in Proc : call[p].stage # "idle" => call[p].r \in Row /\ row[call[p].r].status # "none"
  BY DEF TypeOK, Called
<1>1. \A r \in Row : /\ row[r].status # "none" => row'[r].status # "none"
                     /\ row[r].status = "executed" => row'[r].status = "executed"
  BY EffectKeeps DEF Decided
<1>2. CASE call' = call
  BY <1>0, <1>1, <1>2 DEF Called, Granting
<1>3. ASSUME NEW p \in Proc, Stays(p) PROVE Called' /\ Granting'
  <2>1. ASSUME NEW q \in Proc, call'[q].stage # "idle"
        PROVE  /\ row'[call'[q].r].status # "none"
               /\ call'[q].stage = "grant" => row'[call'[q].r].status = "executed"
    <3>1. CASE q = p
      BY <1>1, <1>3, <2>1, <3>1
    <3>2. CASE q # p
      BY <1>0, <1>1, <1>3, <2>1, <3>2 DEF Granting
    <3> QED BY <3>1, <3>2
  <2> QED BY <2>1 DEF Called, Granting
<1>4. ASSUME NEW p \in Proc, NEW c, Goes(p, c),
             c.stage # "idle" => /\ c.r \in Row /\ row[c.r].status # "none"
                                 /\ c.stage = "grant" => row'[c.r].status = "executed"
      PROVE  Called' /\ Granting'
  <2>1. Stays(p)
    BY <1>4 DEF Goes, TypeOK
  <2> QED BY <1>3, <2>1
<1>5. ASSUME NEW p \in Proc, call[p].stage # "idle", Goes(p, Idle) \/ LosesRace(p)
      PROVE  Called' /\ Granting'
  <2>1. call[p].r \in Row /\ row[call[p].r].status # "none"
    BY <1>0, <1>5
  <2>2. CASE Goes(p, Idle)
    BY <1>4, <2>2 DEF Idle
  <2>3. CASE LosesRace(p) /\ ~call[p].retried
    <3> DEFINE c == [Idle EXCEPT !.stage = "load", !.approves = TRUE, !.r = call[p].r,
                                 !.allow = call[p].allow, !.retried = TRUE]
    <3>1. Goes(p, c)
      BY <2>3 DEF LosesRace
    <3>2. c.stage = "load" /\ c.r = call[p].r
      BY DEF Idle
    <3> HIDE DEF c
    <3> QED BY <1>4, <2>1, <3>1, <3>2
  <2> QED BY <1>5, <2>2, <2>3 DEF LosesRace
<1>6. ASSUME NEW p \in Proc, NEW s \in Stages, call[p].stage # "idle", Moves(p, s),
             s = "grant" => row'[call[p].r].status = "executed"
      PROVE  Called' /\ Granting'
  <2> DEFINE c == [call[p] EXCEPT !.stage = s]
  <2>1. Goes(p, c)
    BY <1>6 DEF Moves
  <2>2. c.stage = s /\ c.r = call[p].r
    BY DEF TypeOK, CallStates
  <2>3. call[p].r \in Row /\ row[call[p].r].status # "none"
    BY <1>0, <1>6
  <2> HIDE DEF c
  <2> QED BY <1>4, <1>6, <2>1, <2>2, <2>3
<1>7. ASSUME NEW p \in Proc, NEW r \in Row, Reject(p, r) PROVE Called' /\ Granting'
  <2> DEFINE c == [Idle EXCEPT !.stage = "load", !.r = r]
  <2>1. Goes(p, c) /\ row[r].status # "none"
    BY <1>7 DEF Reject
  <2>2. c.stage = "load" /\ c.r = r
    BY DEF Idle
  <2> HIDE DEF c
  <2> QED BY <1>4, <2>1, <2>2
<1>8. ASSUME NEW p \in Proc, NEW r \in Row, NEW allow \in BOOLEAN, Approve(p, r, allow)
      PROVE  Called' /\ Granting'
  <2> DEFINE c == [Idle EXCEPT !.stage = "load", !.approves = TRUE, !.r = r, !.allow = allow]
  <2>1. Goes(p, c) /\ row[r].status # "none"
    BY <1>8 DEF Approve
  <2>2. c.stage = "load" /\ c.r = r
    BY DEF Idle
  <2> HIDE DEF c
  <2> QED BY <1>4, <2>1, <2>2
<1>9. ASSUME NEW p \in Proc, Load(p) PROVE Called' /\ Granting'
  <2> DEFINE j == [call[p] EXCEPT !.stage = "judge", !.committed = row[call[p].r].committed,
                                  !.leaves = row[call[p].r].leaves]
  <2>1. Goes(p, j) \/ Moves(p, "reject") \/ Goes(p, Idle)
    BY <1>9, Zenon DEF Load, Tells
  <2>2. j.stage = "judge" /\ j.r = call[p].r
    BY DEF TypeOK, CallStates
  <2>3. call[p].stage # "idle"
    BY <1>9 DEF Load
  <2> HIDE DEF j
  <2>4. CASE Goes(p, j)
    BY <1>0, <1>4, <2>2, <2>3, <2>4
  <2>5. CASE Moves(p, "reject") \/ Goes(p, Idle)
    BY <1>5, <1>6, <2>3, <2>5 DEF Stages
  <2> QED BY <2>1, <2>4, <2>5
<1>10. ASSUME NEW p \in Proc, OutcomeUnknown(p) PROVE Called' /\ Granting'
  <2> DEFINE s == IF call[p].committed THEN "flip" ELSE "refused"
             c == [call[p] EXCEPT !.stage = s, !.unknown = TRUE]
  <2>1. Goes(p, c) /\ call[p].stage # "idle"
    BY <1>10 DEF OutcomeUnknown
  <2>2. c.stage = s /\ c.r = call[p].r /\ s # "grant"
    BY DEF TypeOK, CallStates
  <2> HIDE DEF c
  <2> QED BY <1>0, <1>4, <2>1, <2>2
<1>11. ASSUME NEW p \in Proc, Flip(p) PROVE Called' /\ Granting'
  <2>1. call[p].r \in Row /\ call[p].stage # "idle"
    BY <1>0, <1>11 DEF Flip
  <2>2. CASE Goes(p, Idle) \/ LosesRace(p)
    BY <1>5, <2>1, <2>2
  <2>3. CASE Moves(p, "grant") /\ row' = [row EXCEPT ![call[p].r] = Resolved(call[p].r, "executed")]
    <3>1. row'[call[p].r].status = "executed"
      BY <2>1, <2>3, RowFields DEF TypeOK, Decided
    <3> QED BY <1>6, <2>1, <2>3, <3>1 DEF Stages
  <2> QED BY <1>11, <2>2, <2>3 DEF Flip, Tells
<1>12. ASSUME NEW p \in Proc,
              \/ Crash(p) \/ Judge(p) \/ MarkStale(p) \/ MarkRejected(p) \/ Grant(p)
              \/ RunStep(p) \/ WriteIntent(p) \/ TransportRefuses(p) \/ TransportThrows(p)
              \/ MarkThrows(p) \/ Refuses(p) \/ Completes(p) \/ AnswerRefusal(p)
       PROVE  Called' /\ Granting'
  <2>1. call[p].stage # "idle"
    BY <1>12 DEF Crash, Judge, MarkStale, MarkRejected, Grant, RunStep, WriteIntent, TransportRefuses,
                 TransportThrows, MarkThrows, Refuses, Completes, AnswerRefusal, MayRun
  <2>2. \/ Goes(p, Idle) \/ LosesRace(p)
        \/ \E s \in {"replay", "void", "load", "wire", "refused", "flip"} : Moves(p, s)
    BY <1>12 DEF Crash, Judge, MarkStale, MarkRejected, Grant, RunStep, WriteIntent, TransportRefuses,
                 TransportThrows, MarkThrows, Refuses, Completes, AnswerRefusal, Tells
  <2> QED BY <1>5, <1>6, <2>1, <2>2 DEF Stages
<1> QED BY <1>2, <1>7, <1>8, <1>9, <1>10, <1>11, <1>12
        DEF Next, Work, vars, Enqueue, Touch

LEMMA Invariant == Spec => []IInv
<1>1. Init => IInv
  <2> SUFFICES ASSUME Init PROVE IInv
    OBVIOUS
  <2>1. TypeOK /\ Called
    BY TypeInit
  <2>2. \A r \in Row : ran[r] = {} /\ row[r].status = "none"
    BY DEF Init, Unqueued
  <2>3. \A p \in Proc : call[p].stage = "idle"
    BY DEF Init, Idle
  <2> QED BY <2>1, <2>2, <2>3 DEF IInv, Granting, Marked, Unran, OneQuestion, Pending, Truthful, Init
<1>2. IInv /\ [Next]_vars => IInv'
  <2> SUFFICES ASSUME IInv, [Next]_vars PROVE IInv'
    OBVIOUS
  <2>1. TypeOK' /\ Effect
    BY TypeStep, StepEffect DEF IInv
  <2>2. Marked' /\ Unran' /\ OneQuestion'
    BY <2>1, RowStep
  <2>3. Truthful' /\ Called' /\ Granting'
    BY <2>1, TellStep, CallStep
  <2> QED BY <2>1, <2>2, <2>3 DEF IInv
<1> QED BY <1>1, <1>2, PTL DEF Spec

-----------------------------------------------------------------------------
(* The theorems *)

\* Every variable has its type in every reachable state.
THEOREM TypeCorrect == Spec => []TypeOK
<1>1. IInv => TypeOK
  BY DEF IInv
<1> QED BY <1>1, Invariant, PTL

\* A row recorded as rejected never committed anything (the compare-and-set of rejectDraftedAction and
\* the throw of the commit mark), for any number of processes, proposals and steps.
THEOREM RejectionIsClean == Spec => []RejectedNeverRan
<1>1. IInv => RejectedNeverRan
  BY DEF IInv, Unran, RejectedNeverRan
<1> QED BY <1>1, Invariant, PTL

\* One verb under one key never has two pending rows (enqueueOnce voids before it inserts).
LEMMA OneProposalAtATime == Spec => []OneQuestion
<1>1. IInv => OneQuestion
  BY DEF IInv
<1> QED BY <1>1, Invariant, PTL

\* Nobody is ever told two different outcomes of one row (lostRace and the compare-and-sets).
LEMMA AnswersAgree == Spec => []OneAnswer
<1>1. IInv => OneAnswer
  BY DEF IInv, Truthful, OneAnswer
<1> QED BY <1>1, Invariant, PTL

\* One act never has two open questions, and one question never two answers.
THEOREM QuestionsAndAnswersAgree == Spec => []OneQuestionOneAnswer
<1>1. OneQuestion /\ OneAnswer => OneQuestionOneAnswer
  BY DEF OneQuestionOneAnswer
<1> QED BY <1>1, OneProposalAtATime, AnswersAgree, PTL

\* A decision is final, and a row that was turned down runs nothing more.
THEOREM DecisionsAreFinal == Spec => DecidedForGood
<1> DEFINE Final == \A r \in Row : row[r].status \in Decided =>
                      /\ row'[r].status = row[r].status
                      /\ row[r].status # "executed" => ran'[r] = ran[r]
<1>1. IInv /\ [Next]_vars => [Final]_<<row, ran>>
  <2> SUFFICES ASSUME IInv, [Next]_vars PROVE Final
    OBVIOUS
  <2>1. TypeOK /\ Effect
    BY StepEffect DEF IInv
  <2> QED BY <2>1, EffectKeeps DEF Decided
<1> QED BY <1>1, Invariant, PTL DEF Spec, DecidedForGood

-----------------------------------------------------------------------------
(* What executed stands on *)

\* The act ran to its end, or to an outcome nobody knows.
Out == done = Steps \/ Sunk

\* One call at a time is in front of the transport, and its intent stands.
Wired ==
    /\ intent => SendsNext
    /\ \A p \in Proc : OnWire(p) => intent
    /\ \A p, q \in Proc : OnWire(p) /\ OnWire(q) => p = q

\* What a call in state c relies on.
Stands(c) ==
    /\ c.committed => done > 0 \/ Sunk
    /\ c.unknown => c.stage \in {"flip", "refused"}
    /\ c.stage = "flip" => (c.unknown /\ Sunk) \/ (~c.unknown /\ done = Steps)
    /\ c.stage = "grant" => done = Steps
Standing == \A p \in Proc : Stands(call[p])

\* A marked row ran a step or left an attempt behind; an executed one is out.
MarkIsReal == \A r \in Row : row[r].committed => done > 0 \/ Sunk
ExecutedIsOut == \A r \in Row : row[r].status = "executed" => Out

RInv == IInv /\ Wired /\ Standing /\ MarkIsReal /\ ExecutedIsOut /\ GrantsOnlyExecuted

\* Steps are never taken back, and an attempt of unknown outcome stays one.
Later ==
    /\ done > 0 => done' > 0
    /\ done = Steps => done' = Steps
    /\ Sunk => Sunk'

\* The state of one process is replaced; the others keep theirs.
LEMMA OneGoes ==
    ASSUME TypeOK, NEW p \in Proc, NEW c, Goes(p, c)
    PROVE  call'[p] = c /\ \A q \in Proc \ {p} : call'[q] = call[q]
BY DEF TypeOK, Goes

\* Moved to another stage, a call keeps all but the stage.
LEMMA OneMoves ==
    ASSUME TypeOK, NEW p \in Proc, NEW s, Moves(p, s)
    PROVE  /\ call'[p].stage = s /\ call'[p].committed = call[p].committed
           /\ call'[p].unknown = call[p].unknown /\ call'[p].r = call[p].r
           /\ \A q \in Proc \ {p} : call'[q] = call[q]
<1>1. PICK c : c = [call[p] EXCEPT !.stage = s]
  OBVIOUS
<1>2. call'[p] = c /\ \A q \in Proc \ {p} : call'[q] = call[q]
  BY <1>1, OneGoes DEF Moves
<1>3. c.stage = s /\ c.committed = call[p].committed /\ c.unknown = call[p].unknown /\ c.r = call[p].r
  BY <1>1 DEF TypeOK, CallStates
<1> QED BY <1>2, <1>3

\* No call.
LEMMA Begun == Idle.stage = "idle" /\ ~Idle.committed /\ ~Idle.unknown
BY DEF Idle

\* A call that ends, loses a race or starts is nowhere near the transport.
LEMMA Restarts ==
    ASSUME TypeOK, NEW p \in Proc,
           \/ Goes(p, Idle)
           \/ LosesRace(p)
           \/ \E r \in Row : Reject(p, r) \/ \E allow \in BOOLEAN : Approve(p, r, allow)
    PROVE  /\ call'[p].stage \in {"idle", "load"} /\ ~call'[p].committed /\ ~call'[p].unknown
           /\ \A q \in Proc \ {p} : call'[q] = call[q]
<1>1. CASE Goes(p, Idle)
  BY <1>1, OneGoes, Begun
<1>2. ASSUME NEW r, NEW a, NEW b, NEW t,
             Goes(p, [Idle EXCEPT !.stage = "load", !.approves = a, !.r = r, !.allow = b, !.retried = t])
      PROVE  /\ call'[p].stage \in {"idle", "load"} /\ ~call'[p].committed /\ ~call'[p].unknown
             /\ \A q \in Proc \ {p} : call'[q] = call[q]
  <2>1. PICK c : c = [Idle EXCEPT !.stage = "load", !.approves = a, !.r = r, !.allow = b, !.retried = t]
    OBVIOUS
  <2>2. c.stage = "load" /\ ~c.committed /\ ~c.unknown
    BY <2>1 DEF Idle
  <2>3. call'[p] = c /\ \A q \in Proc \ {p} : call'[q] = call[q]
    BY <1>2, <2>1, OneGoes
  <2> QED BY <2>2, <2>3
<1>3. CASE LosesRace(p)
  <2>1. CASE call[p].retried
    BY <1>1, <1>3, <2>1 DEF LosesRace
  <2>2. CASE ~call[p].retried
    BY <1>2, <1>3, <2>2 DEF LosesRace
  <2> QED BY <2>1, <2>2
<1>4. ASSUME NEW r \in Row, Reject(p, r)
      PROVE  /\ call'[p].stage \in {"idle", "load"} /\ ~call'[p].committed /\ ~call'[p].unknown
             /\ \A q \in Proc \ {p} : call'[q] = call[q]
  <2>1. PICK c : c = [Idle EXCEPT !.stage = "load", !.r = r]
    OBVIOUS
  <2>2. c.stage = "load" /\ ~c.committed /\ ~c.unknown
    BY <2>1 DEF Idle
  <2>3. call'[p] = c /\ \A q \in Proc \ {p} : call'[q] = call[q]
    BY <1>4, <2>1, OneGoes DEF Reject
  <2> QED BY <2>2, <2>3
<1>5. ASSUME NEW r \in Row, NEW allow \in BOOLEAN, Approve(p, r, allow)
      PROVE  /\ call'[p].stage \in {"idle", "load"} /\ ~call'[p].committed /\ ~call'[p].unknown
             /\ \A q \in Proc \ {p} : call'[q] = call[q]
  <2>1. PICK c : c = [Idle EXCEPT !.stage = "load", !.approves = TRUE, !.r = r, !.allow = allow]
    OBVIOUS
  <2>2. c.stage = "load" /\ ~c.committed /\ ~c.unknown
    BY <2>1 DEF Idle
  <2>3. call'[p] = c /\ \A q \in Proc \ {p} : call'[q] = call[q]
    BY <1>5, <2>1, OneGoes DEF Approve
  <2> QED BY <2>2, <2>3
<1> QED BY <1>1, <1>3, <1>4, <1>5

\* A step that starts no send and settles none.
Calm(p) ==
    /\ done' = done /\ intent' = intent
    /\ call'[p].stage # "wire"
    /\ \A q \in Proc \ {p} : call'[q] = call[q]

\* Where every step of a call in p leaves the send.
LEMMA Drives ==
    ASSUME TypeOK, NEW p \in Proc,
           \/ Crash(p) \/ Load(p) \/ Judge(p) \/ MarkStale(p) \/ MarkRejected(p) \/ TransportThrows(p)
           \/ MarkThrows(p) \/ Refuses(p) \/ Completes(p) \/ OutcomeUnknown(p) \/ AnswerRefusal(p)
           \/ Flip(p) \/ Grant(p)
           \/ \E r \in Row : Reject(p, r) \/ \E allow \in BOOLEAN : Approve(p, r, allow)
    PROVE  Calm(p)
<1>1. ASSUME Goes(p, Idle) \/ LosesRace(p)
             \/ \E r \in Row : Reject(p, r) \/ \E allow \in BOOLEAN : Approve(p, r, allow),
             done' = done, intent' = intent
      PROVE  Calm(p)
  BY <1>1, Restarts DEF Calm
<1>2. ASSUME NEW s, Moves(p, s), s # "wire", done' = done, intent' = intent PROVE Calm(p)
  BY <1>2, OneMoves DEF Calm
<1>3. CASE \E r \in Row : Reject(p, r) \/ \E allow \in BOOLEAN : Approve(p, r, allow)
  <2>1. done' = done /\ intent' = intent
    BY <1>3 DEF Reject, Approve, book
  <2> QED BY <1>1, <1>3, <2>1
<1>4. CASE Load(p)
  <2>1. done' = done /\ intent' = intent
    BY <1>4 DEF Load, book
  <2>2. PICK j : j = [call[p] EXCEPT !.stage = "judge", !.committed = row[call[p].r].committed,
                                     !.leaves = row[call[p].r].leaves]
    OBVIOUS
  <2>3. j.stage = "judge"
    BY <2>2 DEF TypeOK, CallStates
  <2>4. Goes(p, j) \/ Moves(p, "reject") \/ Goes(p, Idle)
    BY <1>4, <2>2, Zenon DEF Load, Tells
  <2>5. CASE Goes(p, j)
    BY <2>1, <2>3, <2>5, OneGoes DEF Calm
  <2> QED BY <1>1, <1>2, <2>1, <2>4, <2>5
<1>5. CASE OutcomeUnknown(p)
  <2>1. done' = done /\ intent' = intent
    BY <1>5 DEF OutcomeUnknown, book
  <2>2. PICK s : s = IF call[p].committed THEN "flip" ELSE "refused"
    OBVIOUS
  <2>3. PICK c : c = [call[p] EXCEPT !.stage = s, !.unknown = TRUE]
    OBVIOUS
  <2>4. c.stage = s /\ s # "wire"
    BY <2>2, <2>3 DEF TypeOK, CallStates
  <2>5. Goes(p, c)
    BY <1>5, <2>2, <2>3 DEF OutcomeUnknown
  <2> QED BY <2>1, <2>4, <2>5, OneGoes DEF Calm
<1>6. CASE \/ Crash(p) \/ Judge(p) \/ MarkStale(p) \/ MarkRejected(p) \/ TransportThrows(p) \/ MarkThrows(p)
           \/ Refuses(p) \/ Completes(p) \/ AnswerRefusal(p) \/ Flip(p) \/ Grant(p)
  <2>1. done' = done /\ intent' = intent
    BY <1>6 DEF Crash, Judge, MarkStale, MarkRejected, TransportThrows, MarkThrows, Refuses, Completes,
                AnswerRefusal, Flip, Grant, book
  <2>2. \/ Goes(p, Idle) \/ LosesRace(p)
        \/ \E s \in Stages \ {"wire"} : Moves(p, s)
    BY <1>6 DEF Crash, Judge, MarkStale, MarkRejected, TransportThrows, MarkThrows, Refuses, Completes,
                AnswerRefusal, Flip, Grant, Tells, Stages
  <2> QED BY <1>1, <1>2, <2>1, <2>2
<1> QED BY <1>3, <1>4, <1>5, <1>6

\* A send begins only when none stands, and only the call that began it settles it.
LEMMA WireStep ==
    ASSUME RInv, [Next]_vars
    PROVE  Wired' /\ Later
<1> USE ApprovalAssumptions
<1>0. TypeOK /\ done \in 0..Steps /\ Steps \in Nat \ {0}
  BY DEF RInv, IInv, TypeOK
<1>1. ASSUME NEW p \in Proc, Calm(p) PROVE Wired' /\ Later
  <2>1. \A q \in Proc : call'[q].stage = "wire" => q # p /\ OnWire(q)
    BY <1>1 DEF Calm, OnWire
  <2>2. Wired'
    BY <1>1, <2>1 DEF Calm, Wired, OnWire, RInv, SendsNext
  <2>3. Sunk => Sunk'
    BY <1>1, <2>1 DEF Calm, Sunk, OnWire
  <2> QED BY <1>1, <2>2, <2>3 DEF Calm, Later
<1>2. ASSUME UNCHANGED <<done, intent, call>> PROVE Wired' /\ Later
  BY <1>2 DEF Wired, OnWire, RInv, SendsNext, Later, Sunk
<1>3. ASSUME NEW p \in Proc, RunStep(p) PROVE Wired' /\ Later
  <2>1. done' = done + 1 /\ intent' = FALSE /\ Moves(p, "replay") /\ done < Steps
    BY <1>3 DEF RunStep, MayRun
  <2>2. call'[p].stage = "replay" /\ \A q \in Proc \ {p} : call'[q] = call[q]
    BY <1>0, <2>1, OneMoves
  <2>3. ~Sunk
    BY <1>3 DEF RunStep, MayRun, Sunk, OnWire
  <2>4. ASSUME NEW q \in Proc, OnWire(q) PROVE q = p
    BY <1>3, <2>4 DEF RunStep, MayRun, OnWire, RInv, Wired
  <2>5. Wired'
    BY <2>1, <2>2, <2>4 DEF Wired, OnWire
  <2> QED BY <1>0, <2>1, <2>3, <2>5 DEF Later
<1>4. ASSUME NEW p \in Proc, WriteIntent(p) PROVE Wired' /\ Later
  <2>1. done' = done /\ intent' = TRUE /\ Moves(p, "wire") /\ SendsNext /\ ~intent
    BY <1>4 DEF WriteIntent, MayRun
  <2>2. call'[p].stage = "wire" /\ \A q \in Proc \ {p} : call'[q] = call[q]
    BY <1>0, <2>1, OneMoves
  <2>3. \A q \in Proc : ~OnWire(q)
    BY <2>1 DEF RInv, Wired
  <2>4. Wired'
    BY <2>1, <2>2, <2>3 DEF Wired, OnWire, SendsNext
  <2> QED BY <2>1, <2>4 DEF Later, Sunk
<1>5. ASSUME NEW p \in Proc, TransportRefuses(p) PROVE Wired' /\ Later
  <2>1. done' = done /\ intent' = FALSE /\ Moves(p, "refused") /\ OnWire(p)
    BY <1>5 DEF TransportRefuses, OnWire
  <2>2. call'[p].stage = "refused" /\ \A q \in Proc \ {p} : call'[q] = call[q]
    BY <1>0, <2>1, OneMoves
  <2>3. \A q \in Proc : OnWire(q) => q = p
    BY <2>1 DEF RInv, Wired
  <2>4. Wired'
    BY <2>1, <2>2, <2>3 DEF Wired, OnWire
  <2> QED BY <2>1, <2>4 DEF Later, Sunk
<1>6. ASSUME NEW p \in Proc, Enqueue(p) \/ Touch(p) PROVE Wired' /\ Later
  BY <1>2, <1>6 DEF Enqueue, Touch
<1>7. CASE UNCHANGED vars
  BY <1>2, <1>7 DEF vars, book
<1>8. ASSUME NEW p \in Proc,
             \/ Crash(p) \/ Load(p) \/ Judge(p) \/ MarkStale(p) \/ MarkRejected(p) \/ TransportThrows(p)
             \/ MarkThrows(p) \/ Refuses(p) \/ Completes(p) \/ OutcomeUnknown(p) \/ AnswerRefusal(p)
             \/ Flip(p) \/ Grant(p)
             \/ \E r \in Row : Reject(p, r) \/ \E allow \in BOOLEAN : Approve(p, r, allow)
      PROVE  Wired' /\ Later
  BY <1>0, <1>1, <1>8, Drives
<1> QED BY <1>3, <1>4, <1>5, <1>6, <1>7, <1>8 DEF Next, Work

\* What a call learnt of its row, and how far it ran, holds when it says so.
LEMMA StandStep ==
    ASSUME RInv, [Next]_vars, Later
    PROVE  Standing'
<1>0. TypeOK /\ \A p \in Proc : call[p].stage # "idle" => call[p].r \in Row
  BY DEF RInv, IInv, TypeOK
<1>1. ASSUME NEW c, Stands(c) PROVE Stands(c)'
  BY <1>1 DEF Stands, Later
<1>2. \A q \in Proc : Stands(call[q])
  BY DEF RInv, Standing
<1>3. ASSUME NEW p \in Proc, NEW c, call'[p] = c, Stands(c)', \A q \in Proc \ {p} : call'[q] = call[q]
      PROVE  Standing'
  <2>1. ASSUME NEW q \in Proc PROVE Stands(call[q])'
    <3>1. PICK d : d = call'[q]
      OBVIOUS
    <3>2. CASE q = p
      BY <1>3, <3>1, <3>2
    <3>3. CASE q # p
      BY <1>1, <1>2, <1>3, <3>1, <3>3
    <3> QED BY <3>2, <3>3
  <2> QED BY <2>1 DEF Standing
<1>4. CASE call' = call
  <2>1. ASSUME NEW q \in Proc PROVE Stands(call[q])'
    <3>1. PICK d : d = call[q]
      OBVIOUS
    <3> QED BY <1>1, <1>2, <1>4, <3>1
  <2> QED BY <2>1 DEF Standing
<1>5. ASSUME NEW p \in Proc,
             \/ Goes(p, Idle)
             \/ LosesRace(p)
             \/ \E r \in Row : Reject(p, r) \/ \E allow \in BOOLEAN : Approve(p, r, allow)
      PROVE  Standing'
  <2>1. PICK c : c = call'[p]
    OBVIOUS
  <2>2. /\ c.stage \in {"idle", "load"} /\ ~c.committed /\ ~c.unknown
        /\ \A q \in Proc \ {p} : call'[q] = call[q]
    BY <1>0, <1>5, <2>1, Restarts
  <2>3. Stands(c)'
    BY <2>2 DEF Stands
  <2> QED BY <1>3, <2>1, <2>2, <2>3
<1>6. ASSUME NEW p \in Proc, NEW s, Moves(p, s),
             call[p].unknown => s \in {"flip", "refused"},
             s = "flip" => ~call[p].unknown /\ done = Steps,
             s = "grant" => done = Steps
      PROVE  Standing'
  <2>1. PICK c : c = call'[p]
    OBVIOUS
  <2>2. /\ c.stage = s /\ c.committed = call[p].committed /\ c.unknown = call[p].unknown
        /\ \A q \in Proc \ {p} : call'[q] = call[q]
    BY <1>0, <1>6, <2>1, OneMoves
  <2>3. Stands(c)'
    BY <1>2, <1>6, <2>2 DEF Stands, Later
  <2> QED BY <1>3, <2>1, <2>2, <2>3
<1>7. ASSUME NEW p \in Proc, Load(p) PROVE Standing'
  <2>1. PICK j : j = [call[p] EXCEPT !.stage = "judge", !.committed = row[call[p].r].committed,
                                     !.leaves = row[call[p].r].leaves]
    OBVIOUS
  <2>2. j.stage = "judge" /\ j.committed = row[call[p].r].committed /\ j.unknown = call[p].unknown
    BY <1>0, <2>1 DEF TypeOK, CallStates
  <2>3. Goes(p, j) \/ Moves(p, "reject") \/ Goes(p, Idle)
    BY <1>7, <2>1, Zenon DEF Load, Tells
  <2>4. ~call[p].unknown /\ call[p].r \in Row
    BY <1>0, <1>2, <1>7 DEF Load, Stands
  <2>5. CASE Goes(p, j)
    <3>1. j.committed => done > 0 \/ Sunk
      BY <2>2, <2>4 DEF RInv, MarkIsReal
    <3>2. Stands(j)'
      BY <2>2, <2>4, <3>1 DEF Stands, Later
    <3> QED BY <1>0, <1>3, <2>5, <3>2, OneGoes
  <2> QED BY <1>5, <1>6, <2>3, <2>4, <2>5
<1>8. ASSUME NEW p \in Proc, OutcomeUnknown(p) PROVE Standing'
  <2>1. PICK s : s = IF call[p].committed THEN "flip" ELSE "refused"
    OBVIOUS
  <2>2. PICK c : c = [call[p] EXCEPT !.stage = s, !.unknown = TRUE]
    OBVIOUS
  <2>3. c.stage = s /\ c.committed = call[p].committed /\ c.unknown
    BY <1>0, <2>2 DEF TypeOK, CallStates
  <2>4. Goes(p, c)
    BY <1>8, <2>1, <2>2 DEF OutcomeUnknown
  <2>5. done = 0
    BY <1>8 DEF OutcomeUnknown, RInv, Wired, SendsNext
  <2>6. call[p].committed => Sunk
    BY <1>2, <2>5 DEF Stands
  <2>7. Stands(c)'
    BY <2>1, <2>3, <2>6 DEF Stands, Later
  <2> QED BY <1>0, <1>3, <2>4, <2>7, OneGoes
<1>9. ASSUME NEW p \in Proc, Judge(p) \/ RunStep(p) \/ WriteIntent(p) PROVE Standing'
  <2>1. ~call[p].unknown /\ \E s \in Stages \ {"flip", "grant"} : Moves(p, s)
    BY <1>2, <1>9 DEF Judge, RunStep, WriteIntent, MayRun, Stands, Stages
  <2> QED BY <1>6, <2>1
<1>10. ASSUME NEW p \in Proc, TransportRefuses(p) \/ TransportThrows(p) \/ MarkThrows(p) \/ Refuses(p)
       PROVE  Standing'
  <2>1. Moves(p, "refused")
    BY <1>10 DEF TransportRefuses, TransportThrows, MarkThrows, Refuses
  <2> QED BY <1>6, <2>1
<1>11. ASSUME NEW p \in Proc, Completes(p) PROVE Standing'
  BY <1>2, <1>6, <1>11 DEF Completes, Stands
<1>12. ASSUME NEW p \in Proc, Flip(p) PROVE Standing'
  <2>1. Goes(p, Idle) \/ LosesRace(p) \/ (Moves(p, "grant") /\ ~call[p].unknown /\ call[p].stage = "flip")
    BY <1>12 DEF Flip, Tells, GrantsAuto
  <2> QED BY <1>2, <1>5, <1>6, <2>1 DEF Stands
<1>13. ASSUME NEW p \in Proc, MarkStale(p) \/ MarkRejected(p) \/ AnswerRefusal(p) \/ Grant(p) \/ Crash(p)
       PROVE  Standing'
  <2>1. Goes(p, Idle) \/ LosesRace(p) \/ (Moves(p, "load") /\ call[p].stage = "reject")
    BY <1>13 DEF MarkStale, MarkRejected, AnswerRefusal, Grant, Crash, Tells
  <2> QED BY <1>2, <1>5, <1>6, <2>1 DEF Stands
<1>14. ASSUME NEW p \in Proc, Enqueue(p) \/ Touch(p) PROVE Standing'
  BY <1>4, <1>14 DEF Enqueue, Touch
<1>15. CASE UNCHANGED vars
  BY <1>4, <1>15 DEF vars
<1> QED BY <1>5, <1>7, <1>8, <1>9, <1>10, <1>11, <1>12, <1>13, <1>14, <1>15 DEF Next, Work

\* Only a step that commits, or a transport that throws, marks a row that bore no mark.
LEMMA StampFields ==
    ASSUME TypeOK, NEW r \in Row, NEW b \in BOOLEAN, NEW v, Stamps(r, b, v)
    PROVE  /\ row'[r].status = row[r].status /\ row'[r].committed = (row[r].committed \/ b)
           /\ row'[r].pin = row[r].pin /\ row'[r].leaves = v
           /\ \A s \in Row \ {r} : row'[s] = row[s]
<1>1. PICK c : c = (row[r].committed \/ b)
  OBVIOUS
<1>2. PICK k : k = [row[r] EXCEPT !.committed = c, !.leaves = v]
  OBVIOUS
<1>3. k.status = row[r].status /\ k.committed = c /\ k.pin = row[r].pin /\ k.leaves = v
  BY <1>2 DEF TypeOK, Rows
<1>4. Stamped(r, b, v) = k
  BY <1>1, <1>2, Zenon DEF Stamped
<1>5. row'[r] = k /\ \A s \in Row \ {r} : row'[s] = row[s]
  BY <1>4 DEF Stamps, TypeOK
<1> QED BY <1>1, <1>3, <1>5, Zenon

\* A row that is decided keeps its mark, and is executed only if that is the decision.
LEMMA ResolveFields ==
    ASSUME TypeOK, NEW r \in Row, NEW o, row' = [row EXCEPT ![r] = Resolved(r, o)]
    PROVE  /\ row'[r].status = o /\ row'[r].committed = row[r].committed
           /\ \A s \in Row \ {r} : row'[s] = row[s]
<1>1. PICK k : k = Resolved(r, o)
  OBVIOUS
<1>2. k.status = o /\ k.committed = row[r].committed
  BY <1>1 DEF Resolved, TypeOK, Rows
<1> QED BY <1>1, <1>2 DEF TypeOK

\* No step marks or executes a row whose act has not come that far.
LEMMA RealStep ==
    ASSUME RInv, [Next]_vars, Later, Wired'
    PROVE  MarkIsReal' /\ ExecutedIsOut'
<1> USE ApprovalAssumptions
<1>0. TypeOK /\ \A p \in Proc : call[p].stage # "idle" => call[p].r \in Row
  BY DEF RInv, IInv, TypeOK
<1>1. ASSUME \A r \in Row : /\ row'[r].committed => row[r].committed \/ done' > 0 \/ Sunk'
                            /\ row'[r].status = "executed" => row[r].status = "executed" \/ Out'
      PROVE  MarkIsReal' /\ ExecutedIsOut'
  BY <1>1 DEF RInv, MarkIsReal, ExecutedIsOut, Out, Later
<1>2. CASE row' = row
  BY <1>1, <1>2
<1>3. ASSUME NEW p \in Proc, Enqueue(p) PROVE MarkIsReal' /\ ExecutedIsOut'
  <2>1. PICK new \in Row :
          /\ row[new].status = "none"
          /\ row' = [r \in Row |-> CASE r = new -> Queued
                                     [] r \in Live -> Resolved(r, "stale")
                                     [] OTHER -> row[r]]
    BY <1>3 DEF Enqueue, Fresh, Voided
  <2>2. ASSUME NEW r \in Row
        PROVE  /\ row'[r].committed => row[r].committed
               /\ row'[r].status = "executed" => row[r].status = "executed"
    <3>1. CASE r = new
      <4>1. row'[r] = Queued
        BY <2>1, <3>1 DEF Live
      <4> QED BY <4>1 DEF Queued
    <3>2. CASE r # new /\ r \in Live
      <4>1. row'[r] = Resolved(r, "stale")
        BY <2>1, <3>2
      <4> QED BY <1>0, <4>1, RowFields DEF Decided
    <3>3. CASE r # new /\ r \notin Live
      BY <2>1, <3>3
    <3> QED BY <3>1, <3>2, <3>3
  <2> QED BY <1>1, <2>2
<1>4. ASSUME NEW p \in Proc, NEW r \in Row, NEW o, row' = [row EXCEPT ![r] = Resolved(r, o)],
             o = "executed" => Out'
      PROVE  MarkIsReal' /\ ExecutedIsOut'
  BY <1>0, <1>1, <1>4, ResolveFields
<1>5. ASSUME NEW r \in Row, NEW b \in BOOLEAN, NEW v, Stamps(r, b, v), b => done' > 0 \/ Sunk'
      PROVE  MarkIsReal' /\ ExecutedIsOut'
  <2>1. ASSUME NEW s \in Row
        PROVE  /\ row'[s].committed => row[s].committed \/ done' > 0 \/ Sunk'
               /\ row'[s].status = "executed" => row[s].status = "executed" \/ Out'
    <3>1. CASE s = r
      BY <1>0, <1>5, <3>1, StampFields, Zenon
    <3>2. CASE s # r
      BY <1>0, <1>5, <3>2, StampFields, Zenon
    <3> QED BY <3>1, <3>2
  <2> QED BY <1>1, <2>1
<1>6. ASSUME NEW p \in Proc, MarkStale(p) \/ MarkRejected(p) PROVE MarkIsReal' /\ ExecutedIsOut'
  <2>1. row' = row \/ \E o \in {"stale", "rejected"} : row' = [row EXCEPT ![call[p].r] = Resolved(call[p].r, o)]
    BY <1>6 DEF MarkStale, MarkRejected
  <2> QED BY <1>0, <1>2, <1>4, <1>6, <2>1 DEF MarkStale, MarkRejected
<1>7. ASSUME NEW p \in Proc, Flip(p) PROVE MarkIsReal' /\ ExecutedIsOut'
  <2>1. Out /\ call[p].r \in Row
    BY <1>0, <1>7 DEF Flip, RInv, Standing, Stands, Out
  <2>2. Out'
    BY <2>1 DEF Out, Later
  <2>3. row' = row \/ row' = [row EXCEPT ![call[p].r] = Resolved(call[p].r, "executed")]
    BY <1>7 DEF Flip
  <2> QED BY <1>2, <1>4, <2>1, <2>2, <2>3
<1>8. ASSUME NEW p \in Proc, RunStep(p) PROVE MarkIsReal' /\ ExecutedIsOut'
  <2>1. call[p].r \in Row /\ done' = done + 1 /\ \E v \in Version : Stamps(call[p].r, TRUE, v)
    BY <1>0, <1>8 DEF RunStep, MayRun
  <2>2. done' > 0
    BY <1>0, <2>1 DEF TypeOK
  <2> QED BY <1>5, <2>1, <2>2
<1>9. ASSUME NEW p \in Proc, TransportThrows(p) PROVE MarkIsReal' /\ ExecutedIsOut'
  <2>1. call[p].r \in Row /\ OnWire(p) /\ intent' = intent /\ Moves(p, "refused")
    BY <1>0, <1>9 DEF TransportThrows, OnWire
  <2>2. call'[p].stage = "refused" /\ \A q \in Proc \ {p} : call'[q] = call[q]
    BY <1>0, <2>1, OneMoves
  <2>3. intent /\ \A q \in Proc \ {p} : ~OnWire(q)
    BY <2>1 DEF RInv, Wired
  <2>4. Sunk'
    BY <2>1, <2>2, <2>3 DEF Sunk, OnWire
  <2>5. row' = row \/ Stamps(call[p].r, TRUE, rec)
    BY <1>9 DEF TransportThrows
  <2> QED BY <1>2, <1>5, <2>1, <2>4, <2>5
<1>10. ASSUME NEW p \in Proc, WriteIntent(p) \/ TransportRefuses(p) \/ Refuses(p)
       PROVE  MarkIsReal' /\ ExecutedIsOut'
  <2>1. call[p].r \in Row /\ (row' = row \/ \E v \in Version : Stamps(call[p].r, FALSE, v))
    BY <1>0, <1>10 DEF WriteIntent, TransportRefuses, Refuses, MayRun
  <2> QED BY <1>2, <1>5, <2>1
<1>11. ASSUME NEW p \in Proc,
              \/ Touch(p) \/ Crash(p) \/ Load(p) \/ Judge(p) \/ MarkThrows(p) \/ Completes(p)
              \/ OutcomeUnknown(p) \/ AnswerRefusal(p) \/ Grant(p)
              \/ \E r \in Row : Reject(p, r) \/ \E allow \in BOOLEAN : Approve(p, r, allow)
       PROVE  MarkIsReal' /\ ExecutedIsOut'
  <2>1. row' = row
    BY <1>11 DEF Touch, Crash, Load, Judge, MarkThrows, Completes, OutcomeUnknown, AnswerRefusal, Grant,
                 Reject, Approve, book
  <2> QED BY <1>2, <2>1
<1>12. CASE UNCHANGED vars
  BY <1>2, <1>12 DEF vars, book
<1> QED BY <1>3, <1>6, <1>7, <1>8, <1>9, <1>10, <1>11, <1>12 DEF Next, Work

\* A standing grant is written by a call whose act went through.
LEMMA GrantStep ==
    ASSUME RInv, [Next]_vars, Later, Effect
    PROVE  GrantsOnlyExecuted'
<1>0. TypeOK /\ Granting /\ \A p \in Proc : call[p].stage # "idle" => call[p].r \in Row
  BY DEF RInv, IInv, TypeOK
<1>1. \A r \in Row : row[r].status = "executed" => row'[r].status = "executed"
  BY <1>0, EffectKeeps DEF Decided
<1>2. auto \subseteq Row /\ \A r \in auto : row[r].status = "executed" /\ done = Steps
  BY <1>0 DEF RInv, GrantsOnlyExecuted, TypeOK
<1>3. CASE auto' = auto
  BY <1>1, <1>2, <1>3 DEF GrantsOnlyExecuted, Later
<1>4. ASSUME NEW p \in Proc, Grant(p) PROVE GrantsOnlyExecuted'
  <2>1. /\ auto' = auto \cup {call[p].r} /\ call[p].r \in Row
        /\ row[call[p].r].status = "executed" /\ done = Steps
    BY <1>0, <1>4 DEF Grant, Granting, RInv, Standing, Stands
  <2> QED BY <1>1, <1>2, <2>1 DEF GrantsOnlyExecuted, Later
<1>5. auto' = auto \/ \E p \in Proc : Grant(p)
  BY DEF Next, Work, vars, book, Enqueue, Touch, Crash, Reject, Approve, Load, Judge, MarkStale,
         MarkRejected, RunStep, WriteIntent, TransportRefuses, TransportThrows, MarkThrows, Refuses,
         Completes, OutcomeUnknown, AnswerRefusal, Flip
<1> QED BY <1>3, <1>4, <1>5

\* Rows, calls and the send agree in every reachable state.
LEMMA RealInvariant == Spec => []RInv
<1>1. Init => Wired /\ Standing /\ MarkIsReal /\ ExecutedIsOut /\ GrantsOnlyExecuted
  <2> SUFFICES ASSUME Init PROVE Wired /\ Standing /\ MarkIsReal /\ ExecutedIsOut /\ GrantsOnlyExecuted
    OBVIOUS
  <2>1. \A p \in Proc : call[p] = Idle
    BY DEF Init
  <2>2. \A r \in Row : row[r].status = "none" /\ ~row[r].committed
    BY DEF Init, Unqueued
  <2>3. Stands(Idle)
    BY Begun DEF Stands
  <2>4. Wired /\ Standing
    BY <2>1, <2>3, Begun DEF Wired, OnWire, Standing, Init
  <2> QED BY <2>2, <2>4 DEF MarkIsReal, ExecutedIsOut, GrantsOnlyExecuted, Init
<1>2. RInv /\ [Next]_vars /\ IInv' => RInv'
  <2> SUFFICES ASSUME RInv, [Next]_vars, IInv' PROVE RInv'
    OBVIOUS
  <2>1. Effect
    BY StepEffect DEF RInv, IInv
  <2>2. Wired' /\ Later
    BY WireStep
  <2>3. Standing' /\ MarkIsReal' /\ ExecutedIsOut' /\ GrantsOnlyExecuted'
    BY <2>1, <2>2, StandStep, RealStep, GrantStep
  <2> QED BY <2>2, <2>3 DEF RInv
<1>3. RInv <=> IInv /\ Wired /\ Standing /\ MarkIsReal /\ ExecutedIsOut /\ GrantsOnlyExecuted
  BY DEF RInv
<1>4. Init /\ IInv => RInv
  BY <1>1, <1>3
<1> QED BY <1>2, <1>4, Invariant, PTL DEF Spec

\* A row that reads executed had its act run to the end, or to an outcome nobody knows, and a standing
\* grant rests on the first alone (approveOnce), for any number of processes, proposals and steps.
THEOREM ExecutionIsReal == Spec => []ExecutedIsReal
<1>1. RInv => ExecutedIsReal
  BY DEF RInv, ExecutedIsOut, Out, Sunk, ExecutedIsReal, ExecutedRanOut
<1> QED BY <1>1, RealInvariant, PTL

-----------------------------------------------------------------------------
(* The inbox implements Decision *)

\* How the questions stand.
Status == [r \in Row |-> row[r].status]
Quiet == Status' = Status /\ done' = done /\ ran' = ran /\ auto' = auto

\* A step that decides a row closes its question.
LEMMA ClosesOne ==
    ASSUME TypeOK, NEW r \in Row, NEW o \in Decided, row' = [row EXCEPT ![r] = Resolved(r, o)]
    PROVE  Status' = [Status EXCEPT ![r] = o]
<1>1. row'[r].status = o /\ \A s \in Row \ {r} : row'[s] = row[s]
  BY ResolveFields, Zenon
<1>2. \A s \in Row : row'[s].status = IF s = r THEN o ELSE row[s].status
  BY <1>1
<1> QED BY <1>2 DEF Status

\* A step that stamps a row leaves the questions as they are.
LEMMA StampsNone ==
    ASSUME TypeOK, NEW r \in Row, NEW b \in BOOLEAN, NEW v, Stamps(r, b, v)
    PROVE  Status' = Status
<1>1. row'[r].status = row[r].status /\ \A s \in Row \ {r} : row'[s] = row[s]
  BY StampFields
<1> QED BY <1>1 DEF Status

\* Every step of every process is one act of Decision, or none.
LEMMA StepDecides ==
    ASSUME RInv, [Next]_vars
    PROVE  [D!Next]_(D!vars)
<1> USE ApprovalAssumptions
<1>0. /\ TypeOK /\ Wired /\ Standing /\ ExecutedIsOut /\ Granting /\ Marked
      /\ \A p \in Proc : call[p].stage # "idle" => call[p].r \in Row
  BY DEF RInv, IInv, TypeOK
<1>1. ASSUME Quiet, Sunk' = Sunk PROVE [D!Next]_(D!vars)
  BY <1>1 DEF Quiet, Status, D!vars
<1>2. ASSUME NEW p \in Proc, Calm(p), ~OnWire(p) PROVE Sunk' = Sunk
  BY <1>2 DEF Calm, Sunk, OnWire
<1>3. ASSUME NEW p \in Proc, Calm(p), Quiet PROVE [D!Next]_(D!vars)
  <2>1. CASE ~OnWire(p)
    BY <1>1, <1>2, <1>3, <2>1
  <2>2. CASE OnWire(p)
    <3>1. intent /\ done = 0 /\ ~Sunk /\ \A q \in Proc \ {p} : ~OnWire(q)
      BY <1>0, <2>2 DEF Wired, SendsNext, Sunk
    <3>2. Sunk'
      BY <1>3, <3>1 DEF Calm, Sunk, OnWire
    <3>3. D!Lose
      BY <1>3, <3>1, <3>2 DEF D!Lose, Quiet, Status
    <3> QED BY <3>3 DEF D!Next
  <2> QED BY <2>1, <2>2
<1>4. ASSUME NEW p \in Proc, Enqueue(p) PROVE [D!Next]_(D!vars)
  <2>1. PICK new \in Row :
          /\ row[new].status = "none"
          /\ row' = [r \in Row |-> CASE r = new -> Queued
                                     [] r \in Live -> Resolved(r, "stale")
                                     [] OTHER -> row[r]]
    BY <1>4 DEF Enqueue, Fresh, Voided
  <2>2. \A s \in Row : row[s].status \in {"none", "pending", "stale"}
    BY <1>4 DEF Enqueue, Live, Void
  <2>3. ASSUME NEW s \in Row
        PROVE  row'[s].status = IF s = new THEN "pending"
                                ELSE IF row[s].status = "pending" THEN "stale" ELSE row[s].status
    <3>1. CASE s = new
      <4>1. row'[s] = Queued
        BY <2>1, <3>1 DEF Live
      <4> QED BY <3>1, <4>1 DEF Queued
    <3>2. CASE s # new /\ s \in Live
      <4>1. row'[s] = Resolved(s, "stale") /\ row[s].status = "pending"
        BY <2>1, <2>2, <3>2 DEF Live
      <4>2. row'[s].status = "stale"
        BY <1>0, <4>1, RowFields DEF Decided
      <4> QED BY <3>2, <4>1, <4>2
    <3>3. CASE s # new /\ s \notin Live
      <4>1. row'[s] = row[s] /\ row[s].status # "pending"
        BY <2>1, <3>3 DEF Live
      <4> QED BY <3>3, <4>1
    <3> QED BY <3>1, <3>2, <3>3
  <2>4. Status' = [s \in Row |-> IF s = new THEN "pending"
                                 ELSE IF Status[s] = "pending" THEN "stale" ELSE Status[s]]
    BY <2>3 DEF Status
  <2>5. done' = done /\ ran' = ran /\ auto' = auto /\ Sunk' = Sunk
    BY <1>4 DEF Enqueue, Sunk, OnWire
  <2>6. D!Ask
    BY <2>1, <2>2, <2>4, <2>5 DEF D!Ask, Status
  <2> QED BY <2>6 DEF D!Next
<1>5. ASSUME NEW p \in Proc, Touch(p) PROVE [D!Next]_(D!vars)
  BY <1>1, <1>5 DEF Touch, Quiet, Status, Sunk, OnWire
<1>6. ASSUME NEW r \in Row, NEW o \in Decided,
             row' = [row EXCEPT ![r] = Resolved(r, o)], row[r].status = "pending",
             o = "rejected" => ~row[r].committed, o = "executed" => Out,
             done' = done, ran' = ran, auto' = auto, Sunk' = Sunk
      PROVE  [D!Next]_(D!vars)
  <2>1. Status' = [Status EXCEPT ![r] = o]
    BY <1>0, <1>6, ClosesOne
  <2>2. o = "rejected" => ran[r] = {}
    BY <1>0, <1>6 DEF Marked
  <2>3. D!Close
    BY <1>6, <2>1, <2>2 DEF D!Close, Status, Decided, Out
  <2> QED BY <2>3 DEF D!Next
<1>7. ASSUME NEW p \in Proc, MarkStale(p) \/ MarkRejected(p) \/ Flip(p) PROVE [D!Next]_(D!vars)
  <2>1. call[p].r \in Row /\ Sunk' = Sunk
    <3>1. Calm(p) /\ ~OnWire(p)
      BY <1>0, <1>7, Drives DEF MarkStale, MarkRejected, Flip, OnWire
    <3> QED BY <1>0, <1>2, <1>7, <3>1 DEF MarkStale, MarkRejected, Flip
  <2>2. done' = done /\ ran' = ran /\ auto' = auto
    BY <1>7 DEF MarkStale, MarkRejected, Flip
  <2>3. CASE row' = row
    BY <1>1, <2>1, <2>2, <2>3 DEF Quiet, Status
  <2>4. CASE row' # row
    <3>1. \E o \in Decided : /\ row' = [row EXCEPT ![call[p].r] = Resolved(call[p].r, o)]
                             /\ row[call[p].r].status = "pending"
                             /\ o = "rejected" => ~row[call[p].r].committed
                             /\ o = "executed" => Out
      <4>1. CASE MarkStale(p)
        BY <2>4, <4>1 DEF MarkStale, Unmoved, Decided
      <4>2. CASE MarkRejected(p)
        BY <2>4, <4>2 DEF MarkRejected, Rejectable, Decided
      <4>3. CASE Flip(p)
        <5>1. Out
          BY <1>0, <4>3 DEF Flip, Standing, Stands, Out
        <5> QED BY <2>4, <4>3, <5>1 DEF Flip, Flippable, Decided
      <4> QED BY <1>7, <4>1, <4>2, <4>3
    <3> QED BY <1>6, <2>1, <2>2, <3>1
  <2> QED BY <2>3, <2>4
<1>8. ASSUME NEW p \in Proc, RunStep(p) PROVE [D!Next]_(D!vars)
  <2>1. PICK r \in Row : r = call[p].r
    BY <1>0, <1>8 DEF RunStep, MayRun
  <2>2. PICK v \in Version : Stamps(r, TRUE, v)
    BY <1>8, <2>1 DEF RunStep
  <2>3. Status' = Status
    BY <1>0, <2>2, StampsNone
  <2>4. /\ done < Steps /\ done' = done + 1 /\ ~Sunk /\ ~Sunk' /\ auto' = auto
        /\ ran' = [ran EXCEPT ![r] = @ \cup {done + 1}]
    BY <1>8, <2>1 DEF RunStep, MayRun, Sunk, OnWire
  <2>5. row[r].status = "pending"
    BY <1>0, <1>8, <2>1, <2>4 DEF RunStep, Stampable, ExecutedIsOut, Out
  <2>6. \E s \in Row : Status[s] = "pending" /\ ran' = [ran EXCEPT ![s] = @ \cup {done + 1}]
    BY <2>4, <2>5 DEF Status
  <2>7. Sunk' = Sunk
    BY <2>4 DEF Sunk
  <2>8. D!Run
    BY <2>3, <2>4, <2>6, <2>7 DEF D!Run, Status
  <2> QED BY <2>8 DEF D!Next
<1>9. ASSUME NEW p \in Proc, WriteIntent(p) PROVE [D!Next]_(D!vars)
  <2>1. PICK r \in Row : r = call[p].r
    BY <1>0, <1>9 DEF WriteIntent, MayRun
  <2>2. PICK v \in Version : Stamps(r, FALSE, v)
    BY <1>9, <2>1 DEF WriteIntent
  <2>3. ~intent /\ Moves(p, "wire") /\ done' = done /\ ran' = ran /\ auto' = auto
    BY <1>9 DEF WriteIntent, MayRun
  <2>4. call'[p].stage = "wire"
    BY <1>0, <2>3, OneMoves
  <2> QED BY <1>0, <1>1, <2>2, <2>3, <2>4, StampsNone DEF Quiet, Sunk, OnWire
<1>10. ASSUME NEW p \in Proc, TransportRefuses(p) PROVE [D!Next]_(D!vars)
  <2>1. PICK r \in Row : r = call[p].r
    BY <1>0, <1>10 DEF TransportRefuses
  <2>2. PICK v \in Version : Stamps(r, FALSE, v)
    BY <1>10, <2>1 DEF TransportRefuses
  <2>3. OnWire(p) /\ intent' = FALSE /\ done' = done /\ ran' = ran /\ auto' = auto
    BY <1>10 DEF TransportRefuses, OnWire
  <2> QED BY <1>0, <1>1, <2>2, <2>3, StampsNone DEF Quiet, Sunk
<1>11. ASSUME NEW p \in Proc, TransportThrows(p) \/ Refuses(p) PROVE [D!Next]_(D!vars)
  <2>1. PICK r \in Row : r = call[p].r
    BY <1>0, <1>11 DEF TransportThrows, Refuses, MayRun
  <2>2. row' = row \/ \E b \in BOOLEAN, v \in Version \cup {rec} : Stamps(r, b, v)
    BY <1>11, <2>1 DEF TransportThrows, Refuses
  <2>3. Status' = Status
    BY <1>0, <2>2, StampsNone DEF Status
  <2>4. Calm(p) /\ done' = done /\ ran' = ran /\ auto' = auto
    BY <1>0, <1>11, Drives DEF TransportThrows, Refuses
  <2> QED BY <1>3, <2>3, <2>4 DEF Quiet
<1>12. ASSUME NEW p \in Proc,
              \/ Crash(p) \/ Load(p) \/ Judge(p) \/ MarkThrows(p) \/ Completes(p) \/ OutcomeUnknown(p)
              \/ AnswerRefusal(p) \/ \E r \in Row : Reject(p, r) \/ \E allow \in BOOLEAN : Approve(p, r, allow)
       PROVE  [D!Next]_(D!vars)
  <2>1. row' = row /\ done' = done /\ ran' = ran /\ auto' = auto
    BY <1>12 DEF Crash, Load, Judge, MarkThrows, Completes, OutcomeUnknown, AnswerRefusal, Reject, Approve, book
  <2>2. Calm(p) /\ Quiet
    BY <1>0, <1>12, <2>1, Drives DEF Quiet, Status
  <2> QED BY <1>3, <2>2
<1>13. ASSUME NEW p \in Proc, Grant(p) PROVE [D!Next]_(D!vars)
  <2>1. PICK r \in Row : r = call[p].r
    BY <1>0, <1>13 DEF Grant
  <2>2. row[r].status = "executed" /\ done = Steps
    BY <1>0, <1>13, <2>1 DEF Grant, Granting, Standing, Stands
  <2>3. auto' = auto \cup {r} /\ row' = row /\ done' = done /\ ran' = ran
    BY <1>13, <2>1 DEF Grant
  <2>4. Calm(p) /\ ~OnWire(p)
    BY <1>0, <1>13, Drives DEF Grant, OnWire
  <2>5. Sunk' = Sunk
    BY <1>2, <2>4
  <2>6. D!Grant
    BY <2>2, <2>3, <2>5 DEF D!Grant, Status
  <2> QED BY <2>6 DEF D!Next
<1>14. CASE UNCHANGED vars
  BY <1>1, <1>14 DEF vars, book, Quiet, Status, Sunk, OnWire
<1> QED BY <1>4, <1>5, <1>7, <1>8, <1>9, <1>10, <1>11, <1>12, <1>13, <1>14 DEF Next, Work

\* The drafted actions of one verb under one key, whatever races, refuses and dies, are what Decision
\* says: asked one at a time, closed once, run in turn under an open question and settled truly.
THEOREM InboxImplementsDecision == Spec => DecisionSpec
<1>1. Init => D!Init
  <2> SUFFICES ASSUME Init PROVE D!Init
    OBVIOUS
  <2>1. \A r \in Row : row[r].status = "none"
    BY DEF Init, Unqueued
  <2>2. ~Sunk
    BY DEF Init, Sunk
  <2> QED BY <2>1, <2>2 DEF Init, D!Init
<1>2. RInv /\ [Next]_vars => [D!Next]_(D!vars)
  BY StepDecides
<1> QED BY <1>1, <1>2, RealInvariant, PTL DEF Spec, DecisionSpec, D!Spec

-----------------------------------------------------------------------------
(* One process *)

\* One process has the book open, and runs one call at a time.
Alone == \A p, q \in Proc : p = q

\* The record is as the row's person approved it, or as the act's last transaction left it.
Pinned(r) == rec \in {row[r].pin, row[r].leaves}

\* A call judges its row on the mark as it is, and goes on only with the record it judged.
Own(c) ==
    /\ c.stage = "judge" => c.leaves = row[c.r].leaves
    /\ c.stage \in {"replay", "wire"} => done = Steps \/ Pinned(c.r)
Owning == \A p \in Proc : Own(call[p])

\* The only call there is goes on in a stage that relies on nothing, or relies on what it just did.
LEMMA OwnStep ==
    ASSUME Alone, TypeOK, Owning, [Next]_vars
    PROVE  Owning'
<1> USE ApprovalAssumptions
<1>0. \A p \in Proc : Own(call[p]) /\ (call[p].stage # "idle" => call[p].r \in Row)
  BY DEF Owning, TypeOK
<1>1. ASSUME NEW p \in Proc, NEW c, call'[p] = c, Own(c)' PROVE Owning'
  <2>1. \A q \in Proc : call'[q] = c
    BY <1>1 DEF Alone
  <2> QED BY <1>1, <2>1 DEF Owning
<1>2. ASSUME NEW p \in Proc, call'[p].stage \notin {"judge", "replay", "wire"} PROVE Owning'
  <2>1. PICK c : c = call'[p]
    OBVIOUS
  <2>2. Own(c)'
    BY <1>2, <2>1 DEF Own
  <2> QED BY <1>1, <2>1, <2>2
<1>3. ASSUME NEW p \in Proc, NEW s, Moves(p, s), s # "judge",
             NEW r, r = call[p].r, s \in {"replay", "wire"} => Pinned(r)'
      PROVE  Owning'
  <2>1. PICK c : c = call'[p]
    OBVIOUS
  <2>2. c.stage = s /\ c.r = r
    BY <1>3, <2>1, OneMoves
  <2>3. Own(c)'
    BY <1>3, <2>2 DEF Own, Pinned
  <2> QED BY <1>1, <2>1, <2>3
<1>4. ASSUME NEW p \in Proc, Enqueue(p) \/ Touch(p) PROVE Owning'
  <2>1. call' = call /\ call[p].stage = "idle"
    BY <1>4 DEF Enqueue, Touch
  <2> QED BY <1>2, <2>1
<1>5. ASSUME NEW p \in Proc,
             \/ Goes(p, Idle)
             \/ LosesRace(p)
             \/ \E r \in Row : Reject(p, r) \/ \E allow \in BOOLEAN : Approve(p, r, allow)
      PROVE  Owning'
  <2>1. call'[p].stage \in {"idle", "load"}
    BY <1>5, Restarts
  <2> QED BY <1>2, <2>1
<1>6. ASSUME NEW p \in Proc, Load(p) PROVE Owning'
  <2>1. PICK j : j = [call[p] EXCEPT !.stage = "judge", !.committed = row[call[p].r].committed,
                                     !.leaves = row[call[p].r].leaves]
    OBVIOUS
  <2>2. j.stage = "judge" /\ j.leaves = row[call[p].r].leaves /\ j.r = call[p].r
    BY <2>1 DEF TypeOK, CallStates
  <2>3. Goes(p, j) \/ Moves(p, "reject") \/ Goes(p, Idle)
    BY <1>6, <2>1, Zenon DEF Load, Tells
  <2>4. CASE Goes(p, j)
    <3>1. row' = row
      BY <1>6 DEF Load, book
    <3>2. Own(j)'
      BY <2>2, <3>1 DEF Own
    <3> QED BY <1>1, <2>4, <3>2, OneGoes
  <2> QED BY <1>3, <1>5, <2>3, <2>4
<1>7. ASSUME NEW p \in Proc, Judge(p) PROVE Owning'
  <2>1. row' = row /\ rec' = rec /\ done' = done /\ call[p].leaves = row[call[p].r].leaves
    BY <1>0, <1>7 DEF Judge, book, Own
  <2>2. CASE Moves(p, "void")
    BY <1>3, <2>2
  <2>3. CASE Moves(p, "replay") /\ Settleable(row[call[p].r].pin, call[p].leaves)
    <3>1. PICK c : c = call'[p]
      OBVIOUS
    <3>2. c.stage = "replay" /\ c.r = call[p].r
      BY <2>3, <3>1, OneMoves
    <3>3. done = Steps \/ Pinned(c.r)
      BY <2>1, <2>3, <3>2 DEF Settleable, Pinned
    <3>4. Own(c)'
      BY <2>1, <3>2, <3>3 DEF Own, Pinned
    <3> QED BY <1>1, <3>1, <3>4
  <2> QED BY <1>7, <2>2, <2>3 DEF Judge
<1>8. ASSUME NEW p \in Proc, RunStep(p) \/ WriteIntent(p) PROVE Owning'
  <2>1. /\ call[p].r \in Row /\ \E b \in BOOLEAN, v \in Version : Stamps(call[p].r, b, v)
        /\ \E s \in {"replay", "wire"} : Moves(p, s)
    BY <1>0, <1>8 DEF RunStep, WriteIntent, MayRun
  <2>2. PICK b \in BOOLEAN, v \in Version : Stamps(call[p].r, b, v)
    BY <2>1
  <2>3. PICK r : r = call[p].r
    OBVIOUS
  <2>4. rec' = v /\ row'[r].leaves = v
    <3>1. Stamps(r, b, v) /\ r \in Row
      BY <2>1, <2>2, <2>3
    <3> QED BY <3>1, StampFields DEF Stamps
  <2>5. Pinned(r)'
    BY <2>4 DEF Pinned
  <2> QED BY <1>3, <2>1, <2>3, <2>5
<1>9. ASSUME NEW p \in Proc,
             \/ Crash(p) \/ MarkStale(p) \/ MarkRejected(p) \/ TransportRefuses(p) \/ TransportThrows(p)
             \/ MarkThrows(p) \/ Refuses(p) \/ Completes(p) \/ AnswerRefusal(p) \/ Flip(p) \/ Grant(p)
      PROVE  Owning'
  <2>1. \/ Goes(p, Idle) \/ LosesRace(p)
        \/ \E s \in Stages \ {"judge", "replay", "wire"} : Moves(p, s)
    BY <1>9 DEF Crash, MarkStale, MarkRejected, TransportRefuses, TransportThrows, MarkThrows, Refuses,
                Completes, AnswerRefusal, Flip, Grant, Tells, Stages
  <2> QED BY <1>3, <1>5, <2>1
<1>10. ASSUME NEW p \in Proc, OutcomeUnknown(p) PROVE Owning'
  <2>1. PICK s : s = IF call[p].committed THEN "flip" ELSE "refused"
    OBVIOUS
  <2>2. PICK c : c = [call[p] EXCEPT !.stage = s, !.unknown = TRUE]
    OBVIOUS
  <2>3. c.stage = s
    BY <2>2 DEF TypeOK, CallStates
  <2>4. Goes(p, c)
    BY <1>10, <2>1, <2>2 DEF OutcomeUnknown
  <2> QED BY <1>2, <2>1, <2>3, <2>4, OneGoes
<1>11. CASE UNCHANGED vars
  <2>1. ASSUME NEW p \in Proc PROVE Own(call[p])'
    <3>1. PICK c : c = call[p]
      OBVIOUS
    <3> QED BY <1>0, <1>11, <3>1 DEF Own, Pinned, vars, book
  <2> QED BY <2>1 DEF Owning
<1> QED BY <1>4, <1>5, <1>6, <1>7, <1>8, <1>9, <1>10, <1>11 DEF Next, Work

\* The act runs on nothing but what the person approved, or what its own earlier steps left: with one
\* process open, nobody else can rewrite the record between the judgement and the step.
THEOREM ApprovedIsWhatRuns ==
    ASSUME Alone
    PROVE  Spec => RunsWhatWasApproved
<1>1. Init => Owning
  <2> SUFFICES ASSUME Init PROVE Owning
    OBVIOUS
  <2>1. Own(Idle)
    BY Begun DEF Own
  <2> QED BY <2>1 DEF Owning, Init
<1>2. IInv /\ Owning /\ [Next]_vars => Owning'
  BY OwnStep DEF IInv
<1>3. IInv /\ Owning /\ [Next]_vars
      => [\A r \in Row : ran'[r] # ran[r] => rec \in {row[r].pin, row[r].leaves}]_ran
  <2> SUFFICES ASSUME IInv, Owning, [Next]_vars, NEW r \in Row, ran'[r] # ran[r]
               PROVE  rec \in {row[r].pin, row[r].leaves}
    OBVIOUS
  <2>1. PICK p \in Proc : RunStep(p)
    BY DEF Next, Work, vars, book, Enqueue, Touch, Crash, Reject, Approve, Load, Judge, MarkStale,
           MarkRejected, WriteIntent, TransportRefuses, TransportThrows, MarkThrows, Refuses,
           Completes, OutcomeUnknown, AnswerRefusal, Flip, Grant
  <2>2. r = call[p].r /\ done < Steps /\ call[p].stage \in {"replay", "wire"}
    BY <2>1 DEF RunStep, MayRun, IInv, TypeOK
  <2>3. Pinned(r)
    BY <2>2, ApprovalAssumptions DEF Owning, Own, IInv, TypeOK
  <2> QED BY <2>3 DEF Pinned
<1> QED BY <1>1, <1>2, <1>3, Invariant, PTL DEF Spec, RunsWhatWasApproved

-----------------------------------------------------------------------------
(* Every call is on its way to an answer *)

\* A row that can still be rejected.
Open(r) == row[r].status = "pending" /\ ~row[r].committed

\* How many of its own steps a call in state c can still take, at the most.
Left(c) ==
    CASE c.stage = "idle" -> 0
      [] c.stage = "reject" -> 3
      [] c.stage = "load" /\ ~c.approves -> IF Open(c.r) THEN 4 ELSE 2
      [] OTHER -> (IF c.retried THEN 0 ELSE 2 * Steps + 5) +
                  CASE c.stage = "load" -> 2 * Steps + 6
                    [] c.stage = "judge" -> 2 * Steps + 5
                    [] c.stage = "replay" -> 2 * (Steps - done) + 4
                    [] c.stage = "wire" -> 2 * (Steps - done) + 3
                    [] c.stage = "grant" -> 1
                    [] OTHER -> 2
Budget(p) == Left(call[p])

\* Whoever commits what in between, a call comes nearer to its answer with each step of its own, and no
\* step of another process takes it further away.
CallsShorten ==
    [][\A p \in Proc : call[p].stage # "idle" =>
         IF Work(p) \/ Crash(p) THEN Budget(p)' < Budget(p) ELSE Budget(p)' <= Budget(p)]_vars

\* Only a rejection goes on to reject.
Refuting == \A p \in Proc : call[p].stage = "reject" => ~call[p].approves

\* What the world can do to a call's budget: steps are committed, open rows are closed.
Narrows ==
    /\ done' \in done..Steps
    /\ \A r \in Row : row[r].status # "none" /\ Open(r)' => Open(r)

\* What a call has left is a number.
LEMMA LeftNat ==
    ASSUME TypeOK, NEW c \in CallStates
    PROVE  Left(c) \in Nat
<1>1. done \in 0..Steps /\ Steps \in Nat /\ c.stage \in Stages /\ c.retried \in BOOLEAN /\ c.approves \in BOOLEAN
  BY ApprovalAssumptions DEF TypeOK, CallStates
<1> QED BY <1>1 DEF Left

\* What other processes do takes no call further away from its answer.
LEMMA LeftFalls ==
    ASSUME TypeOK, Narrows, NEW c \in CallStates, c.stage # "idle" => c.r \in Row /\ row[c.r].status # "none"
    PROVE  Left(c)' <= Left(c)
<1> USE ApprovalAssumptions
<1>1. done \in 0..Steps /\ done' \in done..Steps /\ Steps \in Nat
  BY DEF TypeOK, Narrows
<1>2. c.stage \in Stages /\ c.retried \in BOOLEAN /\ c.approves \in BOOLEAN
  BY DEF CallStates
<1>3. c.stage # "idle" /\ Open(c.r)' => Open(c.r)
  BY DEF Narrows
<1>4. CASE c.stage = "load" /\ ~c.approves
  BY <1>3, <1>4 DEF Left
<1>5. CASE c.stage \in {"idle", "reject"}
  BY <1>5 DEF Left
<1>6. CASE c.stage \notin {"idle", "reject"} /\ (c.stage = "load" => c.approves)
  BY <1>1, <1>2, <1>6 DEF Left
<1> QED BY <1>4, <1>5, <1>6

\* No step takes a commit back, or opens a row again.
LEMMA Narrowing ==
    ASSUME TypeOK, Effect, [Next]_vars
    PROVE  Narrows
<1> USE ApprovalAssumptions
<1>1. done' = done \/ \E p \in Proc : RunStep(p)
  BY DEF Next, Work, vars, book, Enqueue, Touch, Crash, Reject, Approve, Load, Judge, MarkStale,
         MarkRejected, WriteIntent, TransportRefuses, TransportThrows, MarkThrows, Refuses,
         Completes, OutcomeUnknown, AnswerRefusal, Flip, Grant
<1>2. done' \in done..Steps
  <2>1. done \in 0..Steps /\ Steps \in Nat
    BY DEF TypeOK
  <2>2. done' = done \/ (done' = done + 1 /\ done < Steps)
    BY <1>1 DEF RunStep, MayRun
  <2> QED BY <2>1, <2>2
<1>3. ASSUME NEW r \in Row, row[r].status # "none", row[r].committed PROVE row'[r].committed
  <2>1. CASE Keeps
    BY <1>3, <2>1 DEF Keeps
  <2>2. CASE Mints
    <3>1. PICK new \in Row :
            /\ row[new].status = "none"
            /\ row' = [s \in Row |-> CASE s = new -> Queued
                                       [] s \in Live -> Resolved(s, "stale")
                                       [] OTHER -> row[s]]
      BY <2>2 DEF Mints
    <3>2. r # new
      BY <1>3, <3>1
    <3>3. row'[r] = IF r \in Live THEN Resolved(r, "stale") ELSE row[r]
      BY <3>1, <3>2
    <3>4. Resolved(r, "stale").committed = row[r].committed
      BY RowFields DEF Decided
    <3> QED BY <1>3, <3>3, <3>4
  <2>3. ASSUME NEW s \in Row, NEW o \in Decided, Decides(s, o) PROVE row'[r].committed
    <3>1. row' = [row EXCEPT ![s] = Resolved(s, o)]
      BY <2>3 DEF Decides
    <3>2. row'[s].committed = row[s].committed /\ \A t \in Row \ {s} : row'[t] = row[t]
      BY <3>1, ResolveFields, Zenon
    <3> QED BY <1>3, <3>2
  <2>4. ASSUME NEW s \in Row, NEW b \in BOOLEAN, NEW v \in Version, Marks(s, b, v) PROVE row'[r].committed
    <3>1. row' = [row EXCEPT ![s] = Stamped(s, b, v)]
      BY <2>4 DEF Marks
    <3>2. row[s].committed => Stamped(s, b, v).committed
      BY RowFields, Zenon
    <3>3. row'[r] = IF r = s THEN Stamped(s, b, v) ELSE row[r]
      BY <3>1 DEF TypeOK
    <3> QED BY <1>3, <3>2, <3>3
  <2> QED BY <2>1, <2>2, <2>3, <2>4 DEF Effect
<1>4. ASSUME NEW r \in Row, row[r].status # "none", Open(r)' PROVE Open(r)
  <2>1. row[r].status \in Decided => row'[r].status = row[r].status
    BY EffectKeeps
  <2>2. row[r].status = "pending" \/ row[r].status \in Decided
    BY <1>4 DEF TypeOK, Rows
  <2> QED BY <1>3, <1>4, <2>1, <2>2 DEF Open, Decided
<1> QED BY <1>2, <1>4 DEF Narrows

\* A call that moves to another stage keeps whose it is, and for what.
LEMMA MovesOn ==
    ASSUME TypeOK, NEW p \in Proc, NEW s, Moves(p, s), NEW c, c = call'[p]
    PROVE  c.stage = s /\ c.approves = call[p].approves /\ c.retried = call[p].retried /\ c.r = call[p].r
<1>1. PICK d : d = [call[p] EXCEPT !.stage = s]
  OBVIOUS
<1>2. c = d
  BY <1>1, OneGoes DEF Moves
<1>3. d.stage = s /\ d.approves = call[p].approves /\ d.retried = call[p].retried /\ d.r = call[p].r
  BY <1>1 DEF TypeOK, CallStates
<1> QED BY <1>2, <1>3

\* A lost race ends the call, or starts it again for the last time.
LEMMA Retries ==
    ASSUME TypeOK, NEW p \in Proc, LosesRace(p), NEW c, c = call'[p]
    PROVE  \/ c = Idle
           \/ ~call[p].retried /\ c.stage = "load" /\ c.approves /\ c.retried /\ c.r = call[p].r
<1>1. CASE call[p].retried
  BY <1>1, OneGoes DEF LosesRace
<1>2. CASE ~call[p].retried
  <2>1. PICK d : d = [Idle EXCEPT !.stage = "load", !.approves = TRUE, !.r = call[p].r,
                                  !.allow = call[p].allow, !.retried = TRUE]
    OBVIOUS
  <2>2. c = d
    BY <1>2, <2>1, OneGoes DEF LosesRace
  <2>3. d.stage = "load" /\ d.approves /\ d.retried /\ d.r = call[p].r
    BY <2>1 DEF Idle
  <2> QED BY <1>2, <2>2, <2>3
<1> QED BY <1>1, <1>2

\* Each step of the call's own takes from its budget.
LEMMA WorkShortens ==
    ASSUME TypeOK, Called, Refuting, Narrows, NEW p \in Proc, Work(p) \/ Crash(p)
    PROVE  Budget(p)' < Budget(p)
<1> USE ApprovalAssumptions
<1>1. PICK b : b = call[p]
  OBVIOUS
<1>2. PICK c : c = call'[p]
  OBVIOUS
<1>3. b.stage # "idle" /\ b \in CallStates /\ b.r \in Row
  <2>1. b.stage # "idle"
    BY <1>1 DEF Work, Crash, Load, Judge, MarkStale, MarkRejected, RunStep, MayRun, WriteIntent,
                TransportRefuses, TransportThrows, MarkThrows, Refuses, Completes, OutcomeUnknown,
                AnswerRefusal, Flip, Grant
  <2> QED BY <1>1, <2>1 DEF TypeOK
<1>4. /\ done \in 0..Steps /\ done' \in done..Steps /\ Steps \in Nat
      /\ b.retried \in BOOLEAN /\ b.approves \in BOOLEAN /\ b.stage \in Stages
  BY <1>3 DEF TypeOK, Narrows, CallStates
<1>5. ASSUME Left(c)' < Left(b) PROVE Budget(p)' < Budget(p)
  BY <1>1, <1>2, <1>5 DEF Budget
<1>6. Left(b) \in Nat /\ Left(b) > 0
  BY <1>3, <1>4 DEF Left, Stages
<1>7. ASSUME c.stage = "idle" PROVE Budget(p)' < Budget(p)
  BY <1>5, <1>6, <1>7 DEF Left
<1>8. ASSUME Goes(p, Idle) PROVE Budget(p)' < Budget(p)
  BY <1>2, <1>7, <1>8, OneGoes, Begun
<1>9. ASSUME LosesRace(p), b.stage \in {"void", "refused", "flip"} PROVE Budget(p)' < Budget(p)
  <2>1. \/ c = Idle
        \/ ~b.retried /\ c.stage = "load" /\ c.approves /\ c.retried
    BY <1>1, <1>2, <1>9, Retries
  <2>2. CASE c = Idle
    BY <1>7, <2>2, Begun
  <2>3. CASE ~b.retried /\ c.stage = "load" /\ c.approves /\ c.retried
    <3>1. Left(c)' = 2 * Steps + 6
      BY <1>4, <2>3 DEF Left
    <3>2. Left(b) = 2 * Steps + 7
      BY <1>4, <1>9, <2>3 DEF Left
    <3> QED BY <1>4, <1>5, <3>1, <3>2
  <2> QED BY <2>1, <2>2, <2>3
<1>10. ASSUME NEW s, Moves(p, s)
       PROVE  c.stage = s /\ c.approves = b.approves /\ c.retried = b.retried /\ c.r = b.r
  BY <1>1, <1>2, <1>10, MovesOn
<1>11. ASSUME c.stage \in {"void", "refused", "flip"}, c.retried = b.retried,
              b.stage \in {"judge", "replay", "wire"}
       PROVE  Budget(p)' < Budget(p)
  <2>1. Left(c)' = (IF b.retried THEN 0 ELSE 2 * Steps + 5) + 2
    BY <1>4, <1>11 DEF Left
  <2>2. Left(b) >= (IF b.retried THEN 0 ELSE 2 * Steps + 5) + 3
    BY <1>4, <1>11 DEF Left
  <2> QED BY <1>4, <1>5, <1>6, <2>1, <2>2
<1>12. CASE Load(p)
  <2>1. PICK j : j = [call[p] EXCEPT !.stage = "judge", !.committed = row[call[p].r].committed,
                                     !.leaves = row[call[p].r].leaves]
    OBVIOUS
  <2>2. \/ Goes(p, Idle)
        \/ b.approves /\ Goes(p, j)
        \/ ~b.approves /\ Open(b.r) /\ Moves(p, "reject")
    BY <1>1, <1>12, <2>1, Zenon DEF Load, Tells, Refutable, Open
  <2>3. CASE b.approves /\ Goes(p, j)
    <3>1. j.stage = "judge" /\ j.retried = b.retried
      BY <1>1, <2>1 DEF TypeOK, CallStates
    <3>2. c = j /\ b.stage = "load"
      BY <1>1, <1>2, <1>12, <2>3, OneGoes DEF Load
    <3>3. Left(c)' = (IF b.retried THEN 0 ELSE 2 * Steps + 5) + 2 * Steps + 5
      BY <1>4, <3>1, <3>2 DEF Left
    <3>4. Left(b) = (IF b.retried THEN 0 ELSE 2 * Steps + 5) + 2 * Steps + 6
      BY <1>4, <2>3, <3>2 DEF Left
    <3> QED BY <1>4, <1>5, <3>3, <3>4
  <2>4. CASE ~b.approves /\ Open(b.r) /\ Moves(p, "reject")
    <3>1. Left(c)' = 3 /\ Left(b) = 4
      BY <1>1, <1>10, <1>12, <2>4 DEF Left, Load
    <3> QED BY <1>5, <3>1
  <2> QED BY <1>8, <2>2, <2>3, <2>4
<1>13. CASE Judge(p)
  <2>1. b.stage = "judge" /\ (Moves(p, "replay") \/ Moves(p, "void"))
    BY <1>1, <1>13 DEF Judge
  <2>2. CASE Moves(p, "void")
    BY <1>10, <1>11, <2>1, <2>2
  <2>3. CASE Moves(p, "replay")
    <3>1. PICK e \in Nat : e = IF b.retried THEN 0 ELSE 2 * Steps + 5
      BY <1>4
    <3>2. PICK n \in Nat : n = done'
      <4>1. done' \in Nat
        BY <1>4
      <4> QED BY <4>1
    <3>3. Left(c)' = e + 2 * (Steps - n) + 4
      BY <1>4, <1>10, <2>3, <3>1, <3>2 DEF Left
    <3>4. Left(b) = e + 2 * Steps + 5
      BY <1>4, <2>1, <3>1 DEF Left
    <3>5. \A x, y, z \in Nat : z + 2 * (x - y) + 4 < z + 2 * x + 5
      OBVIOUS
    <3>6. e + 2 * (Steps - n) + 4 < e + 2 * Steps + 5
      BY <1>4, <3>5, Zenon
    <3> QED BY <1>5, <3>3, <3>4, <3>6
  <2> QED BY <2>1, <2>2, <2>3
<1>14. CASE MarkStale(p)
  <2>1. b.stage = "void" /\ (Goes(p, Idle) \/ LosesRace(p))
    BY <1>1, <1>14 DEF MarkStale, Tells
  <2> QED BY <1>8, <1>9, <2>1
<1>15. CASE MarkRejected(p)
  <2>1. b.stage = "reject" /\ (Goes(p, Idle) \/ (Moves(p, "load") /\ ~Open(b.r)))
    BY <1>1, <1>15 DEF MarkRejected, Tells, Rejectable, Open
  <2>2. CASE Moves(p, "load") /\ ~Open(b.r)
    <3>1. ~b.approves /\ row[b.r].status # "none"
      BY <1>1, <2>1 DEF Refuting, Called
    <3>2. c.stage = "load" /\ ~c.approves /\ c.r = b.r
      BY <1>10, <2>2, <3>1
    <3>3. ~Open(c.r)'
      BY <1>3, <2>2, <3>1, <3>2 DEF Narrows
    <3>4. Left(c)' = 2 /\ Left(b) = 3
      BY <2>1, <3>2, <3>3 DEF Left
    <3> QED BY <1>5, <3>4
  <2> QED BY <1>8, <2>1, <2>2
<1>16. CASE RunStep(p)
  <2>1. b.stage \in {"replay", "wire"} /\ done' = done + 1 /\ Moves(p, "replay")
    BY <1>1, <1>16 DEF RunStep, MayRun
  <2>2. Left(c)' = (IF b.retried THEN 0 ELSE 2 * Steps + 5) + 2 * (Steps - (done + 1)) + 4
    BY <1>4, <1>10, <2>1 DEF Left
  <2>3. Left(b) >= (IF b.retried THEN 0 ELSE 2 * Steps + 5) + 2 * (Steps - done) + 3
    BY <1>4, <2>1 DEF Left
  <2> QED BY <1>4, <1>5, <1>6, <2>2, <2>3
<1>17. CASE WriteIntent(p)
  <2>1. b.stage = "replay" /\ done' = done /\ Moves(p, "wire")
    BY <1>1, <1>17 DEF WriteIntent, MayRun
  <2>2. Left(c)' = (IF b.retried THEN 0 ELSE 2 * Steps + 5) + 2 * (Steps - done) + 3
    BY <1>4, <1>10, <2>1 DEF Left
  <2>3. Left(b) = (IF b.retried THEN 0 ELSE 2 * Steps + 5) + 2 * (Steps - done) + 4
    BY <1>4, <2>1 DEF Left
  <2> QED BY <1>4, <1>5, <2>2, <2>3
<1>18. CASE TransportRefuses(p) \/ TransportThrows(p) \/ MarkThrows(p) \/ Refuses(p) \/ Completes(p)
  <2>1. b.stage \in {"replay", "wire"} /\ (Moves(p, "refused") \/ Moves(p, "flip"))
    BY <1>1, <1>18 DEF TransportRefuses, TransportThrows, MarkThrows, Refuses, Completes, MayRun
  <2> QED BY <1>10, <1>11, <2>1
<1>19. CASE OutcomeUnknown(p)
  <2>1. PICK s : s = IF call[p].committed THEN "flip" ELSE "refused"
    OBVIOUS
  <2>2. PICK d : d = [call[p] EXCEPT !.stage = s, !.unknown = TRUE]
    OBVIOUS
  <2>3. d.stage = s /\ d.retried = b.retried
    BY <1>1, <2>2 DEF TypeOK, CallStates
  <2>4. c = d /\ b.stage = "replay"
    BY <1>1, <1>2, <1>19, <2>1, <2>2, OneGoes DEF OutcomeUnknown
  <2> QED BY <1>11, <2>1, <2>3, <2>4
<1>20. CASE AnswerRefusal(p)
  <2>1. b.stage = "refused" /\ (Goes(p, Idle) \/ LosesRace(p))
    BY <1>1, <1>20 DEF AnswerRefusal
  <2> QED BY <1>8, <1>9, <2>1
<1>21. CASE Flip(p)
  <2>1. b.stage = "flip" /\ (Goes(p, Idle) \/ LosesRace(p) \/ Moves(p, "grant"))
    BY <1>1, <1>21 DEF Flip, Tells
  <2>2. CASE Moves(p, "grant")
    <3>1. Left(c)' = (IF b.retried THEN 0 ELSE 2 * Steps + 5) + 1
      BY <1>4, <1>10, <2>2 DEF Left
    <3>2. Left(b) = (IF b.retried THEN 0 ELSE 2 * Steps + 5) + 2
      BY <1>4, <2>1 DEF Left
    <3> QED BY <1>4, <1>5, <3>1, <3>2
  <2> QED BY <1>8, <1>9, <2>1, <2>2
<1>22. CASE Grant(p) \/ Crash(p)
  <2>1. Goes(p, Idle)
    BY <1>22 DEF Grant, Crash, Tells
  <2> QED BY <1>8, <2>1
<1> QED BY <1>12, <1>13, <1>14, <1>15, <1>16, <1>17, <1>18, <1>19, <1>20, <1>21, <1>22 DEF Work

\* A budget is a number.
LEMMA BudgetIsNat == Spec => [](\A p \in Proc : Budget(p) \in Nat)
<1>1. IInv => \A p \in Proc : Budget(p) \in Nat
  <2> SUFFICES ASSUME IInv, NEW p \in Proc PROVE Budget(p) \in Nat
    OBVIOUS
  <2>1. PICK c \in CallStates : c = call[p]
    BY DEF IInv, TypeOK
  <2>2. Left(c) \in Nat
    BY LeftNat DEF IInv
  <2> QED BY <2>1, <2>2 DEF Budget
<1> QED BY <1>1, Invariant, PTL

\* A step moves the call of one process at most.
LEMMA OneCall ==
    ASSUME TypeOK, [Next]_vars, NEW p \in Proc, call'[p] # call[p], call[p].stage # "idle"
    PROVE  Work(p) \/ Crash(p)
<1>1. PICK q \in Proc :
        \/ Crash(q) \/ Work(q)
        \/ \E r \in Row : Reject(q, r) \/ \E allow \in BOOLEAN : Approve(q, r, allow)
  BY DEF Next, vars, Enqueue, Touch
<1>2. PICK c : Goes(q, c)
  BY <1>1 DEF Work, Crash, Load, Judge, MarkStale, MarkRejected, RunStep, WriteIntent, TransportRefuses,
              TransportThrows, MarkThrows, Refuses, Completes, OutcomeUnknown, AnswerRefusal, Flip,
              Grant, Reject, Approve, Moves, Tells, LosesRace
<1>3. q = p
  BY <1>2, OneGoes
<1> QED BY <1>1, <1>3 DEF Reject, Approve

\* Only a call that does not approve comes to reject.
LEMMA RefutingStep ==
    ASSUME TypeOK, Refuting, [Next]_vars
    PROVE  Refuting'
<1>1. ASSUME NEW p \in Proc, call'[p].stage = "reject" PROVE ~call'[p].approves
  <2>1. CASE call'[p] = call[p]
    BY <1>1, <2>1 DEF Refuting
  <2>2. CASE call[p].stage # "idle" /\ call'[p] # call[p]
    <3>1. Work(p) \/ Crash(p)
      BY <2>2, OneCall
    <3>2. ~(Goes(p, Idle) \/ LosesRace(p))
      BY <1>1, Restarts
    <3>3. \A s : Moves(p, s) => s = "reject"
      BY <1>1, OneMoves
    <3>4. CASE Load(p)
      <4>1. PICK j : j = [call[p] EXCEPT !.stage = "judge", !.committed = row[call[p].r].committed,
                                         !.leaves = row[call[p].r].leaves]
        OBVIOUS
      <4>2. j.stage = "judge"
        BY <4>1 DEF TypeOK, CallStates
      <4>3. Goes(p, Idle) \/ Goes(p, j) \/ (~call[p].approves /\ Moves(p, "reject"))
        BY <3>4, <4>1, Zenon DEF Load, Tells
      <4>4. ~Goes(p, j)
        BY <1>1, <4>2, OneGoes
      <4>5. PICK c : c = call'[p]
        OBVIOUS
      <4> QED BY <3>2, <4>3, <4>4, <4>5, MovesOn
    <3>5. CASE OutcomeUnknown(p)
      <4>1. PICK s : s = IF call[p].committed THEN "flip" ELSE "refused"
        OBVIOUS
      <4>2. PICK d : d = [call[p] EXCEPT !.stage = s, !.unknown = TRUE]
        OBVIOUS
      <4>3. d.stage = s
        BY <4>2 DEF TypeOK, CallStates
      <4>4. call'[p] = d
        BY <3>5, <4>1, <4>2, OneGoes DEF OutcomeUnknown
      <4> QED BY <1>1, <4>1, <4>3, <4>4
    <3>6. ~Load(p) /\ ~OutcomeUnknown(p) => FALSE
      BY <3>1, <3>2, <3>3 DEF Work, Crash, Judge, MarkStale, MarkRejected, RunStep, WriteIntent,
         TransportRefuses, TransportThrows, MarkThrows, Refuses, Completes, AnswerRefusal, Flip, Grant, Tells
    <3> QED BY <3>4, <3>5, <3>6
  <2>3. CASE call[p].stage = "idle" /\ call'[p] # call[p]
    <3>1. PICK q \in Proc :
            \/ Crash(q) \/ Work(q)
            \/ \E r \in Row : Reject(q, r) \/ \E allow \in BOOLEAN : Approve(q, r, allow)
      BY <2>3 DEF Next, vars, Enqueue, Touch
    <3>2. PICK c : Goes(q, c)
      BY <3>1 DEF Work, Crash, Load, Judge, MarkStale, MarkRejected, RunStep, WriteIntent, TransportRefuses,
                  TransportThrows, MarkThrows, Refuses, Completes, OutcomeUnknown, AnswerRefusal, Flip,
                  Grant, Reject, Approve, Moves, Tells, LosesRace
    <3>3. q = p
      BY <2>3, <3>2, OneGoes
    <3>4. \E r \in Row : Reject(p, r) \/ \E allow \in BOOLEAN : Approve(p, r, allow)
      BY <2>3, <3>1, <3>3 DEF Work, Crash, Load, Judge, MarkStale, MarkRejected, RunStep, MayRun, WriteIntent,
                TransportRefuses, TransportThrows, MarkThrows, Refuses, Completes, OutcomeUnknown,
                AnswerRefusal, Flip, Grant
    <3>5. call'[p].stage \in {"idle", "load"}
      BY <3>4, Restarts
    <3> QED BY <1>1, <3>5
  <2> QED BY <2>1, <2>2, <2>3
<1> QED BY <1>1 DEF Refuting

\* Every approval and every rejection comes nearer to its answer with each step it takes, and nothing
\* another process does takes it further away: a call ends within Budget steps of its own, which is what
\* CallsEnd rests on.  (lostRace's one retry; the compare-and-set of the rejection, lost only for good)
THEOREM CallsAreShort == Spec => CallsShorten
<1> DEFINE Shortens == \A p \in Proc : call[p].stage # "idle" =>
                         IF Work(p) \/ Crash(p) THEN Budget(p)' < Budget(p) ELSE Budget(p)' <= Budget(p)
<1>1. Init => Refuting
  BY Begun DEF Init, Refuting
<1>2. IInv /\ Refuting /\ [Next]_vars => Refuting'
  BY RefutingStep DEF IInv
<1>3. IInv /\ Refuting /\ [Next]_vars => [Shortens]_vars
  <2> SUFFICES ASSUME IInv, Refuting, [Next]_vars, NEW p \in Proc, call[p].stage # "idle"
               PROVE  IF Work(p) \/ Crash(p) THEN Budget(p)' < Budget(p) ELSE Budget(p)' <= Budget(p)
    OBVIOUS
  <2>1. TypeOK /\ Called /\ Narrows
    BY StepEffect, Narrowing DEF IInv
  <2>2. PICK c \in CallStates : c = call[p]
    BY <2>1 DEF TypeOK
  <2>3. Left(c)' <= Left(c)
    BY <2>1, <2>2, LeftFalls DEF TypeOK, Called
  <2>4. CASE Work(p) \/ Crash(p)
    BY <2>1, <2>4, WorkShortens
  <2>5. CASE ~(Work(p) \/ Crash(p))
    <3>1. call'[p] = c
      BY <2>1, <2>2, <2>5, OneCall
    <3> QED BY <2>2, <2>3, <2>5, <3>1 DEF Budget
  <2> QED BY <2>4, <2>5
<1> QED BY <1>1, <1>2, <1>3, Invariant, PTL DEF Spec, CallsShorten
=============================================================================
