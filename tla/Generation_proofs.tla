-------------------------- MODULE Generation_proofs --------------------------
(***************************************************************************)
(* What the generation guard keeps, for any processes, builds and rows.    *)
(*                                                                         *)
(* The invariant says of each connection, beside the marker: whoever holds *)
(* the book has raised it to its own generation; a snapshot nobody has     *)
(* committed past still shows the marker; a verb whose build still knows   *)
(* the book has read one meaning; and the counts are never behind.  Every  *)
(* step is a move of one connection, an answer, a write or a migration.    *)
(***************************************************************************)
EXTENDS Generation, TLAPS

Holding == {"built", "open", "run", "snapshot", "threw", "returned"}
InVerb == {"run", "snapshot", "threw", "returned"}

ConnOK(p, c, mark) ==
    /\ c \in Conns
    /\ c.stage \in Holding => mark >= Build[p]
    /\ c.stage \in {"building", "snapshot"} => c.pinned <= mark /\ (c.fresh => c.pinned = mark)
    /\ c.stage = "snapshot" => c.pinned <= Build[p]
    /\ c.stage \in InVerb /\ mark <= Build[p] => c.read \subseteq {Build[p]}
    /\ ~c.counted => c.saved = {}
    /\ ~c.missed => c.tried = c.saved

AnswerOK(p, a) ==
    /\ a \in Answers
    /\ a.outcome = "ok" => a.read \subseteq {Build[p]}
    /\ a.outcome \in {"error", "newer"} /\ ~a.partial => a.saved = {}
    /\ a.completed => a.tried = a.saved

GInv ==
    /\ marker \in Generation
    /\ stored = [r \in Row |-> marker]
    /\ conn \in [Proc -> Conns] /\ \A p \in Proc : ConnOK(p, conn[p], marker)
    /\ answer \in [Proc -> Answers] /\ \A p \in Proc : AnswerOK(p, answer[p])

-----------------------------------------------------------------------------
(* Generations are natural numbers. *)

LEMMA Numbers == Generation \subseteq Nat /\ \A p \in Proc : Build[p] \in Generation /\ Build[p] \in Nat
  BY GenerationAssumptions DEF Generation

\* A connection that has done nothing yet is fine wherever its process may stand.
LEMMA Standing ==
  ASSUME NEW p \in Proc, NEW stage \in Stages, NEW mark \in Generation,
         stage \notin {"building", "snapshot"}, stage \in Holding => mark >= Build[p]
  PROVE  ConnOK(p, At(stage), mark)
  BY Numbers DEF ConnOK, At, Closed, Conns, Generation

\* A commit of another process: a snapshot it left behind is not fresh, the marker never lower.
LEMMA LeftBehind ==
  ASSUME NEW p \in Proc, NEW c, NEW mark \in Generation, NEW next \in Generation,
         ConnOK(p, c, mark), next >= mark
  PROVE  ConnOK(p, [c EXCEPT !.fresh = FALSE], next)
  <1> DEFINE d == [c EXCEPT !.fresh = FALSE]
  <1>1. d \in Conns /\ d.fresh = FALSE
    BY DEF ConnOK, Conns
  <1>2. /\ d.stage = c.stage /\ d.pinned = c.pinned /\ d.counted = c.counted /\ d.missed = c.missed
        /\ d.read = c.read /\ d.tried = c.tried /\ d.saved = c.saved
    BY DEF ConnOK, Conns
  <1>3. mark \in Nat /\ next \in Nat /\ Build[p] \in Nat
    BY Numbers
  <1> HIDE DEF d
  <1>4. c.pinned \in Nat
    BY Numbers DEF ConnOK, Conns
  <1>5. d.stage \in {"building", "snapshot"} => d.pinned <= next
    BY <1>2, <1>3, <1>4 DEF ConnOK
  <1>6. d.stage \in Holding => next >= Build[p]
    BY <1>2, <1>3 DEF ConnOK
  <1>7. d.stage \in InVerb /\ next <= Build[p] => d.read \subseteq {Build[p]}
    BY <1>2, <1>3 DEF ConnOK
  <1>8. ConnOK(p, d, next)
    BY <1>1, <1>2, <1>5, <1>6, <1>7 DEF ConnOK
  <1> QED
    BY <1>8 DEF d

-----------------------------------------------------------------------------
(* The four kinds of step *)

\* A move of one connection.
LEMMA Moves ==
  ASSUME GInv, NEW p \in Proc, NEW c, ConnOK(p, c, marker), Goes(p, c), UNCHANGED <<marker, stored, answer>>
  PROVE  GInv'
  <1>1. conn' = [conn EXCEPT ![p] = c] /\ c \in Conns
    BY DEF Goes, ConnOK
  <1>2. conn' \in [Proc -> Conns]
    BY <1>1 DEF GInv
  <1>3. \A q \in Proc : ConnOK(q, conn'[q], marker')
    BY <1>1 DEF GInv
  <1> QED
    BY <1>2, <1>3 DEF GInv

\* An answer, which puts the connection back where verbs begin.
LEMMA Told ==
  ASSUME GInv, NEW p \in Proc, NEW outcome, conn[p].stage \in Holding,
         AnswerOK(p, [outcome |-> outcome, partial |-> Partial(conn[p]),
                      completed |-> outcome = "newer" /\ Completed(conn[p]),
                      read |-> conn[p].read, tried |-> conn[p].tried, saved |-> conn[p].saved]),
         Tells(p, outcome), UNCHANGED <<marker, stored>>
  PROVE  GInv'
  <1>1. marker >= Build[p]
    BY DEF GInv, ConnOK
  <1>2. ConnOK(p, At("open"), marker)
    BY <1>1, Standing DEF GInv, Stages
  <1> DEFINE a == [outcome |-> outcome, partial |-> Partial(conn[p]),
                   completed |-> outcome = "newer" /\ Completed(conn[p]),
                   read |-> conn[p].read, tried |-> conn[p].tried, saved |-> conn[p].saved]
  <1>3. answer' = [answer EXCEPT ![p] = a] /\ conn' = [conn EXCEPT ![p] = At("open")]
    BY DEF Tells, Goes
  <1>4. a \in Answers /\ At("open") \in Conns
    BY <1>2 DEF AnswerOK, ConnOK
  <1> HIDE DEF a
  <1>5. conn' \in [Proc -> Conns] /\ answer' \in [Proc -> Answers]
    BY <1>3, <1>4 DEF GInv
  <1>6. \A q \in Proc : ConnOK(q, conn'[q], marker')
    BY <1>2, <1>3 DEF GInv
  <1>7. AnswerOK(p, a)
    BY DEF a
  <1>8. \A q \in Proc : AnswerOK(q, answer'[q])
    BY <1>3, <1>7 DEF GInv
  <1> QED
    BY <1>5, <1>6, <1>8 DEF GInv

\* A write, by a process whose build is the book's generation.
LEMMA Wrote ==
  ASSUME GInv, NEW p \in Proc, NEW r \in Row, conn[p].stage \in {"run", "snapshot"}, marker = Build[p],
         Writes(p, r), UNCHANGED <<marker, answer>>
  PROVE  GInv'
  <1> DEFINE c == [conn[p] EXCEPT !.stage = "run", !.counted = TRUE, !.tried = @ \cup {r}, !.saved = @ \cup {r}]
  <1>1. stored' = stored
    BY DEF GInv, Writes
  <1>2. ConnOK(p, c, marker)
    <2>1. conn[p] \in Conns /\ ConnOK(p, conn[p], marker) /\ marker \in Nat
      BY Numbers DEF GInv, ConnOK
    <2>2. /\ c \in Conns /\ c.stage = "run" /\ c.counted = TRUE /\ c.missed = conn[p].missed /\ c.read = conn[p].read
          /\ c.tried = conn[p].tried \cup {r} /\ c.saved = conn[p].saved \cup {r}
      BY <2>1 DEF Conns, Stages
    <2> HIDE DEF c
    <2>3. conn[p].read \subseteq {Build[p]} /\ (~conn[p].missed => conn[p].tried = conn[p].saved)
      BY <2>1 DEF ConnOK, InVerb
    <2> QED
      BY <2>1, <2>2, <2>3 DEF ConnOK
  <1>3. \A q \in Proc : ConnOK(q, [conn[q] EXCEPT !.fresh = FALSE], marker)
    BY LeftBehind, Numbers DEF GInv
  <1>4. conn' = [q \in Proc |-> IF q = p THEN c ELSE [conn[q] EXCEPT !.fresh = FALSE]]
    BY DEF Writes, Commits
  <1>5. \A q \in Proc : ConnOK(q, conn'[q], marker')
    BY <1>2, <1>3, <1>4
  <1>6. conn' \in [Proc -> Conns]
    BY <1>4, <1>5 DEF ConnOK
  <1> QED
    BY <1>1, <1>5, <1>6 DEF GInv

\* A migration, of a book older than the build.
LEMMA Raised ==
  ASSUME GInv, NEW p \in Proc, marker < Build[p], Migrates(p), Commits(p, At("built")), UNCHANGED answer
  PROVE  GInv' /\ marker' > marker
  <1>1. marker' \in Generation /\ marker' = Build[p] /\ marker' >= marker
    BY Numbers DEF GInv, Migrates
  <1>2. ConnOK(p, At("built"), marker')
    BY <1>1, Standing, Numbers DEF Stages
  <1>3. \A q \in Proc : ConnOK(q, [conn[q] EXCEPT !.fresh = FALSE], marker')
    BY <1>1, LeftBehind DEF GInv
  <1>4. conn' = [q \in Proc |-> IF q = p THEN At("built") ELSE [conn[q] EXCEPT !.fresh = FALSE]]
    BY DEF Commits
  <1>5. \A q \in Proc : ConnOK(q, conn'[q], marker')
    BY <1>2, <1>3, <1>4
  <1>6. conn' \in [Proc -> Conns]
    BY <1>4, <1>5 DEF ConnOK
  <1>7. stored' = [r \in Row |-> marker']
    BY DEF Migrates
  <1>8. GInv'
    BY <1>1, <1>5, <1>6, <1>7 DEF GInv
  <1> QED
    BY <1>1, <1>8

-----------------------------------------------------------------------------
(* Every action is one of them *)

LEMMA InitInv == Init => GInv
  <1> SUFFICES ASSUME Init PROVE GInv
    OBVIOUS
  <1>0. marker \in Generation /\ Closed = At("closed")
    BY DEF Init, At, Closed
  <1>1. \A p \in Proc : ConnOK(p, Closed, marker)
    BY <1>0, Standing DEF Stages, Holding
  <1>2. \A p \in Proc : AnswerOK(p, Unanswered)
    BY DEF AnswerOK, Unanswered, Answers
  <1> QED
    BY <1>1, <1>2 DEF Init, GInv, ConnOK, AnswerOK

LEMMA OpeningStep ==
  ASSUME GInv, NEW p \in Proc, Connect(p) \/ Create(p) \/ PinBuild(p) \/ Rebuild(p) \/ Open(p) \/ Close(p)
  PROVE  GInv' /\ (marker' = marker \/ marker' > marker)
  <1> USE Numbers
  <1>0. marker \in Generation /\ marker \in Nat /\ Build[p] \in Nat /\ ConnOK(p, conn[p], marker)
    BY DEF GInv
  <1>1. \A stage \in {"closed", "creating", "opening"} : ConnOK(p, At(stage), marker)
    BY <1>0, Standing DEF Stages, Holding
  <1>2. marker >= Build[p] => ConnOK(p, At("built"), marker) /\ ConnOK(p, At("open"), marker)
    BY <1>0, Standing DEF Stages
  <1>3. CASE Connect(p)
    <2>1. PICK stage \in {"opening", "creating"} : Goes(p, At(stage))
      BY <1>3 DEF Connect
    <2> QED
      BY <1>1, <1>3, <2>1, Moves DEF Connect
  <1>4. CASE Create(p)
    <2>1. CASE ~Known(p)
      BY <1>1, <1>4, <2>1, Moves DEF Create, At, Closed
    <2>2. CASE Known(p) /\ marker < Build[p]
      BY <1>4, <2>2, Raised DEF Create
    <2>3. CASE Known(p) /\ ~(marker < Build[p])
      BY <1>0, <1>2, <1>4, <2>3, Moves DEF Create
    <2> QED
      BY <2>1, <2>2, <2>3
  <1>5. CASE PinBuild(p)
    <2> DEFINE c == [At("building") EXCEPT !.pinned = marker, !.fresh = TRUE]
    <2>1. ConnOK(p, c, marker)
      <3>1. At("building") \in Conns
        BY DEF At, Closed, Conns, Stages, Generation
      <3>2. /\ c.stage = "building" /\ c.pinned = marker /\ c.saved = {} /\ c.tried = {} /\ c.read = {}
            /\ c \in Conns
        BY <1>0, <3>1 DEF At, Closed, Conns
      <3> HIDE DEF c
      <3> QED
        BY <1>0, <3>2 DEF ConnOK, Holding, InVerb
    <2>2. Goes(p, c) \/ Goes(p, Closed)
      BY <1>5 DEF PinBuild
    <2>3. ConnOK(p, Closed, marker)
      BY <1>1 DEF At, Closed
    <2> HIDE DEF c
    <2> QED
      BY <1>5, <2>1, <2>2, <2>3, Moves DEF PinBuild
  <1>6. CASE Rebuild(p)
    <2>1. conn[p].pinned \in Nat /\ conn[p].pinned <= marker /\ (conn[p].fresh => conn[p].pinned = marker)
      BY <1>0, <1>6 DEF Rebuild, ConnOK, Conns
    <2>2. CASE conn[p].pinned >= Build[p]
      <3>1. marker >= Build[p]
        BY <1>0, <2>1, <2>2
      <3> QED
        BY <1>2, <1>6, <2>2, <3>1, Moves DEF Rebuild
    <2>3. CASE ~(conn[p].pinned >= Build[p]) /\ Lands(p)
      <3>1. marker < Build[p]
        BY <1>0, <2>1, <2>3 DEF Lands
      <3> QED
        BY <1>6, <2>3, <3>1, Raised DEF Rebuild
    <2>4. CASE ~(conn[p].pinned >= Build[p]) /\ ~Lands(p)
      BY <1>1, <1>6, <2>4, Moves DEF Rebuild
    <2> QED
      BY <2>2, <2>3, <2>4
  <1>7. CASE Open(p)
    <2>1. marker >= Build[p]
      BY <1>0, <1>7 DEF Open, ConnOK, Holding
    <2> QED
      BY <1>1, <1>2, <1>7, <2>1, Moves DEF Open, At, Closed
  <1>8. CASE Close(p)
    BY <1>1, <1>8, Moves DEF Close, At, Closed
  <1> QED
    BY <1>3, <1>4, <1>5, <1>6, <1>7, <1>8

LEMMA VerbStep ==
  ASSUME GInv, NEW p \in Proc,
         \/ Begin(p) \/ Answer(p) \/ Discard(p) \/ PinSnapshot(p) \/ Throw(p)
         \/ \E r \in Row : Read(p, r) \/ Write(p, r) \/ RawWrite(p, r) \/ EndSnapshot(p, r)
         \/ \E ok \in BOOLEAN : Return(p, ok)
  PROVE  GInv' /\ marker' = marker
  <1> DEFINE c == conn[p]
  <1>0. /\ marker \in Generation /\ marker \in Nat /\ Build[p] \in Nat /\ Build[p] \in Generation
        /\ ConnOK(p, c, marker) /\ c \in Conns /\ \A r \in Row : stored[r] = marker
    BY Numbers DEF GInv, ConnOK
  \* Any of these moves keeps the connection fine.
  <1>1. ASSUME NEW d \in Conns, d.stage \in InVerb \ {"snapshot"}, c.stage \in InVerb,
               d.read = c.read, ~d.counted => ~c.counted, d.saved = c.saved,
               ~d.missed => ~c.missed /\ d.tried = c.tried
        PROVE  ConnOK(p, d, marker)
    BY <1>0, <1>1 DEF ConnOK, Holding, InVerb
  <1>2. CASE Begin(p)
    <2>1. marker >= Build[p] /\ c.stage = "open"
      BY <1>0, <1>2 DEF Begin, ConnOK, Holding
    <2>2. CASE Checked(p)
      <3>1. conn' = [conn EXCEPT ![p] = At("run")] /\ answer' = [answer EXCEPT ![p] = Unanswered]
        BY <1>2, <2>2 DEF Begin, Goes
      <3>2. ConnOK(p, At("run"), marker)
        BY <1>0, <2>1, Standing DEF Stages
      <3>3. AnswerOK(p, Unanswered)
        BY DEF AnswerOK, Unanswered, Answers
      <3>4. conn' \in [Proc -> Conns] /\ answer' \in [Proc -> Answers]
        BY <3>1, <3>2, <3>3 DEF GInv, ConnOK, AnswerOK
      <3>5. \A q \in Proc : ConnOK(q, conn'[q], marker) /\ AnswerOK(q, answer'[q])
        BY <3>1, <3>2, <3>3 DEF GInv
      <3> QED
        BY <1>2, <3>4, <3>5 DEF Begin, GInv
    <2>3. CASE ~Checked(p)
      <3>1. AnswerOK(p, [outcome |-> "newer", partial |-> Partial(c), completed |-> "newer" = "newer" /\ Completed(c),
                         read |-> c.read, tried |-> c.tried, saved |-> c.saved])
        BY <1>0, <2>1 DEF AnswerOK, Answers, Partial, Completed, ConnOK, Conns
      <3> QED
        BY <1>2, <2>1, <2>3, <3>1, Told DEF Begin, Holding
    <2> QED
      BY <2>2, <2>3
  <1>3. CASE Answer(p)
    <2> DEFINE outcome == IF ~Checked(p) THEN "newer" ELSE IF c.stage = "threw" THEN "error"
                          ELSE IF c.ok THEN "ok" ELSE "rejected"
    <2>1. outcome \in {"ok", "rejected", "error", "newer"} /\ (outcome = "ok" => marker <= Build[p])
      BY DEF Checked, Known
    <2>2. c.stage \in {"threw", "returned"} /\ Tells(p, outcome) /\ UNCHANGED <<marker, stored>>
      BY <1>3 DEF Answer
    <2> HIDE DEF outcome
    <2>3. AnswerOK(p, [outcome |-> outcome, partial |-> Partial(c), completed |-> outcome = "newer" /\ Completed(c),
                       read |-> c.read, tried |-> c.tried, saved |-> c.saved])
      BY <1>0, <2>1, <2>2 DEF AnswerOK, Answers, Partial, Completed, ConnOK, Conns, InVerb
    <2> QED
      BY <2>2, <2>3, Told DEF Holding
  <1>4. CASE Discard(p)
    <2>1. PICK stage \in {"run", "threw"} : Goes(p, [c EXCEPT !.stage = stage, !.counted = TRUE])
      BY <1>4 DEF Discard
    <2> DEFINE d == [c EXCEPT !.stage = stage, !.counted = TRUE]
    <2>2. /\ d \in Conns /\ d.stage = stage /\ d.counted = TRUE /\ d.read = c.read /\ d.saved = c.saved
          /\ d.missed = c.missed /\ d.tried = c.tried /\ c.stage = "run"
      BY <1>0, <1>4 DEF Discard, Conns, Stages
    <2> HIDE DEF d
    <2>3. ConnOK(p, d, marker)
      BY <1>1, <2>2 DEF InVerb
    <2> QED
      BY <1>4, <2>1, <2>3, Moves DEF Discard, d
  <1>5. CASE PinSnapshot(p)
    <2>1. CASE Known(p)
      <3> DEFINE d == [c EXCEPT !.stage = "snapshot", !.pinned = marker, !.fresh = TRUE,
                                !.read = @ \cup {stored[r] : r \in Row}]
      <3>1. marker = Build[p]
        BY <1>0, <1>5, <2>1 DEF PinSnapshot, Known, ConnOK, Holding
      <3>2. {stored[r] : r \in Row} \subseteq {Build[p]}
        BY <1>0, <3>1
      <3>3. /\ d \in Conns /\ d.stage = "snapshot" /\ d.pinned = marker /\ d.saved = c.saved /\ d.tried = c.tried
            /\ d.counted = c.counted /\ d.missed = c.missed /\ d.read = c.read \cup {stored[r] : r \in Row}
        BY <1>0, <3>2 DEF Conns, Stages
      <3>4. c.read \subseteq {Build[p]}
        BY <1>0, <1>5, <3>1 DEF PinSnapshot, ConnOK, InVerb
      <3> HIDE DEF d
      <3>5. ConnOK(p, d, marker)
        BY <1>0, <3>1, <3>2, <3>3, <3>4 DEF ConnOK, Holding, InVerb
      <3> QED
        BY <1>5, <2>1, <3>5, Moves DEF PinSnapshot, d
    <2>2. CASE ~Known(p)
      <3> DEFINE d == [c EXCEPT !.stage = "threw", !.missed = TRUE]
      <3>1. /\ d \in Conns /\ d.stage = "threw" /\ d.missed = TRUE /\ d.read = c.read /\ d.saved = c.saved
            /\ d.counted = c.counted /\ c.stage = "run"
        BY <1>0, <1>5 DEF PinSnapshot, Conns, Stages
      <3> HIDE DEF d
      <3>2. ConnOK(p, d, marker)
        BY <1>1, <3>1 DEF InVerb
      <3> QED
        BY <1>5, <2>2, <3>2, Moves DEF PinSnapshot, d
    <2> QED
      BY <2>1, <2>2
  <1>6. CASE Throw(p)
    <2> DEFINE d == [c EXCEPT !.stage = "threw"]
    <2>1. /\ d \in Conns /\ d.stage = "threw" /\ d.missed = c.missed /\ d.read = c.read /\ d.saved = c.saved
          /\ d.tried = c.tried /\ d.counted = c.counted /\ c.stage \in InVerb
      BY <1>0, <1>6 DEF Throw, Conns, Stages, InVerb
    <2> HIDE DEF d
    <2>2. ConnOK(p, d, marker)
      BY <1>1, <2>1 DEF InVerb
    <2> QED
      BY <1>6, <2>2, Moves DEF Throw, d
  <1>7. ASSUME NEW r \in Row, Read(p, r) PROVE GInv' /\ marker' = marker
    <2> DEFINE d == [c EXCEPT !.read = @ \cup {stored[r]}]
    <2>1. /\ d \in Conns /\ d.stage = "run" /\ d.missed = c.missed /\ d.read = c.read \cup {marker}
          /\ d.saved = c.saved /\ d.tried = c.tried /\ d.counted = c.counted /\ c.stage = "run"
      BY <1>0, <1>7 DEF Read, Conns
    <2> HIDE DEF d
    <2>2. ConnOK(p, d, marker)
      BY <1>0, <2>1 DEF ConnOK, Holding, InVerb
    <2> QED
      BY <1>7, <2>2, Moves DEF Read, d
  <1>8. ASSUME NEW r \in Row, Write(p, r) \/ RawWrite(p, r) PROVE GInv' /\ marker' = marker
    <2>1. CASE Admits(p)
      <3>1. marker = Build[p]
        BY <1>0, <1>8, <2>1 DEF Write, RawWrite, Admits, Known, ConnOK, Holding
      <3> QED
        BY <1>8, <2>1, <3>1, Wrote DEF Write, RawWrite
    <2>2. CASE ~Admits(p)
      <3>1. PICK stage \in {"run", "threw"}, counted \in BOOLEAN :
              Goes(p, [c EXCEPT !.stage = stage, !.missed = TRUE, !.counted = @ \/ counted, !.tried = @ \cup {r}])
        BY <1>8, <2>2 DEF Write, RawWrite, RefusedWrite
      <3> DEFINE d == [c EXCEPT !.stage = stage, !.missed = TRUE, !.counted = @ \/ counted, !.tried = @ \cup {r}]
      <3>2. /\ d.stage = stage /\ d.missed = TRUE /\ d.read = c.read /\ d.saved = c.saved
            /\ d.counted = (c.counted \/ counted) /\ c.stage = "run"
        BY <1>0, <1>8 DEF Write, RawWrite, Conns
      <3>3. d \in Conns
        BY <1>0, Zenon DEF Conns, Stages
      <3> HIDE DEF d
      <3>4. ConnOK(p, d, marker)
        BY <1>1, <3>2, <3>3 DEF InVerb
      <3> QED
        BY <1>8, <2>2, <3>1, <3>4, Moves DEF Write, RawWrite, RefusedWrite, d
    <2> QED
      BY <2>1, <2>2
  <1>9. ASSUME NEW r \in Row, EndSnapshot(p, r) PROVE GInv' /\ marker' = marker
    <2>1. c.stage = "snapshot" /\ c.stage \in Holding /\ c.pinned <= Build[p] /\ marker >= Build[p]
      BY <1>0, <1>9 DEF EndSnapshot, ConnOK, Holding
    <2>2. CASE Lands(p)
      <3>1. marker = Build[p]
        BY <1>0, <2>1, <2>2 DEF Lands, ConnOK
      <3> QED
        BY <1>9, <2>1, <2>2, <3>1, Wrote DEF EndSnapshot
    <2>3. CASE ~Lands(p)
      <3> DEFINE d == [c EXCEPT !.stage = "threw"]
      <3>1. /\ d \in Conns /\ d.stage = "threw" /\ d.missed = c.missed /\ d.read = c.read /\ d.saved = c.saved
            /\ d.tried = c.tried /\ d.counted = c.counted /\ c.stage \in InVerb
        BY <1>0, <2>1 DEF Conns, Stages, InVerb
      <3> HIDE DEF d
      <3>2. ConnOK(p, d, marker)
        BY <1>1, <3>1 DEF InVerb
      <3> QED
        BY <1>9, <2>3, <3>2, Moves DEF EndSnapshot, d
    <2> QED
      BY <2>2, <2>3
  <1>10. ASSUME NEW ok \in BOOLEAN, Return(p, ok) PROVE GInv' /\ marker' = marker
    <2> DEFINE d == [c EXCEPT !.stage = "returned", !.ok = ok]
    <2>1. /\ d \in Conns /\ d.stage = "returned" /\ d.missed = c.missed /\ d.read = c.read /\ d.saved = c.saved
          /\ d.tried = c.tried /\ d.counted = c.counted /\ c.stage \in InVerb
      BY <1>0, <1>10 DEF Return, Conns, Stages, InVerb
    <2> HIDE DEF d
    <2>2. ConnOK(p, d, marker)
      BY <1>1, <2>1 DEF InVerb
    <2> QED
      BY <1>10, <2>2, Moves DEF Return, d
  <1> QED
    BY <1>2, <1>3, <1>4, <1>5, <1>6, <1>7, <1>8, <1>9, <1>10

-----------------------------------------------------------------------------
(* The theorems *)

LEMMA NextStep ==
  ASSUME GInv, [Next]_vars
  PROVE  GInv' /\ (marker' = marker \/ marker' > marker)
  <1>1. CASE UNCHANGED vars
    BY <1>1 DEF vars, GInv
  <1>2. ASSUME NEW p \in Proc,
               \/ Connect(p) \/ Create(p) \/ PinBuild(p) \/ Rebuild(p) \/ Open(p)
               \/ Begin(p) \/ Answer(p) \/ Discard(p) \/ PinSnapshot(p) \/ Throw(p) \/ Close(p)
               \/ \E r \in Row : Read(p, r) \/ Write(p, r) \/ RawWrite(p, r) \/ EndSnapshot(p, r)
               \/ \E ok \in BOOLEAN : Return(p, ok)
        PROVE  GInv' /\ (marker' = marker \/ marker' > marker)
    BY <1>2, OpeningStep, VerbStep
  <1> QED
    BY <1>1, <1>2 DEF Next

LEMMA Invariant == Spec => []GInv
  <1>1. GInv /\ [Next]_vars => GInv'
    BY NextStep
  <1> QED
    BY InitInv, <1>1, PTL DEF Spec

\* Every variable keeps its type, for any processes, builds and rows.
THEOREM TypeCorrect == Spec => []TypeOK
  <1>1. GInv => TypeOK
    BY DEF GInv, TypeOK
  <1> QED
    BY <1>1, Invariant, PTL

\* No build ever writes an old-meaning row into a newer book, and no migration is left half done.
\* (the write chokepoint of sqlite-store.ts; applyDataMigrations)
THEOREM MeaningFollowsMarker == Spec => []MeaningIsMarker
  <1>1. GInv => MeaningIsMarker
    BY DEF GInv, MeaningIsMarker
  <1> QED
    BY <1>1, Invariant, PTL

\* A read that spans a newer build's migration is never answered.  (guarded's check after the verb)
THEOREM ReadsOneMeaning == Spec => []OneMeaning
  <1>1. GInv => OneMeaning
    BY DEF GInv, OneMeaning, AnswerOK
  <1> QED
    BY <1>1, Invariant, PTL

\* What a failure says about the book, unchanged or saved whole, is right.  (partial and completed)
THEOREM FailuresTellTheTruth == Spec => []FailuresAreTrue
  <1>1. GInv => FailuresAreTrue
    BY DEF GInv, FailuresAreTrue, UnchangedIsTrue, SavedWhole, AnswerOK
  <1> QED
    BY <1>1, Invariant, PTL

\* No race of openers lowers the marker.  (the bump only ever raises)
THEOREM MarkerRises == Spec => MarkerOnlyRises
  <1>1. GInv /\ [Next]_vars => [marker' > marker]_marker
    BY NextStep
  <1> QED
    BY <1>1, Invariant, PTL DEF Spec, MarkerOnlyRises
=============================================================================
