----------------------------- MODULE Generation ------------------------------
(***************************************************************************)
(* The generation guard (src/core/store/generation.ts): TILL processes of  *)
(* different builds hold one book open, and an older build never writes,   *)
(* nor answers from, a book a newer build has migrated.                    *)
(*                                                                         *)
(* PRAGMA user_version is the book's generation: what its stored numbers   *)
(* mean.  A process opens the book, which migrates an older one, and then  *)
(* runs one verb at a time behind the registry's checks.  A transaction    *)
(* that takes the write lock at its BEGIN is one step; one that begins     *)
(* with a read pins a snapshot, and another process may commit past it.    *)
(***************************************************************************)
EXTENDS Integers

CONSTANTS
    Proc,   \* the processes that may hold the book
    Build,  \* the generation each process's build knows (SCHEMA_GENERATION)
    Row     \* the rows whose meaning a generation may change

Generation == {0} \cup {Build[p] : p \in Proc}

ASSUME GenerationAssumptions == Build \in [Proc -> Nat \ {0}]

VARIABLES
    marker,  \* the book's generation; 0 is a file no build has marked
    stored,  \* the generation each row's value is written in
    conn,    \* each process: its connection, and the verb on it
    answer   \* each process: what its last verb was answered, beside what was true

vars == <<marker, stored, conn, answer>>

Stages == {"closed", "creating", "opening", "building", "built", "open", "run", "snapshot", "threw", "returned"}

\* pinned, fresh: the marker an open snapshot saw, and whether nobody committed since.
\* counted, missed: the connection's change count and refusal count moved during the verb.
\* read, tried, saved: the meanings it read, the rows it meant to write, and those it committed.
Conns == [stage : Stages, pinned : Generation, fresh : BOOLEAN, counted : BOOLEAN, missed : BOOLEAN,
          ok : BOOLEAN, read : SUBSET Generation, tried : SUBSET Row, saved : SUBSET Row]
Closed == [stage |-> "closed", pinned |-> 0, fresh |-> FALSE, counted |-> FALSE, missed |-> FALSE,
           ok |-> FALSE, read |-> {}, tried |-> {}, saved |-> {}]
At(stage) == [Closed EXCEPT !.stage = stage]

Answers == [outcome : {"none", "ok", "rejected", "error", "newer"}, partial : BOOLEAN, completed : BOOLEAN,
            read : SUBSET Generation, tried : SUBSET Row, saved : SUBSET Row]
Unanswered == [outcome |-> "none", partial |-> FALSE, completed |-> FALSE, read |-> {}, tried |-> {}, saved |-> {}]

Init ==
    /\ marker \in Generation
    /\ stored = [r \in Row |-> marker]
    /\ conn = [p \in Proc |-> Closed]
    /\ answer = [p \in Proc |-> Unanswered]

-----------------------------------------------------------------------------
(* The one comparison, and what a commit does to the others *)

\* newerGenerationRefusal: equal is fine, and older is fine too.
Known(p) == marker <= Build[p]

Goes(p, state) == conn' = [conn EXCEPT ![p] = state]

\* A commit leaves every other open snapshot behind.
Commits(p, state) ==
    conn' = [q \in Proc |-> IF q = p THEN state ELSE [conn[q] EXCEPT !.fresh = FALSE]]

-----------------------------------------------------------------------------
(* Opening *)

\* The marker is looked at read-only and again on the writable connection, before anything is written.
\* A file with no marker is brand new, or a book older than the marker.
Connect(p) ==
    /\ conn[p].stage = "closed"
    /\ Known(p)
    /\ \E stage \in {"opening"} \cup (IF marker = 0 THEN {"creating"} ELSE {}) : Goes(p, At(stage))
    /\ UNCHANGED <<marker, stored, answer>>

\* applyDataMigrations: every row is rewritten in the build's meaning, with the marker.
Migrates_past(p) ==
    /\ marker' = Build[p] + 1
    /\ stored' = [r \in Row |-> Build[p]]
Migrates(p) ==
    /\ marker' = Build[p]
    /\ stored' = [r \in Row |-> Build[p]]

\* A brand-new file is built under the write lock, whoever else creates it at the same time.
Create(p) ==
    /\ conn[p].stage = "creating"
    /\ IF ~Known(p) THEN Goes(p, Closed) /\ UNCHANGED <<marker, stored>>
       ELSE IF marker < Build[p] THEN Migrates(p) /\ Commits(p, At("built"))
       ELSE Goes(p, At("built")) /\ UNCHANGED <<marker, stored>>
    /\ UNCHANGED answer

\* A re-open builds in a deferred transaction, whose first statement reads the marker ...
PinBuild(p) ==
    /\ conn[p].stage = "opening"
    /\ Goes(p, IF Known(p) THEN [At("building") EXCEPT !.pinned = marker, !.fresh = TRUE] ELSE Closed)
    /\ UNCHANGED <<marker, stored, answer>>

\* ... so that a migration lands only on the snapshot it was decided on (SQLITE_BUSY_SNAPSHOT).
Lands_unpinned(p) == TRUE
Lands(p) == conn[p].fresh

Rebuild(p) ==
    /\ conn[p].stage = "building"
    /\ IF conn[p].pinned >= Build[p] THEN Goes(p, At("built")) /\ UNCHANGED <<marker, stored>>
       ELSE IF Lands(p) THEN Migrates(p) /\ Commits(p, At("built"))
       ELSE (\E stage \in {"opening", "closed"} : Goes(p, At(stage))) /\ UNCHANGED <<marker, stored>>
    /\ UNCHANGED answer

\* And the book must still be known once the build is done.
Open(p) ==
    /\ conn[p].stage = "built"
    /\ Goes(p, IF Known(p) THEN At("open") ELSE Closed)
    /\ UNCHANGED <<marker, stored, answer>>

-----------------------------------------------------------------------------
(* A verb *)

\* guarded(): what the face is told, from the change count, the refusal count and the marker, now.
Partial_never(c) == FALSE
Partial(c) == c.counted
Completed_anyway(c) == c.stage = "returned" /\ c.ok
Completed(c) == c.stage = "returned" /\ c.ok /\ ~c.missed
Checked_before(p) == conn[p].stage = "open" => Known(p)
Checked(p) == Known(p)

Tells(p, outcome) ==
    LET c == conn[p] IN
    /\ answer' = [answer EXCEPT ![p] =
         [outcome |-> outcome, partial |-> Partial(c), completed |-> outcome = "newer" /\ Completed(c),
          read |-> c.read, tried |-> c.tried, saved |-> c.saved]]
    /\ Goes(p, At("open"))

\* The marker is read before the verb ...
Begin(p) ==
    /\ conn[p].stage = "open"
    /\ IF Checked(p)
       THEN Goes(p, At("run")) /\ answer' = [answer EXCEPT ![p] = Unanswered]
       ELSE Tells(p, "newer")
    /\ UNCHANGED <<marker, stored>>

\* ... and again after it, whatever it answered or threw.
Answer(p) ==
    LET c == conn[p] IN
    /\ c.stage \in {"threw", "returned"}
    /\ Tells(p, IF ~Checked(p) THEN "newer" ELSE IF c.stage = "threw" THEN "error"
                ELSE IF c.ok THEN "ok" ELSE "rejected")
    /\ UNCHANGED <<marker, stored>>

\* A bare read checks nothing.
Read(p, r) ==
    /\ conn[p].stage = "run"
    /\ Goes(p, [conn[p] EXCEPT !.read = @ \cup {stored[r]}])
    /\ UNCHANGED <<marker, stored, answer>>

Writes(p, r) ==
    /\ stored' = [stored EXCEPT ![r] = Build[p]]
    /\ Commits(p, [conn[p] EXCEPT !.stage = "run", !.counted = TRUE, !.tried = @ \cup {r}, !.saved = @ \cup {r}])

\* A refused write throws; a verb of many items may turn that into one item's failure and go on.
RefusedWrite(p, r, counted) ==
    /\ \E stage \in {"run", "threw"} :
         Goes(p, [conn[p] EXCEPT !.stage = stage, !.missed = TRUE, !.counted = @ \/ counted, !.tried = @ \cup {r}])
    /\ UNCHANGED stored

\* SqliteStore.tx, and every bare write through it: the lock, then the marker, then the write.
Admits_opened(p) == TRUE
Admits(p) == Known(p)

Write(p, r) ==
    /\ conn[p].stage = "run"
    /\ IF Admits(p) THEN Writes(p, r) ELSE RefusedWrite(p, r, FALSE)
    /\ UNCHANGED <<marker, answer>>

\* A transaction the store did not open: the marker is read after the write, which is then rolled back.
RawWrite(p, r) ==
    /\ conn[p].stage = "run"
    /\ IF Admits(p) THEN Writes(p, r) ELSE RefusedWrite(p, r, TRUE)
    /\ UNCHANGED <<marker, answer>>

\* A transaction that wrote and rolled back: total_changes() counts it all the same.
Discard(p) ==
    /\ conn[p].stage = "run"
    /\ Known(p)
    /\ \E stage \in {"run", "threw"} : Goes(p, [conn[p] EXCEPT !.stage = stage, !.counted = TRUE])
    /\ UNCHANGED <<marker, stored, answer>>

\* snapshotTx: a long read on a pinned snapshot, then one write, which cannot wait for the lock.
PinSnapshot(p) ==
    /\ conn[p].stage = "run"
    /\ IF Known(p)
       THEN Goes(p, [conn[p] EXCEPT !.stage = "snapshot", !.pinned = marker, !.fresh = TRUE,
                                    !.read = @ \cup {stored[r] : r \in Row}])
       ELSE Goes(p, [conn[p] EXCEPT !.stage = "threw", !.missed = TRUE])
    /\ UNCHANGED <<marker, stored, answer>>

EndSnapshot(p, r) ==
    /\ conn[p].stage = "snapshot"
    /\ IF Lands(p) THEN Writes(p, r)
       ELSE Goes(p, [conn[p] EXCEPT !.stage = "threw"]) /\ UNCHANGED stored
    /\ UNCHANGED <<marker, answer>>

\* A verb may throw anywhere: on a lock it waited out, on the disk, on a fault of its own.
Throw(p) ==
    /\ conn[p].stage \in {"run", "snapshot"}
    /\ Goes(p, [conn[p] EXCEPT !.stage = "threw"])
    /\ UNCHANGED <<marker, stored, answer>>

Return(p, ok) ==
    /\ conn[p].stage = "run"
    /\ Goes(p, [conn[p] EXCEPT !.stage = "returned", !.ok = ok])
    /\ UNCHANGED <<marker, stored, answer>>

\* The process closes the book, or dies: an open transaction is gone.
Close(p) ==
    /\ conn[p].stage # "closed"
    /\ Goes(p, Closed)
    /\ UNCHANGED <<marker, stored, answer>>

Next ==
    \E p \in Proc :
        \/ Connect(p) \/ Create(p) \/ PinBuild(p) \/ Rebuild(p) \/ Open(p)
        \/ Begin(p) \/ Answer(p) \/ Discard(p) \/ PinSnapshot(p) \/ Throw(p) \/ Close(p)
        \/ \E r \in Row : Read(p, r) \/ Write(p, r) \/ RawWrite(p, r) \/ EndSnapshot(p, r)
        \/ \E ok \in BOOLEAN : Return(p, ok)

Spec == Init /\ [][Next]_vars

-----------------------------------------------------------------------------
(* Properties *)

TypeOK ==
    /\ marker \in Generation
    /\ stored \in [Row -> Generation]
    /\ conn \in [Proc -> Conns]
    /\ answer \in [Proc -> Answers]

\* Every stored number means what the book's marker says: no build ever wrote an old-meaning row into
\* a newer book, and no migration was left half done.  (the write chokepoint; applyDataMigrations)
MeaningIsMarker == \A r \in Row : stored[r] = marker

\* A book never goes back a generation, whoever raced to open it.  (the bump only ever raises)
MarkerOnlyRises == [][marker' > marker]_marker

\* A read that spans a newer build's migration is never answered: what a verb answers ok, it read in
\* the one meaning its build knows.  (guarded's check after the verb)
OneMeaning == \A p \in Proc : answer[p].outcome = "ok" => answer[p].read \subseteq {Build[p]}

\* A failure that says the book was not changed is right.  (partial, measured by the change count)
UnchangedIsTrue ==
    \A p \in Proc : (answer[p].outcome \in {"error", "newer"} /\ ~answer[p].partial) => answer[p].saved = {}

\* A refusal that says the call was saved whole is right, although the verb may have swallowed what the
\* chokepoint refused it.  (completed, and the refusal count)
SavedWhole == \A p \in Proc : answer[p].completed => answer[p].tried = answer[p].saved

\* What a failed call is told about the book, unchanged or saved whole, is right.  (guarded)
FailuresAreTrue == UnchangedIsTrue /\ SavedWhole
=============================================================================
