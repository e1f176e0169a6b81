-------------------------- MODULE EbicsSync_proofs --------------------------
(***************************************************************************)
(* What holds of the statement sync for every set of files, processes and  *)
(* faults: it keeps StatementBook's promise, tells the bank only what is   *)
(* on file, runs once at a time while leases are young, and logs outcomes  *)
(* that stay true.                                                         *)
(***************************************************************************)
EXTENDS EbicsSync, TLAPS

-----------------------------------------------------------------------------
(* The successor rule *)

\* What the rule takes joins its neighbours: it is on a free day, chains to the statement before it and,
\* where it fills a hole, to the one after it.
LEMMA RuleJoins ==
    ASSUME NEW S \in SUBSET Doc, NEW d \in Doc, Imports(d, S), NEW e \in S
    PROVE  /\ ~SameDay(d, e)
           /\ Adjacent(Pos(e), Pos(d)) => Data[e].closing = Data[d].opening
           /\ Adjacent(Pos(d), Pos(e)) => Data[d].closing = Data[e].opening
<1>1. \A x \in Doc : Pos(x) \in Position
  BY FeedAssumptions DEF Pos
<1>2. ~SameDay(d, e)
  BY DEF Imports, Present, SameDay
<1>3. ASSUME Adjacent(Pos(e), Pos(d)) PROVE IsLower(e, d, S)
  BY <1>1, <1>3 DEF Position, Adjacent, IsLower, Below, Earlier
<1>4. ASSUME Adjacent(Pos(d), Pos(e)) PROVE IsHigher(e, d, S)
  BY <1>1, <1>4 DEF Position, Adjacent, IsHigher, Above, Earlier
<1>5. Adjacent(Pos(e), Pos(d)) => Data[e].closing = Data[d].opening
  BY <1>3 DEF Imports, Succeeds, FillsHole, OpensOn
<1>6. Adjacent(Pos(d), Pos(e)) => Data[d].closing = Data[e].opening
  BY <1>4 DEF Imports, Succeeds, FillsHole, ClosesOn, IsHigher
<1> QED BY <1>2, <1>5, <1>6

\* An outcome of the rule is one of its codes, and 'imported' is said of nothing else than what it takes.
LEMMA RuleCodes ==
    ASSUME NEW S, NEW d
    PROVE  /\ decideSuccessor(d, S) \in Codes
           /\ decideSuccessor(d, S) = "imported" => Imports(d, S)
           /\ decideSuccessor(d, S) = "already_imported" => Known(d, S)
           /\ decideSuccessor(d, S) = "overlap_refused" => Present(d, S) /\ ~Known(d, S)
BY DEF decideSuccessor, Codes, Final, Pending

-----------------------------------------------------------------------------
(* What the jobs know: the inductive invariant *)

\* What a code says of a file, as the books stand.
TrueCode(d, c) ==
    /\ c \in {"imported", "already_imported"} => Known(d, book)
    /\ c = "overlap_refused" => Present(d, book) /\ ~Known(d, book)

\* A receipt in hand is for files on file; when it is sent, each of them has been looked at.
Papers(j) ==
    /\ j.got \subseteq offered /\ j.todo \subseteq filed
    /\ j.receipt => j.got \subseteq filed /\ j.at \notin {"download", "persist"}
    /\ j.at = "receipt" => j.receipt /\ j.todo = {}
    /\ j.at = "log" => j.doc \in filed /\ j.code # "none" /\ TrueCode(j.doc, j.code)
    /\ \A d \in Doc : j.seen[d] # "none" => outcome[d] # "none"
    /\ (j.receipt /\ j.at \in {"import", "log", "receipt"}) =>
         \A d \in j.got : outcome[d] # "none" \/ d \in j.todo \/ (j.at = "log" /\ d = j.doc)

InHand == \A p \in Proc : Papers(job[p])
\* A sync within its lease holds it.
Young == \A p \in Proc : Syncing(p) /\ ~job[p].over => lease = [by |-> p, old |-> FALSE, dead |-> FALSE]
BookOnce == \A d, e \in book : SameDay(d, e) => d = e
Logged == \A d \in Doc : TrueCode(d, outcome[d])

IInv == TypeOK /\ InHand /\ Young /\ BookOnce /\ keyed \subseteq book /\ Logged /\ AckedOnFile

-----------------------------------------------------------------------------
(* One job *)

LEMMA RestFields ==
    ASSUME NEW j \in Jobs
    PROVE  /\ Rest(j) \in Jobs
           /\ Rest(j).got = j.got /\ Rest(j).receipt = j.receipt /\ Rest(j).todo = j.todo
           /\ Rest(j).seen = j.seen /\ Rest(j).doc = j.doc /\ Rest(j).code = j.code /\ Rest(j).over = j.over
           /\ Rest(j).at \in {"import", "receipt", "release"}
           /\ Rest(j).at = "receipt" => j.receipt /\ j.todo = {}
BY DEF Rest, Jobs, Stages

LEMMA IdleFields ==
    /\ Idle \in Jobs
    /\ [Idle EXCEPT !.at = "download"] \in Jobs
    /\ Idle.at = "idle" /\ Idle.got = {} /\ Idle.todo = {} /\ ~Idle.receipt /\ ~Idle.over /\ Idle.seen = Nothing
    /\ [Idle EXCEPT !.at = "download"].at = "download" /\ [Idle EXCEPT !.at = "download"].got = {}
    /\ [Idle EXCEPT !.at = "download"].todo = {} /\ ~[Idle EXCEPT !.at = "download"].receipt
    /\ ~[Idle EXCEPT !.at = "download"].over /\ [Idle EXCEPT !.at = "download"].seen = Nothing
BY DEF Idle, Jobs, Stages, Nothing

\* Every step of a job leaves a job behind; only a start and an end change whether it runs or is over.
Moved(p) ==
    /\ Syncing(p) /\ lease' = lease
    /\ \E j \in Jobs : Goes(p, j) /\ j.at # "idle" /\ j.over = job[p].over

LEMMA Moves ==
    ASSUME TypeOK, NEW p \in Proc,
           \/ Download(p) \/ DownloadFails(p) \/ Persist(p) \/ PersistFails(p) \/ ReadPending(p)
           \/ ImportMember(p) \/ LogOutcome(p) \/ Receipt(p) \/ ReceiptLost(p)
    PROVE  Moved(p)
<1> DEFINE j0 == job[p]
<1>1. j0 \in Jobs
  BY DEF TypeOK
<1>0. Syncing(p) /\ lease' = lease
  BY DEF Syncing, At, Download, DownloadFails, Persist, PersistFails, ReadPending, ImportMember, LogOutcome,
         Receipt, ReceiptLost, bank
<1>2. CASE Download(p)
  <2> DEFINE j == [j0 EXCEPT !.at = IF NewAtBank = {} THEN "read" ELSE "persist", !.got = NewAtBank]
  <2>1. NewAtBank \in SUBSET Doc
    BY SyncAssumptions DEF TypeOK, NewAtBank
  <2>2. j \in Jobs /\ j.at # "idle" /\ j.over = j0.over
    BY <1>1, <2>1 DEF Jobs, Stages
  <2> QED BY <1>0, <1>2, <2>2 DEF Download, Moved
<1>3. CASE DownloadFails(p) \/ ReceiptLost(p) \/ Receipt(p)
  <2>1. \A s \in {"read", "release"} :
          [j0 EXCEPT !.at = s] \in Jobs /\ [j0 EXCEPT !.at = s].at = s /\ [j0 EXCEPT !.at = s].over = j0.over
    BY <1>1 DEF Jobs, Stages
  <2> QED BY <1>0, <1>3, <2>1 DEF DownloadFails, ReceiptLost, Receipt, Moved
<1>4. CASE Persist(p)
  <2> DEFINE j == [j0 EXCEPT !.at = "read", !.receipt = TRUE]
  <2>1. j \in Jobs /\ j.at # "idle" /\ j.over = j0.over
    BY <1>1 DEF Jobs, Stages
  <2> QED BY <1>0, <1>4, <2>1 DEF Persist, Moved
<1>5. CASE PersistFails(p)
  <2> DEFINE j == [j0 EXCEPT !.at = "read", !.got = {}]
  <2>1. j \in Jobs /\ j.at # "idle" /\ j.over = j0.over
    BY <1>1 DEF Jobs, Stages
  <2> QED BY <1>0, <1>5, <2>1 DEF PersistFails, Moved
<1>6. CASE ReadPending(p)
  <2> DEFINE seen == [d \in Doc |-> IF d \in PendingMembers THEN outcome[d] ELSE "none"]
             j == [j0 EXCEPT !.todo = PendingMembers, !.seen = seen]
  <2>1. PendingMembers \in SUBSET Doc /\ seen \in [Doc -> Codes \cup {"none"}]
    BY SyncAssumptions DEF TypeOK, PendingMembers
  <2> HIDE DEF seen
  <2>2. j \in Jobs /\ j.over = j0.over
    BY <1>1, <2>1 DEF Jobs
  <2>3. Goes(p, Rest(j))
    BY <1>6 DEF ReadPending, seen
  <2> HIDE DEF j
  <2> QED BY <1>0, <2>2, <2>3, RestFields DEF Moved
<1>7. CASE ImportMember(p)
  <2>1. PICK d \in Earliest(j0.todo) : Goes(p, [job[p] EXCEPT !.at = "log", !.todo = @ \ {d}, !.doc = d, !.code = Answer(d)])
    BY <1>7 DEF ImportMember
  <2>2. d \in Doc /\ Answer(d) \in Codes
    BY <1>1, <2>1, RuleCodes DEF Earliest, Jobs, Answer, Codes, Final
  <2> DEFINE j == [j0 EXCEPT !.at = "log", !.todo = @ \ {d}, !.doc = d, !.code = Answer(d)]
  <2>3. j \in Jobs /\ j.at # "idle" /\ j.over = j0.over
    BY <1>1, <2>2 DEF Jobs, Stages
  <2> QED BY <1>0, <1>7, <2>1, <2>3 DEF ImportMember, Moved
<1>8. CASE LogOutcome(p)
  <2> DEFINE j == [j0 EXCEPT !.seen[j0.doc] = "none", !.doc = 0, !.code = "none"]
  <2>1. j \in Jobs /\ j.over = j0.over
    BY <1>1 DEF Jobs
  <2>2. Goes(p, Rest(j))
    BY <1>8 DEF LogOutcome
  <2> HIDE DEF j
  <2> QED BY <1>0, <2>1, <2>2, RestFields DEF Moved
<1> QED BY <1>2, <1>3, <1>4, <1>5, <1>6, <1>7, <1>8

-----------------------------------------------------------------------------
(* What a step does to the books, and that codes stay true *)

Takes(d) == Imports(d, book) /\ book' = book \cup {d}

LEMMA BookSteps ==
    ASSUME IInv, [Next]_vars
    PROVE  book' = book \/ \E d \in Doc : Takes(d)
<1>1. ASSUME NEW p \in Proc, ImportMember(p) PROVE book' = book \/ \E d \in Doc : Takes(d)
  <2>1. PICK d \in Earliest(job[p].todo) : book' = IF Answer(d) = "imported" THEN book \cup {d} ELSE book
    BY <1>1 DEF ImportMember
  <2>2. d \in Doc
    BY <2>1 DEF IInv, TypeOK, Earliest, Jobs
  <2>3. CASE d \in keyed
    BY <2>1, <2>3 DEF IInv
  <2>4. CASE d \notin keyed
    BY <2>1, <2>2, <2>4, RuleCodes DEF Answer, Takes
  <2> QED BY <2>3, <2>4
<1>2. ASSUME NEW d \in ByHand, ImportByHand(d) PROVE Takes(d) /\ d \in Doc
  BY <1>2, RuleCodes, SyncAssumptions DEF ImportByHand, Takes
<1>3. CASE UNCHANGED vars
  BY <1>3 DEF vars
<1> QED
  BY <1>1, <1>2, <1>3
  DEF Next, Works, Fails, Start, Download, DownloadFails, Persist, PersistFails, ReadPending, LogOutcome, Receipt,
      ReceiptLost, Release, GiveUp, Die, Expire, Reclaim, ConfirmKeys, Cut, books

LEMMA CodesStay ==
    ASSUME IInv, book' = book \/ \E d \in Doc : Takes(d), NEW d \in Doc, NEW c, TrueCode(d, c)
    PROVE  TrueCode(d, c)'
<1>1. CASE book' = book
  BY <1>1 DEF TrueCode, Known, Present
<1>2. ASSUME NEW x \in Doc, Takes(x) PROVE TrueCode(d, c)'
  <2>1. Known(d, book) => Known(d, book')
    BY <1>2 DEF Known, Takes
  <2>2. Present(d, book) /\ ~Known(d, book) => Present(d, book') /\ ~Known(d, book')
    BY <1>2 DEF Known, Present, Takes, Imports, SameDay
  <2> QED BY <2>1, <2>2 DEF TrueCode, Known, Present
<1> QED BY <1>1, <1>2

LEMMA OnceStays ==
    ASSUME IInv, book' = book \/ \E d \in Doc : Takes(d)
    PROVE  BookOnce'
BY DEF IInv, BookOnce, Takes, Imports, Present, SameDay

-----------------------------------------------------------------------------
(* What is on file, on record and at the bank only grows *)

Grows ==
    /\ offered \subseteq offered' /\ filed \subseteq filed'
    /\ \A d \in Doc : outcome[d] # "none" => outcome'[d] # "none"
    /\ \A d \in Doc : \A c \in Codes : TrueCode(d, c) => TrueCode(d, c)'

LEMMA AllGrows == ASSUME IInv, [Next]_vars PROVE Grows
<1>1. \A d \in Doc : \A c \in Codes : TrueCode(d, c) => TrueCode(d, c)'
  BY BookSteps, CodesStay
<1>2. CASE UNCHANGED <<offered, filed, outcome>>
  BY <1>1, <1>2 DEF Grows
<1>3. ASSUME NEW p \in Proc, Persist(p) PROVE Grows
  BY <1>1, <1>3 DEF Grows, Persist, bank
<1>4. ASSUME NEW p \in Proc, LogOutcome(p) PROVE Grows
  <2>1. job[p].code # "none"
    BY <1>4 DEF LogOutcome, At, IInv, InHand, Papers
  <2>2. \A d \in Doc : outcome[d] # "none" => outcome'[d] # "none"
    BY <1>4, <2>1 DEF LogOutcome, IInv, TypeOK
  <2> QED BY <1>1, <1>4, <2>2 DEF Grows, LogOutcome, bank
<1>5. ASSUME NEW d \in Issued, Cut(d) PROVE Grows
  BY <1>1, <1>5 DEF Grows, Cut
<1> QED
  BY <1>2, <1>3, <1>4, <1>5
  DEF Next, Works, Fails, Start, Download, DownloadFails, PersistFails, ReadPending, ImportMember, Receipt,
      ReceiptLost, Release, GiveUp, Die, Expire, Reclaim, ConfirmKeys, ImportByHand, bank, vars

\* So the papers of a job that does nothing stay good.
LEMMA PapersStay ==
    ASSUME filed \subseteq Doc, Grows, NEW j \in Jobs, Papers(j)
    PROVE  Papers(j)'
<1>1. j.got \in SUBSET Doc /\ j.code \in Codes \cup {"none"}
  BY DEF Jobs
<1>2. j.got \subseteq offered' /\ j.todo \subseteq filed' /\ (j.receipt => j.got \subseteq filed')
  BY DEF Grows, Papers
<1>3. j.at = "log" => j.doc \in filed'
  BY DEF Grows, Papers
<1>4. ASSUME j.at = "log" PROVE j.code # "none" /\ TrueCode(j.doc, j.code)'
  <2>1. j.doc \in Doc /\ j.code \in Codes /\ j.code # "none" /\ TrueCode(j.doc, j.code)
    BY <1>1, <1>4 DEF Papers
  <2> QED BY <2>1 DEF Grows
<1>5. (j.receipt => j.at \notin {"download", "persist"}) /\ (j.at = "receipt" => j.receipt /\ j.todo = {})
  BY DEF Papers
<1>6. \A d \in Doc : j.seen[d] # "none" => outcome'[d] # "none"
  BY DEF Grows, Papers
<1>7. (j.receipt /\ j.at \in {"import", "log", "receipt"}) =>
          \A d \in j.got : outcome'[d] # "none" \/ d \in j.todo \/ (j.at = "log" /\ d = j.doc)
  BY <1>1 DEF Grows, Papers
<1> QED BY <1>2, <1>3, <1>4, <1>5, <1>6, <1>7 DEF Papers

-----------------------------------------------------------------------------
(* The papers of the job that acts *)

LEMMA OneActs ==
    ASSUME IInv, Grows, NEW p \in Proc, NEW j \in Jobs, Goes(p, j), Papers(j)'
    PROVE  InHand' /\ job' \in [Proc -> Jobs]
<1>1. filed \subseteq Doc /\ job \in [Proc -> Jobs]
  BY SyncAssumptions DEF IInv, TypeOK
<1>2. job' \in [Proc -> Jobs]
  BY <1>1 DEF Goes
<1>3. ASSUME NEW q \in Proc, q # p PROVE Papers(job[q])'
  <2>1. PICK i \in Jobs : i = job[q]
    BY <1>1
  <2>2. Papers(i)
    BY <2>1 DEF IInv, InHand
  <2>4. Papers(i)'
    BY <1>1, <2>2, PapersStay
  <2>3. job'[q] = i
    BY <1>1, <1>3, <2>1 DEF Goes
  <2> QED BY <2>3, <2>4
<1>4. job'[p] = j
  BY <1>1 DEF Goes
<1> QED BY <1>2, <1>3, <1>4 DEF InHand

\* A job with empty hands.
LEMMA EmptyHands ==
    ASSUME NEW j \in Jobs, j.got = {}, j.todo = {}, ~j.receipt, j.at \notin {"receipt", "log"}, j.seen = Nothing
    PROVE  Papers(j)'
BY DEF Papers, Nothing

LEMMA PapersStep ==
    ASSUME IInv, [Next]_vars, NEW p \in Proc, Start(p) \/ Works(p) \/ Fails(p)
    PROVE  InHand' /\ job' \in [Proc -> Jobs]
<1>1. Grows
  BY AllGrows
<1>2. PICK i \in Jobs : i = job[p]
  BY DEF IInv, TypeOK
<1>3. Papers(i) /\ filed \subseteq Doc /\ offered \subseteq Doc
  BY <1>2, SyncAssumptions DEF IInv, InHand, TypeOK
<1>4. Papers(i)'
  BY <1>1, <1>3, PapersStay
<1> SUFFICES \E j \in Jobs : Goes(p, j) /\ Papers(j)'
  BY <1>1, OneActs
<1>5. CASE Start(p)
  <2>1. PICK j \in Jobs : j = [Idle EXCEPT !.at = "download"]
    BY IdleFields
  <2> QED BY <1>5, <2>1, IdleFields, EmptyHands DEF Start
<1>6. CASE Release(p) \/ GiveUp(p) \/ Die(p)
  <2>1. PICK j \in Jobs : j = Idle
    BY IdleFields
  <2> QED BY <1>6, <2>1, IdleFields, EmptyHands DEF Release, GiveUp, Die
<1>7. CASE Download(p)
  <2>1. PICK j : j = [i EXCEPT !.at = IF NewAtBank = {} THEN "read" ELSE "persist", !.got = NewAtBank]
    OBVIOUS
  <2>2. NewAtBank \in SUBSET Doc /\ NewAtBank \subseteq offered'
    BY <1>3, <1>7 DEF NewAtBank, Download, bank
  <2>3. j \in Jobs /\ j.got = NewAtBank /\ j.at \in {"read", "persist"} /\ j.todo = i.todo /\ j.seen = i.seen
        /\ j.receipt = i.receipt
    BY <1>2, <2>1, <2>2 DEF Jobs, Stages
  <2>4. ~i.receipt
    BY <1>2, <1>3, <1>7 DEF Download, At, Papers
  <2>5. Goes(p, j) /\ j.got \subseteq offered'
    BY <1>2, <1>7, <2>1, <2>2, <2>3 DEF Download
  <2>6. Papers(j)'
    BY <1>4, <2>3, <2>4, <2>5 DEF Papers
  <2> QED BY <2>3, <2>5, <2>6
<1>8. CASE DownloadFails(p) \/ ReceiptLost(p) \/ Receipt(p)
  <2>1. PICK j : j = [i EXCEPT !.at = IF DownloadFails(p) THEN "read" ELSE "release"]
    OBVIOUS
  <2>2. j \in Jobs /\ j.at = (IF DownloadFails(p) THEN "read" ELSE "release")
        /\ j.got = i.got /\ j.todo = i.todo /\ j.seen = i.seen /\ j.receipt = i.receipt
    BY <1>2, <2>1 DEF Jobs, Stages
  <2>3. Goes(p, j)
    BY <1>2, <1>8, <2>1, <2>2 DEF DownloadFails, ReceiptLost, Receipt, At
  <2>4. Papers(j)'
    BY <1>4, <2>2 DEF Papers
  <2> QED BY <2>2, <2>3, <2>4
<1>9. CASE Persist(p)
  <2>1. PICK j : j = [i EXCEPT !.at = "read", !.receipt = TRUE]
    OBVIOUS
  <2>2. j \in Jobs /\ j.at = "read" /\ j.receipt
        /\ j.got = i.got /\ j.todo = i.todo /\ j.seen = i.seen
    BY <1>2, <2>1 DEF Jobs, Stages
  <2>3. Goes(p, j) /\ j.got \subseteq filed'
    BY <1>2, <1>9, <2>1, <2>2 DEF Persist
  <2>4. Papers(j)'
    BY <1>4, <2>2, <2>3 DEF Papers
  <2> QED BY <2>2, <2>3, <2>4
<1>10. CASE PersistFails(p)
  <2>1. PICK j : j = [i EXCEPT !.at = "read", !.got = {}]
    OBVIOUS
  <2>2. j \in Jobs /\ j.at = "read" /\ j.got = {}
        /\ j.receipt = i.receipt /\ j.todo = i.todo /\ j.seen = i.seen
    BY <1>2, <2>1 DEF Jobs, Stages
  <2>3. Goes(p, j)
    BY <1>2, <1>10, <2>1, <2>2 DEF PersistFails
  <2>4. Papers(j)'
    BY <1>4, <2>2, <2>3 DEF Papers
  <2> QED BY <2>2, <2>3, <2>4
<1>11. CASE ReadPending(p)
  <2>1. PICK seen : seen = [d \in Doc |-> IF d \in PendingMembers THEN outcome[d] ELSE "none"]
    OBVIOUS
  <2>2. PICK todo : todo = PendingMembers
    OBVIOUS
  <2>3. PICK k : k = [i EXCEPT !.todo = todo, !.seen = seen]
    OBVIOUS
  <2>4. seen \in [Doc -> Codes \cup {"none"}] /\ todo \in SUBSET Doc /\ todo \subseteq filed
    BY <1>3, <2>1, <2>2 DEF IInv, TypeOK, PendingMembers
  <2>5. k \in Jobs /\ k.got = i.got /\ k.receipt = i.receipt /\ k.todo = todo /\ k.seen = seen
    BY <1>2, <2>3, <2>4 DEF Jobs
  <2>6. PICK j : j = Rest(k)
    OBVIOUS
  <2>7. j \in Jobs /\ j.got = i.got /\ j.receipt = i.receipt /\ j.todo = todo /\ j.seen = seen
        /\ j.at \in {"import", "receipt", "release"} /\ (j.at = "receipt" => j.receipt /\ j.todo = {})
    BY <2>5, <2>6, RestFields
  <2>8. Goes(p, j) /\ filed' = filed /\ outcome' = outcome
    BY <1>2, <1>11, <2>1, <2>2, <2>3, <2>6 DEF ReadPending
  <2>9. \A d \in Doc : seen[d] # "none" => outcome[d] # "none"
    BY <2>1
  <2>10. i.receipt => \A d \in i.got : outcome[d] # "none" \/ d \in todo
    BY <1>3, <2>2 DEF Papers, PendingMembers, Final
  <2>11. Papers(j)'
    BY <1>4, <2>4, <2>7, <2>8, <2>9, <2>10 DEF Papers
  <2> QED BY <2>7, <2>8, <2>11
<1>12. CASE ImportMember(p)
  <2>1. PICK d \in Earliest(job[p].todo) :
           /\ book' = IF Answer(d) = "imported" THEN book \cup {d} ELSE book
           /\ Goes(p, [job[p] EXCEPT !.at = "log", !.todo = @ \ {d}, !.doc = d, !.code = Answer(d)])
    BY <1>12 DEF ImportMember
  <2>2. d \in i.todo /\ d \in filed /\ d \in Doc
    BY <1>2, <1>3, <2>1 DEF Earliest, Papers
  <2>3. PICK c : c = Answer(d)
    OBVIOUS
  <2>4. c \in Codes /\ c # "none"
    BY <2>3, RuleCodes DEF Answer, Codes, Final, Pending
  <2>5. PICK j : j = [i EXCEPT !.at = "log", !.todo = @ \ {d}, !.doc = d, !.code = c]
    OBVIOUS
  <2>6. j \in Jobs /\ j.at = "log" /\ j.todo = i.todo \ {d} /\ j.doc = d /\ j.code = c
        /\ j.got = i.got /\ j.receipt = i.receipt /\ j.seen = i.seen
    BY <1>2, <2>2, <2>4, <2>5 DEF Jobs, Stages
  <2>7. Goes(p, j) /\ filed' = filed /\ outcome' = outcome
    BY <1>2, <1>12, <2>1, <2>3, <2>5 DEF ImportMember
  <2>8. TrueCode(d, c)'
    <3>1. CASE c = "imported"
      BY <2>1, <2>2, <2>3, <3>1 DEF TrueCode, Known, SameDay, SameBalances
    <3>2. CASE c # "imported"
      <4>1. book' = book /\ d \notin keyed /\ c = decideSuccessor(d, book)
        BY <2>1, <2>3, <3>2 DEF Answer
      <4> QED BY <3>2, <4>1, RuleCodes DEF TrueCode, Known, Present
    <3> QED BY <3>1, <3>2
  <2>9. i.receipt => \A e \in i.got : outcome[e] # "none" \/ e \in i.todo
    BY <1>2, <1>3, <1>12 DEF Papers, ImportMember, At
  <2>10. Papers(j)'
    BY <1>4, <2>2, <2>4, <2>6, <2>7, <2>8, <2>9 DEF Papers
  <2> QED BY <2>6, <2>7, <2>10
<1>13. CASE LogOutcome(p)
  <2>1. i.at = "log" /\ i.doc \in filed /\ i.doc \in Doc /\ i.code # "none"
    BY <1>2, <1>3, <1>13 DEF LogOutcome, At, Papers
  <2>2. PICK k : k = [i EXCEPT !.seen[i.doc] = "none", !.doc = 0, !.code = "none"]
    OBVIOUS
  <2>3. k \in Jobs /\ k.got = i.got /\ k.receipt = i.receipt /\ k.todo = i.todo
    BY <1>2, <2>2 DEF Jobs
  <2>4. \A d \in Doc : k.seen[d] # "none" => i.seen[d] # "none"
    BY <1>2, <2>2 DEF Jobs
  <2>5. PICK j : j = Rest(k)
    OBVIOUS
  <2>6. j \in Jobs /\ j.got = i.got /\ j.receipt = i.receipt /\ j.todo = i.todo /\ j.seen = k.seen
        /\ j.at \in {"import", "receipt", "release"} /\ (j.at = "receipt" => j.receipt /\ j.todo = {})
    BY <2>3, <2>5, RestFields
  <2>7. Goes(p, j) /\ filed' = filed
    BY <1>2, <1>13, <2>2, <2>5 DEF LogOutcome
  <2>8. outcome'[i.doc] # "none"
    BY <1>2, <1>3, <1>13, <2>1 DEF LogOutcome, Papers, IInv, TypeOK
  <2>9. \A d \in Doc : i.seen[d] # "none" => outcome'[d] # "none"
    BY <1>4 DEF Papers
  <2>10. i.receipt => \A d \in i.got : outcome'[d] # "none" \/ d \in i.todo
    BY <1>4, <2>1, <2>8 DEF Papers
  <2>11. Papers(j)'
    BY <1>4, <2>4, <2>6, <2>7, <2>9, <2>10 DEF Papers
  <2> QED BY <2>6, <2>7, <2>11
<1> QED BY <1>5, <1>6, <1>7, <1>8, <1>9, <1>10, <1>11, <1>12, <1>13 DEF Works, Fails

-----------------------------------------------------------------------------
(* The invariant *)

LEMMA JobsStep == ASSUME IInv, [Next]_vars PROVE InHand' /\ job' \in [Proc -> Jobs]
<1>1. Grows
  BY AllGrows
<1>2. \A q \in Proc : job[q] \in Jobs
  BY DEF IInv, TypeOK
<1>3. filed \subseteq Doc
  BY SyncAssumptions DEF IInv, TypeOK
<1>4. CASE job' = job
  <2>1. ASSUME NEW q \in Proc PROVE Papers(job[q])'
    <3>1. PICK i \in Jobs : i = job[q]
      BY <1>2
    <3>2. Papers(i)
      BY <3>1 DEF IInv, InHand
    <3>3. Papers(i)'
      BY <1>1, <1>3, <3>2, PapersStay
    <3> QED BY <1>4, <3>1, <3>3
  <2> QED BY <1>4, <2>1 DEF InHand, IInv, TypeOK
<1>5. CASE Expire
  <2>1. ASSUME NEW q \in Proc PROVE Papers(job[q])' /\ job'[q] \in Jobs
    <3>1. PICK i \in Jobs : i = job[q]
      BY <1>2
    <3>2. Papers(i)
      BY <3>1 DEF IInv, InHand
    <3>3. Papers(i)'
      BY <1>1, <1>3, <3>2, PapersStay
    <3>4. PICK j : j = job'[q]
      OBVIOUS
    <3>5. j = i \/ j = [i EXCEPT !.over = TRUE]
      BY <1>5, <3>1, <3>4 DEF Expire
    <3>6. j \in Jobs /\ j.at = i.at /\ j.got = i.got /\ j.receipt = i.receipt /\ j.todo = i.todo
          /\ j.seen = i.seen /\ j.doc = i.doc /\ j.code = i.code
      BY <3>1, <3>5 DEF Jobs
    <3>7. Papers(j)'
      BY <3>3, <3>6 DEF Papers
    <3> QED BY <3>4, <3>6, <3>7
  <2>2. job' = [q \in Proc |-> job'[q]]
    BY <1>5 DEF Expire
  <2> QED BY <2>1, <2>2 DEF InHand
<1>6. ASSUME NEW p \in Proc, Start(p) \/ Works(p) \/ Fails(p) PROVE InHand' /\ job' \in [Proc -> Jobs]
  BY <1>6, PapersStep
<1> QED BY <1>4, <1>5, <1>6 DEF Next, vars, Reclaim, ConfirmKeys, ImportByHand, Cut

\* Only who runs within its lease holds a young one, so no second sync starts beside it.
LEMMA YoungStep == ASSUME IInv, [Next]_vars PROVE Young' /\ lease' \in Leases
<1>1. job \in [Proc -> Jobs] /\ lease \in Leases /\ Young
  BY DEF IInv, TypeOK
<1>2. ASSUME NEW p \in Proc, NEW j \in Jobs, Goes(p, j), j.at = "idle", lease' \in Leases,
             lease' = lease \/ (lease.by = p /\ lease' \in Leases) PROVE Young'
  BY <1>1, <1>2 DEF Young, Goes, Syncing, At
<1>3. ASSUME NEW p \in Proc, Start(p) PROVE Young' /\ lease' \in Leases
  <2>1. \A q \in Proc : ~(Syncing(q) /\ ~job[q].over)
    BY <1>1, <1>3, SyncAssumptions DEF Young, Start, Free
  <2>2. lease' = [by |-> p, old |-> FALSE, dead |-> FALSE] /\ lease' \in Leases
    BY <1>3 DEF Start, Leases
  <2>3. \A q \in Proc \ {p} : job'[q] = job[q]
    BY <1>1, <1>3 DEF Start, Goes
  <2> QED BY <2>1, <2>2, <2>3 DEF Young, Syncing, At
<1>4. ASSUME NEW p \in Proc, Release(p) \/ GiveUp(p) \/ Die(p) PROVE Young' /\ lease' \in Leases
  <2>1. lease' \in Leases /\ (lease' = lease \/ lease.by = p)
    <3>1. CASE Die(p)
      BY <1>1, <3>1 DEF Die, Leases
    <3>2. Nobody \in Leases
      BY DEF Nobody, Leases
    <3>3. CASE Release(p) \/ GiveUp(p)
      BY <1>1, <3>2, <3>3 DEF Release, GiveUp, Released
    <3> QED BY <1>4, <3>1, <3>3
  <2>2. PICK j \in Jobs : j = Idle
    BY IdleFields
  <2>3. Goes(p, j) /\ j.at = "idle"
    BY <1>4, <2>2, IdleFields DEF Release, GiveUp, Die
  <2> QED BY <1>2, <2>1, <2>2, <2>3
<1>5. ASSUME NEW p \in Proc, Moved(p) PROVE Young' /\ lease' \in Leases
  <2>1. PICK j \in Jobs : Goes(p, j) /\ j.over = job[p].over /\ lease' = lease
    BY <1>5 DEF Moved
  <2>2. Syncing(p)
    BY <1>5 DEF Moved
  <2> QED BY <1>1, <2>1, <2>2 DEF Young, Goes, Syncing, At
<1>6. CASE Expire
  <2>1. lease' \in Leases
    BY <1>1, <1>6 DEF Expire, Leases
  <2>2. ASSUME NEW q \in Proc, Syncing(q)', ~job'[q].over PROVE FALSE
    <3>1. q # lease.by \/ ~Syncing(q)
      BY <1>1, <1>6, <2>2 DEF Expire, Jobs
    <3>2. job'[q] = job[q]
      BY <1>1, <1>6, <3>1 DEF Expire
    <3> QED BY <1>1, <2>2, <3>1, <3>2 DEF Syncing, At, Young
  <2> QED BY <2>1, <2>2 DEF Young
<1>7. CASE Reclaim
  BY <1>1, <1>7 DEF Reclaim, Young, Syncing, At, Nobody, Leases
<1>8. CASE UNCHANGED <<job, lease>>
  BY <1>1, <1>8 DEF Young, Syncing, At
<1> QED
  BY <1>3, <1>4, <1>5, <1>6, <1>7, <1>8, Moves DEF IInv, Next, Works, Fails, ConfirmKeys, ImportByHand, Cut, vars

\* An outcome row says what was true, and stays true.
LEMMA LoggedStep == ASSUME IInv, [Next]_vars PROVE Logged' /\ outcome' \in [Doc -> Codes \cup {"none"}]
<1>1. outcome \in [Doc -> Codes \cup {"none"}] /\ Logged /\ Grows
  BY AllGrows DEF IInv, TypeOK
<1>3. \A d \in Doc : TrueCode(d, "none")'
  BY DEF TrueCode
<1>4. CASE outcome' = outcome
  <2>1. ASSUME NEW d \in Doc PROVE TrueCode(d, outcome[d])'
    <3>1. PICK c : c = outcome[d]
      OBVIOUS
    <3>2. TrueCode(d, c)'
      BY <1>1, <1>3, <3>1 DEF Logged, Grows
    <3> QED BY <1>4, <3>1, <3>2
  <2> QED BY <1>1, <1>4, <2>1 DEF Logged
<1>5. ASSUME NEW p \in Proc, LogOutcome(p) PROVE Logged' /\ outcome' \in [Doc -> Codes \cup {"none"}]
  <2>1. PICK i \in Jobs : i = job[p]
    BY DEF IInv, TypeOK
  <2>2. i.at = "log" /\ i.doc \in Doc /\ i.code \in Codes /\ TrueCode(i.doc, i.code)
    <3>1. Papers(i)
      BY <2>1 DEF IInv, InHand
    <3>2. i.at = "log"
      BY <1>5, <2>1 DEF LogOutcome, At
    <3>3. i.doc \in filed /\ i.code # "none" /\ TrueCode(i.doc, i.code)
      BY <3>1, <3>2 DEF Papers
    <3> QED BY <3>2, <3>3, SyncAssumptions DEF Jobs, IInv, TypeOK
  <2>3. TrueCode(i.doc, i.code)'
    BY <1>1, <2>2 DEF Grows
  <2>4. outcome' = outcome \/ outcome' = [outcome EXCEPT ![i.doc] = i.code]
    BY <1>5, <2>1 DEF LogOutcome
  <2>5. outcome' \in [Doc -> Codes \cup {"none"}]
    BY <1>1, <2>2, <2>4
  <2>6. ASSUME NEW d \in Doc PROVE TrueCode(d, outcome[d])'
    <3>1. PICK c : c = outcome'[d]
      OBVIOUS
    <3>2. c = outcome[d] \/ (d = i.doc /\ c = i.code)
      BY <1>1, <2>2, <2>4, <3>1
    <3>3. TrueCode(d, c)'
      BY <1>1, <1>3, <2>3, <3>2 DEF Logged, Grows
    <3> QED BY <3>1, <3>3
  <2> QED BY <2>5, <2>6 DEF Logged
<1>6. outcome' = outcome \/ \E p \in Proc : LogOutcome(p)
  BY DEF Next, Works, Fails, Start, Download, DownloadFails, Persist, PersistFails, ReadPending, ImportMember, Receipt,
         ReceiptLost, Release, GiveUp, Die, Expire, Reclaim, ConfirmKeys, ImportByHand, Cut, vars
<1> QED BY <1>4, <1>5, <1>6

\* The receipt tells the bank of files on file, and of nothing else.
Told(S) == acked' = acked \cup S /\ S \subseteq filed /\ (\A d \in S : outcome[d] # "none") /\ filed' = filed /\ book' = book
LEMMA Receipts ==
    ASSUME IInv, [Next]_vars
    PROVE  acked' = acked \/ \E S \in SUBSET Doc : S \subseteq offered /\ Told(S)
<1>1. ASSUME NEW p \in Proc, Receipt(p) PROVE \E S \in SUBSET Doc : S \subseteq offered /\ Told(S)
  <2>1. PICK i \in Jobs : i = job[p]
    BY DEF IInv, TypeOK
  <2>2. Papers(i) /\ i.at = "receipt"
    BY <1>1, <2>1 DEF Receipt, At, IInv, InHand
  <2>3. i.got \in SUBSET Doc /\ i.got \subseteq offered /\ i.got \subseteq filed /\ \A d \in i.got : outcome[d] # "none"
    BY <2>2 DEF Papers, Jobs
  <2>4. Told(i.got)
    BY <1>1, <2>1, <2>3 DEF Receipt, Told, books
  <2> QED BY <2>3, <2>4
<1>2. acked' = acked \/ \E p \in Proc : Receipt(p)
  BY DEF Next, Works, Fails, Start, Download, DownloadFails, Persist, PersistFails, ReadPending, ImportMember, LogOutcome,
         ReceiptLost, Release, GiveUp, Die, Expire, Reclaim, ConfirmKeys, ImportByHand, Cut, bank, vars
<1> QED BY <1>1, <1>2

LEMMA KeyedStep == ASSUME IInv, [Next]_vars PROVE keyed' \subseteq book' /\ book' \subseteq Doc
<1>1. book \subseteq book' /\ book' \subseteq Doc
  BY BookSteps DEF Takes, IInv, TypeOK
<1>2. ASSUME NEW p \in Proc, ImportMember(p) PROVE keyed' \subseteq book'
  BY <1>2 DEF ImportMember, IInv
<1>3. keyed' = keyed \/ \E p \in Proc : ImportMember(p)
  BY DEF Next, Works, Fails, Start, Download, DownloadFails, Persist, PersistFails, ReadPending, LogOutcome, Receipt,
         ReceiptLost, Release, GiveUp, Die, Expire, Reclaim, ConfirmKeys, ImportByHand, Cut, books, vars
<1> QED BY <1>1, <1>2, <1>3 DEF IInv

\* What is filed was cut by the bank.
LEMMA BankStep ==
    ASSUME IInv, [Next]_vars
    PROVE  /\ offered' \subseteq Issued /\ filed' \subseteq Issued
           /\ state' \in {"active", "bank_keys_changed"} /\ faults' \in 0..MaxFaults
<1>1. ASSUME NEW p \in Proc PROVE job[p].got \subseteq offered
  BY DEF IInv, InHand, Papers
<1>2. offered' = offered \/ \E d \in Issued : offered' = offered \cup {d}
  BY DEF Next, Works, Fails, Start, Download, DownloadFails, Persist, PersistFails, ReadPending, ImportMember, LogOutcome,
         Receipt, ReceiptLost, Release, GiveUp, Die, Expire, Reclaim, ConfirmKeys, ImportByHand, Cut, bank, vars
<1>3. filed' = filed \/ \E p \in Proc : filed' = filed \cup job[p].got
  BY DEF Next, Works, Fails, Start, Download, DownloadFails, Persist, PersistFails, ReadPending, ImportMember, LogOutcome,
         Receipt, ReceiptLost, Release, GiveUp, Die, Expire, Reclaim, ConfirmKeys, ImportByHand, Cut, bank, vars
<1>4. state' \in {"active", "bank_keys_changed"}
  BY DEF Next, Works, Fails, Start, Download, DownloadFails, Persist, PersistFails, ReadPending, ImportMember, LogOutcome,
         Receipt, ReceiptLost, Release, GiveUp, Die, Expire, Reclaim, ConfirmKeys, ImportByHand, Cut, vars, IInv, TypeOK
<1>5. faults' = faults \/ Fault
  BY DEF Next, Works, Fails, Start, Download, DownloadFails, Persist, PersistFails, ReadPending, ImportMember, LogOutcome,
         Receipt, ReceiptLost, Release, GiveUp, Die, Expire, Reclaim, ConfirmKeys, ImportByHand, Cut, vars
<1>6. faults' \in 0..MaxFaults
  BY <1>5, SyncAssumptions DEF Fault, IInv, TypeOK
<1> QED BY <1>1, <1>2, <1>3, <1>4, <1>6 DEF IInv, TypeOK

LEMMA AckedStep == ASSUME IInv, [Next]_vars PROVE AckedOnFile' /\ acked' \subseteq Issued
<1>1. Grows /\ acked \subseteq Issued /\ offered \subseteq Issued /\ Issued \subseteq Doc
  BY AllGrows, SyncAssumptions DEF IInv, TypeOK
<1>2. \A d \in acked : d \in filed' /\ outcome'[d] # "none"
  BY <1>1 DEF IInv, AckedOnFile, Grows
<1>3. ASSUME NEW S \in SUBSET Doc, S \subseteq offered, Told(S) PROVE AckedOnFile' /\ acked' \subseteq Issued
  BY <1>1, <1>2, <1>3 DEF Told, AckedOnFile, Grows
<1> QED BY <1>1, <1>2, <1>3, Receipts DEF AckedOnFile

LEMMA InvInit == Init => IInv
<1> SUFFICES ASSUME Init PROVE IInv
  OBVIOUS
<1>1. \A p \in Proc : job[p] = Idle
  BY DEF Init
<1>2. TypeOK
  BY SyncAssumptions, IdleFields DEF Init, TypeOK, Nothing, Nobody, Leases
<1>3. InHand
  BY <1>1, IdleFields DEF InHand, Papers, Nothing
<1>4. Young
  BY <1>1, IdleFields DEF Young, Syncing, At
<1> QED BY <1>2, <1>3, <1>4 DEF Init, IInv, BookOnce, Logged, TrueCode, Nothing, AckedOnFile

LEMMA InvStep == IInv /\ [Next]_vars => IInv'
<1> SUFFICES ASSUME IInv, [Next]_vars PROVE IInv'
  OBVIOUS
<1>1. BookOnce'
  BY BookSteps, OnceStays
<1>2. keyed' \subseteq Doc
  BY KeyedStep
<1>3. TypeOK'
  BY <1>2, JobsStep, YoungStep, LoggedStep, KeyedStep, BankStep, AckedStep DEF TypeOK
<1> QED BY <1>1, <1>3, JobsStep, YoungStep, LoggedStep, KeyedStep, AckedStep DEF IInv

LEMMA Invariant == Spec => []IInv
BY InvInit, InvStep, PTL DEF Spec

-----------------------------------------------------------------------------
(* The theorems *)

\* What the bank was told is fetched is on file and was looked at, for any files, processes, deaths and
\* takeovers.  (syncLeased: the receipt comes last)
THEOREM BankToldOnFile == Spec => []AckedOnFile
<1>1. IInv => AckedOnFile
  BY DEF IInv
<1> QED BY <1>1, Invariant, PTL

\* A final outcome in the order log is true for good, whoever imports beside the sync.  (processPending)
THEOREM OutcomesAreTrue == Spec => []FinalIsTrue
<1>1. IInv => FinalIsTrue
  BY SyncAssumptions DEF IInv, Logged, TrueCode, FinalIsTrue, TypeOK
<1> QED BY <1>1, Invariant, PTL

\* However many processes race for the lease, two syncs within their fifteen minutes never overlap.
\* (takeSyncLease, releaseSyncLease, reclaimDeadSyncLeases)
THEOREM LeaseIsExclusive == Spec => []OneFreshSync
<1>1. IInv => OneFreshSync
  BY DEF IInv, Young, OneFreshSync
<1> QED BY <1>1, Invariant, PTL

\* Every step of every sync, fault and import is one the promise allows.  (StatementBook)
LEMMA StepKeepsPromise == IInv /\ [Next]_vars => [Promised!Next]_<<filed, book, acked>>
<1> SUFFICES ASSUME IInv, [Next]_vars PROVE Promised!Next \/ UNCHANGED <<filed, book, acked>>
  OBVIOUS
<1>1. CASE UNCHANGED <<filed, book, acked>>
  BY <1>1
<1>2. ASSUME NEW d \in Doc, Takes(d), UNCHANGED <<filed, acked>> PROVE Promised!Book
  <2>1. ASSUME NEW e \in book
        PROVE  /\ ~SameDay(d, e)
               /\ Adjacent(Pos(e), Pos(d)) => Data[e].closing = Data[d].opening
               /\ Adjacent(Pos(d), Pos(e)) => Data[d].closing = Data[e].opening
    BY <1>2, <2>1, RuleJoins DEF Takes, IInv, TypeOK
  <2>2. Promised!Joins(d)
    BY <2>1 DEF Promised!Joins, Promised!SameDay, Promised!Adjacent, Promised!Pos, SameDay, Adjacent, Pos
  <2> QED BY <1>2, <2>2 DEF Takes, Promised!Book
<1>3. ASSUME NEW p \in Proc, Persist(p) PROVE Promised!File
  <2>1. PICK S : S = job[p].got
    OBVIOUS
  <2>2. S \in SUBSET Doc
    BY <2>1 DEF IInv, TypeOK, Jobs
  <2> QED BY <1>3, <2>1, <2>2 DEF Persist, Promised!File, bank, books
<1>4. ASSUME NEW S \in SUBSET Doc, Told(S) PROVE Promised!Tell
  BY <1>4 DEF Told, Promised!Tell
<1>5. ASSUME acked' = acked, filed' = filed PROVE Promised!Next \/ UNCHANGED <<filed, book, acked>>
  BY <1>2, <1>5, BookSteps DEF Promised!Next
<1>6. (acked' = acked /\ filed' = filed) \/ (\E p \in Proc : Persist(p)) \/ acked' # acked
  BY DEF Next, Works, Fails, Start, Download, DownloadFails, PersistFails, ReadPending, ImportMember, LogOutcome,
         Receipt, ReceiptLost, Release, GiveUp, Die, Expire, Reclaim, ConfirmKeys, ImportByHand, Cut, bank, vars
<1> QED BY <1>3, <1>4, <1>5, <1>6, Receipts DEF Promised!Next

THEOREM SyncKeepsPromise == Spec => KeepsItsPromise
<1>1. Init => Promised!Init
  BY DEF Init, Promised!Init
<1> QED BY <1>1, StepKeepsPromise, Invariant, PTL DEF Spec, KeepsItsPromise, Promised!Spec

\* What that promise is worth: the books it allows, step by step.
Books == book \subseteq Doc /\ Promised!OncePerDay /\ Promised!Chained

LEMMA BooksStep == Books /\ [Promised!Next]_<<filed, book, acked>> => Books'
<1> SUFFICES ASSUME Books, [Promised!Next]_<<filed, book, acked>> PROVE Books'
  OBVIOUS
<1>1. CASE book' = book
  BY <1>1 DEF Books, Promised!OncePerDay, Promised!Chained
<1>2. ASSUME NEW d \in Doc, Promised!Joins(d), book' = book \cup {d} PROVE Books'
  <2>1. \A e \in book : ~Promised!SameDay(d, e) /\ ~Promised!SameDay(e, d)
    BY <1>2 DEF Promised!Joins, Promised!SameDay
  <2>2. ~Promised!Adjacent(Promised!Pos(d), Promised!Pos(d))
    BY FeedAssumptions DEF Promised!Adjacent, Promised!Pos, Position
  <2>3. Promised!OncePerDay'
    BY <1>2, <2>1 DEF Books, Promised!OncePerDay
  <2>4. Promised!Chained'
    BY <1>2, <2>2 DEF Books, Promised!Chained, Promised!Joins
  <2> QED BY <1>2, <2>3, <2>4 DEF Books
<1> QED BY <1>1, <1>2 DEF Promised!Next, Promised!File, Promised!Book, Promised!Tell

\* A day is in the books once and successive statements join without a seam, for any files in any order.
\* (importCamt's "a camt.053 cannot count twice"; the successor rule of feed.ts)
THEOREM BooksAreSound == Spec => [](Promised!OncePerDay /\ Promised!Chained)
<1>1. Promised!Init => Books
  BY DEF Promised!Init, Books, Promised!OncePerDay, Promised!Chained
<1>2. Books => Promised!OncePerDay /\ Promised!Chained
  BY DEF Books
<1>3. Spec => Promised!Spec
  BY SyncKeepsPromise DEF KeepsItsPromise
<1> QED BY <1>1, <1>2, <1>3, BooksStep, PTL DEF Promised!Spec
=============================================================================
