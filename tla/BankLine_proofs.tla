-------------------------- MODULE BankLine_proofs --------------------------
(***************************************************************************)
(* What holds of the bank inbox for every set of lines, keys, seats,       *)
(* entries and processes.                                                  *)
(***************************************************************************)
EXTENDS BankLine, TLAPS

-----------------------------------------------------------------------------
(* The inductive invariant *)

\* A call in the middle is about what it may be about; a reversal under way is of an entry posted by hand.
Busy ==
    \A p \in Proc :
        /\ call[p].stage \in {"screened", "judged", "ran"} => call[p].on \in Asked
        /\ call[p].stage = "reopening" => call[p].on \in Key
        /\ call[p].stage = "reversing" => call[p].on \in Hand
\* A line's decision is a key of the line that was spent on it; what it claims was posted.
Linked ==
    \A l \in Line : live[l] # None =>
        /\ LineOf[live[l]] = l /\ how[live[l]] # "no"
        /\ EntryOf(live[l]) # None => entry[EntryOf(live[l])] # "none"
\* A key posts an entry once it is spent on a booking, and never otherwise.
Posted ==
    /\ \A k \in Key : entry[k] # "none" => Books(k) /\ how[k] # "no"
    /\ \A e \in Hand : entry[e] # "none"
\* A claimed entry that somebody is reversing was claimed behind his back.
Crossed == \A p \in Proc : call[p].stage = "reversing" /\ Held(call[p].on, live) => call[p].on \in crossed

\* What an approval committed stands under it, and only an approval commits.
Committed ==
    \A k \in Asked : /\ how[k] = "approved" => draft[k].committed
                     /\ draft[k].committed => draft[k].status \in {"pending", "executed", "stale"}
\* A draft was closed by a decision of its own line.
ClosedHere == \A k \in Asked : draft[k].closedBy # None => LineOf[draft[k].closedBy] = LineOf[k]
\* Of two drafts of one seat on one line one is the older.
Aged ==
    \A i, j \in Asked :
        i # j /\ LineOf[i] = LineOf[j] /\ SeatOf[i] = SeatOf[j] /\ draft[i].status # "none" /\ draft[j].status # "none"
        => i \in draft[j].earlier \/ j \in draft[i].earlier

Lines == TypeOK /\ Busy /\ Linked /\ Posted /\ Crossed /\ OneHolder /\ BookedWhileDecided /\ RestsOnStanding
Desks == Committed /\ ClosedHere /\ Aged /\ DraftsAreQuestions
IInv == Lines /\ Desks /\ TransferOnce

-----------------------------------------------------------------------------
(* Types *)

\* What the assumptions say of keys and of the entries they claim.
LEMMA KeyFacts ==
    /\ Asked \subseteq Key /\ Key \subseteq Entry /\ Hand \subseteq Entry /\ None \notin Entry
    /\ \A k \in Key : LineOf[k] \in Line /\ Kind[k] \in Kinds /\ Target[k] \in Entry /\ k # None /\ k \notin Hand
    /\ \A k \in Key : EntryOf(k) \in Entry \cup {None}
    /\ \A k \in Key : Books(k) => EntryOf(k) = k
    /\ \A k \in Key : EntryOf(k) # None => Books(k) \/ (Kind[k] = "match" /\ EntryOf(k) = Target[k])
BY BankLineAssumptions DEF Entry, Kinds, EntryOf, Books

\* The shape of a call.
LEMMA CallFacts ==
    ASSUME TypeOK, NEW p \in Proc
    PROVE  /\ call[p] = Idle \/ (call[p].stage \in Stages /\ call[p].on \in Entry)
           /\ Idle.stage = "idle" /\ Idle.on = None
BY DEF TypeOK, Calls, Idle, Stages

\* A call may go to any stage on any entry.
LEMMA CallSet ==
    ASSUME NEW s \in Stages, NEW e \in Entry
    PROVE  /\ Idle \in Calls /\ [stage |-> s, on |-> e] \in Calls
           /\ [stage |-> s, on |-> e].stage = s /\ [stage |-> s, on |-> e].on = e
BY DEF Calls, Idle

-----------------------------------------------------------------------------
(* Lines, entries and claims *)

\* What a call may be about, as it begins.
Proper(c) ==
    /\ c.stage \in {"screened", "judged", "ran"} => c.on \in Asked
    /\ c.stage = "reopening" => c.on \in Key
    /\ c.stage = "reversing" => c.on \in Hand /\ ~Held(c.on, live)

\* A step that decides nothing and undoes nothing leaves the lines alone.
LEMMA Elsewhere ==
    ASSUME Lines, UNCHANGED <<live, how, entry, crossed>>, draft' \in [Asked -> Drafts], moved' \subseteq Ruled,
           call' = call \/ \E p \in Proc, c \in Calls : Proper(c) /\ call' = [call EXCEPT ![p] = c]
    PROVE  Lines'
<1>1. call' \in [Proc -> Calls]
  BY DEF Lines, TypeOK
<1>2. TypeOK'
  BY <1>1 DEF Lines, TypeOK
<1>3. Busy' /\ Crossed'
  <2>1. CASE call' = call
    BY <2>1 DEF Lines, Busy, Crossed, Held
  <2>2. ASSUME NEW p \in Proc, NEW c \in Calls, Proper(c), call' = [call EXCEPT ![p] = c] PROVE Busy' /\ Crossed'
    <3>1. \A q \in Proc : call'[q] = call[q] \/ call'[q] = c
      BY <2>2 DEF Lines, TypeOK
    <3>2. \A e \in Hand : Held(e, live)' = Held(e, live)
      BY DEF Held
    <3>3. Busy'
      BY <2>2, <3>1 DEF Lines, Busy, Proper
    <3>4. Crossed'
      BY <2>2, <3>1, <3>2 DEF Lines, Busy, Crossed, Proper, Held
    <3> QED BY <3>3, <3>4
  <2> QED BY <2>1, <2>2
<1>4. Linked' /\ Posted' /\ OneHolder' /\ BookedWhileDecided' /\ RestsOnStanding'
  BY DEF Lines, Linked, Posted, OneHolder, BookedWhileDecided, RestsOnStanding
<1> QED BY <1>2, <1>3, <1>4 DEF Lines

\* Decide, by the lines: the decided one was open, and its leg free.
LEMMA Decided ==
    ASSUME Lines, NEW k \in Key, NEW busy, Decide(k, busy), draft' \in [Asked -> Drafts],
           \A q \in Proc : call'[q] = call[q] \/ (call'[q].stage = "ran" /\ call'[q].on \in Asked),
           call' \in [Proc -> Calls]
    PROVE  Lines'
<1> DEFINE l == LineOf[k]
           e == EntryOf(k)
<1>1. l \in Line /\ k # None /\ k \notin Hand /\ e \in Entry \cup {None} /\ k \in Entry
  BY KeyFacts
<1>2. live \in [Line -> Key \cup {None}] /\ how \in [Key -> {"no", "direct", "approved"}]
      /\ entry \in [Entry -> {"none", "stands", "reversed"}]
  BY DEF Lines, TypeOK
<1>3. live[l] = None /\ how[k] = "no" /\ entry[k] = "none"
  BY DEF Decide, Bookable, Lines, Posted
<1>4. live' = [live EXCEPT ![l] = k] /\ how'[k] # "no" /\ moved' = moved
      /\ how' \in [Key -> {"no", "direct", "approved"}] /\ \A j \in Key : j # k => how'[j] = how[j]
  BY <1>2 DEF Decide
<1>5. /\ Books(k) => e = k /\ entry' = [entry EXCEPT ![k] = "stands"]
      /\ ~Books(k) => entry' = entry
      /\ e # None /\ ~Books(k) => entry[e] = "stands" /\ Holders(e, AccountOf[l], live) = {}
  BY KeyFacts DEF Decide, Bookable, Claimable
<1>6. crossed \subseteq crossed' /\ crossed' \subseteq Entry
  BY <1>1, CallFacts DEF Decide, Lines, TypeOK, Busy
<1>7. entry' \in [Entry -> {"none", "stands", "reversed"}] /\ (e # None => entry'[e] = "stands")
      /\ \A f \in Entry : f # k => entry'[f] = entry[f]
  BY <1>1, <1>2, <1>5
<1>8. \A m \in Line : m # l => live'[m] = live[m]
  BY <1>2, <1>4
<1>9. live'[l] = k
  BY <1>1, <1>2, <1>4
<1>10. TypeOK'
  BY <1>1, <1>2, <1>4, <1>6, <1>7 DEF Lines, TypeOK
<1>11. \A m \in Line : live[m] # None => LineOf[live[m]] = m /\ how[live[m]] # "no" /\ live[m] \in Key
                         /\ (EntryOf(live[m]) # None => entry[EntryOf(live[m])] # "none" /\ EntryOf(live[m]) \in Entry)
  BY <1>2, KeyFacts DEF Lines, Linked
\* No other line holds an entry that is not posted yet.
<1>12. \A m \in Line : live[m] # None => EntryOf(live[m]) # k
  BY <1>1, <1>3, <1>11
<1>13. Linked'
  BY <1>3, <1>4, <1>7, <1>8, <1>9, <1>11, <1>12 DEF Linked
<1>14. Posted'
  <2>1. \A j \in Key : entry'[j] # "none" => Books(j) /\ how'[j] # "no"
    BY <1>4, <1>5, <1>7, KeyFacts DEF Lines, Posted
  <2>2. \A f \in Hand : entry'[f] # "none"
    BY <1>1, <1>7, KeyFacts DEF Lines, Posted
  <2> QED BY <2>1, <2>2 DEF Posted
<1>15. Busy'
  BY DEF Lines, Busy
<1>16. Crossed'
  <2> SUFFICES ASSUME NEW q \in Proc, call'[q].stage = "reversing", Held(call'[q].on, live')
               PROVE  call'[q].on \in crossed'
    BY DEF Crossed
  <2>1. call'[q] = call[q] /\ call[q].on \in Hand /\ call[q].stage = "reversing"
    BY DEF Lines, Busy
  <2>2. CASE Held(call[q].on, live)
    BY <1>6, <2>1, <2>2 DEF Lines, Crossed
  <2>3. CASE e = call[q].on
    BY <2>1, <2>3 DEF Decide
  <2> QED BY <1>8, <1>9, <2>1, <2>2, <2>3 DEF Held
<1>17. OneHolder'
  <2>1. ASSUME NEW m \in Line, m # l, live[m] # None, EntryOf(live[m]) = e, e # None PROVE AccountOf[m] # AccountOf[l]
    BY <1>5, <1>12, <2>1 DEF Holders
  <2> QED BY <1>8, <1>9, <2>1 DEF Lines, OneHolder
<1>18. BookedWhileDecided'
  <2>1. ASSUME NEW j \in Key, Books(j), j # k PROVE entry'[j] = "stands" <=> live'[LineOf[j]] = j
    BY <1>1, <1>3, <1>7, <1>8, <1>9, <2>1, KeyFacts DEF Lines, BookedWhileDecided
  <2>2. Books(k) => entry'[k] = "stands" /\ live'[LineOf[k]] = k
    BY <1>5, <1>7, <1>9, <1>1
  <2> QED BY <2>1, <2>2 DEF BookedWhileDecided
<1>19. RestsOnStanding'
  BY <1>6, <1>7, <1>8, <1>9, <1>11, <1>12 DEF Lines, RestsOnStanding
<1> QED BY <1>10, <1>13, <1>14, <1>15, <1>16, <1>17, <1>18, <1>19 DEF Lines

\* Reopen, by the lines: the undone decision was the only one on its entry.
LEMMA Reopened ==
    ASSUME Lines, NEW p \in Proc, Reopen(p), draft' \in [Asked -> Drafts]
    PROVE  Lines'
<1>1. PICK k \in Key : k = call[p].on
  BY DEF Lines, Busy, Reopen
<1> DEFINE l == LineOf[k]
<1>2. l \in Line /\ k # None /\ k \notin Hand /\ k \in Entry
  BY KeyFacts
<1>3. live \in [Line -> Key \cup {None}] /\ entry \in [Entry -> {"none", "stands", "reversed"}]
      /\ call \in [Proc -> Calls]
  BY DEF Lines, TypeOK
<1>4. /\ live[l] = k
      /\ Reversible(k, Unclaimed(l))
      /\ live' = [live EXCEPT ![l] = None]
      /\ entry' = Undone(k)
      /\ call' = [call EXCEPT ![p] = Idle]
      /\ UNCHANGED <<how, moved, crossed>>
  BY <1>1 DEF Reopen, Fresh, Unclaimed, Ends
<1> HIDE DEF l
<1>5. live'[l] = None /\ \A m \in Line : m # l => live'[m] = live[m]
  BY <1>2, <1>3, <1>4
<1>6. /\ Books(k) => entry'[k] = "reversed"
      /\ ~Books(k) => entry'[k] = entry[k]
      /\ \A e \in Entry : e # k => entry'[e] = entry[e]
      /\ entry' \in [Entry -> {"none", "stands", "reversed"}]
  BY <1>2, <1>3, <1>4 DEF Undone
\* No other line holds what is reversed.
<1>7. ASSUME Books(k), NEW m \in Line, live'[m] # None PROVE EntryOf(live'[m]) # k
  BY <1>4, <1>7 DEF Reversible, Held, Unclaimed
<1>8. TypeOK'
  BY <1>2, <1>3, <1>4, <1>6, CallSet DEF Lines, TypeOK, Calls
<1>9. Busy' /\ Crossed'
  <2>1. \A q \in Proc : call'[q] = call[q] \/ call'[q].stage = "idle"
    BY <1>3, <1>4, CallFacts DEF Lines
  <2>2. \A e \in Hand : Held(e, live') => Held(e, live)
    BY <1>5 DEF Held
  <2>3. Busy'
    BY <2>1 DEF Lines, Busy
  <2>4. Crossed'
    <3> SUFFICES ASSUME NEW q \in Proc, call'[q].stage = "reversing", Held(call'[q].on, live')
                 PROVE  call'[q].on \in crossed'
      BY DEF Crossed
    <3>1. call[q].stage = "reversing" /\ call'[q].on = call[q].on /\ call[q].on \in Hand
      BY <2>1 DEF Lines, Busy
    <3>2. Held(call[q].on, live)
      BY <2>2, <3>1
    <3> QED BY <1>4, <3>1, <3>2 DEF Lines, Crossed
  <2> QED BY <2>3, <2>4
<1>10. \A m \in Line : live[m] # None => live[m] \in Key /\ (EntryOf(live[m]) # None => EntryOf(live[m]) \in Entry)
  BY <1>3, KeyFacts
<1>11. Linked'
  BY <1>4, <1>5, <1>6, <1>10 DEF Lines, Linked
<1>12. Posted'
  <2>1. how[k] # "no"
    BY <1>2, <1>4 DEF Lines, Linked
  <2>2. \A j \in Key : entry'[j] # "none" => Books(j) /\ how'[j] # "no"
    BY <1>4, <1>6, <2>1, KeyFacts DEF Lines, Posted
  <2>3. \A f \in Hand : entry'[f] # "none"
    BY <1>2, <1>6, KeyFacts DEF Lines, Posted
  <2> QED BY <2>2, <2>3 DEF Posted
<1>13. OneHolder'
  BY <1>5 DEF Lines, OneHolder
<1>14. BookedWhileDecided'
  <2>1. ASSUME NEW j \in Key, Books(j), j # k PROVE entry'[j] = "stands" <=> live'[LineOf[j]] = j
    BY <1>4, <1>5, <1>6, <2>1, KeyFacts DEF Lines, BookedWhileDecided
  <2>2. Books(k) => ~(entry'[k] = "stands") /\ live'[LineOf[k]] # k
    BY <1>2, <1>5, <1>6 DEF l
  <2> QED BY <2>1, <2>2 DEF BookedWhileDecided
<1>15. RestsOnStanding'
  <2> SUFFICES ASSUME NEW m \in Line, live'[m] # None, EntryOf(live'[m]) # None
               PROVE  entry'[EntryOf(live'[m])] = "stands" \/ EntryOf(live'[m]) \in crossed'
    BY DEF RestsOnStanding
  <2>1. m # l /\ live'[m] = live[m]
    BY <1>5
  <2>2. entry'[EntryOf(live[m])] = entry[EntryOf(live[m])]
    BY <1>6, <1>7, <1>10, <2>1
  <2> QED BY <1>4, <2>1, <2>2 DEF Lines, RestsOnStanding
<1> QED BY <1>8, <1>9, <1>11, <1>12, <1>13, <1>14, <1>15 DEF Lines

\* ReverseEntry, by the lines: who holds the entry claimed it behind the reversal's back.
LEMMA ReversedByHand ==
    ASSUME Lines, NEW p \in Proc, ReverseEntry(p)
    PROVE  Lines'
<1>1. PICK e \in Hand : e = call[p].on
  BY DEF Lines, Busy, ReverseEntry
<1>2. e \in Entry /\ e \notin Key
  BY KeyFacts
<1>3. entry \in [Entry -> {"none", "stands", "reversed"}] /\ call \in [Proc -> Calls]
  BY DEF Lines, TypeOK
<1>4. /\ call[p].stage = "reversing"
      /\ entry' = IF entry[e] = "stands" THEN [entry EXCEPT ![e] = "reversed"] ELSE entry
      /\ call' = [call EXCEPT ![p] = Idle]
      /\ UNCHANGED <<live, how, draft, moved, crossed>>
  BY <1>1 DEF ReverseEntry, Ends
<1>5. /\ \A f \in Entry : f # e => entry'[f] = entry[f]
      /\ \A f \in Entry : entry[f] # "none" => entry'[f] # "none"
      /\ entry' \in [Entry -> {"none", "stands", "reversed"}]
  BY <1>2, <1>3, <1>4
<1>6. TypeOK'
  BY <1>3, <1>4, <1>5, CallSet DEF Lines, TypeOK, Calls
<1>7. Busy' /\ Crossed'
  <2>1. \A q \in Proc : call'[q] = call[q] \/ call'[q].stage = "idle"
    BY <1>3, <1>4, CallFacts DEF Lines
  <2> QED BY <1>4, <2>1 DEF Lines, Busy, Crossed, Held
<1>8. \A m \in Line : live[m] # None => live[m] \in Key /\ (EntryOf(live[m]) # None => EntryOf(live[m]) \in Entry)
  BY KeyFacts DEF Lines, TypeOK
<1>9. Linked' /\ OneHolder'
  BY <1>4, <1>5, <1>8 DEF Lines, Linked, OneHolder
<1>10. Posted' /\ BookedWhileDecided'
  BY <1>2, <1>4, <1>5, KeyFacts DEF Lines, Posted, BookedWhileDecided
<1>11. RestsOnStanding'
  <2> SUFFICES ASSUME NEW m \in Line, live[m] # None, EntryOf(live[m]) # None
               PROVE  entry'[EntryOf(live[m])] = "stands" \/ EntryOf(live[m]) \in crossed
    BY <1>4 DEF RestsOnStanding
  <2>1. CASE EntryOf(live[m]) = e
    BY <1>1, <1>4, <2>1 DEF Lines, Crossed, Held
  <2>2. CASE EntryOf(live[m]) # e
    BY <1>5, <1>8, <2>2 DEF Lines, RestsOnStanding
  <2> QED BY <2>1, <2>2
<1> QED BY <1>6, <1>7, <1>9, <1>10, <1>11 DEF Lines

\* What posts nothing keeps both bookings of a transfer apart: a spent key stays spent.
LEMMA NothingPosted ==
    ASSUME TransferOnce, \A i \in Key : how[i] # "no" => how'[i] # "no",
           \A k \in Key : entry'[k] = "stands" => entry[k] = "stands"
    PROVE  TransferOnce'
<1>1. \A j, k \in Key : Taken(j, k) => Taken(j, k)'
  BY DEF Taken
<1> QED BY <1>1 DEF TransferOnce, OtherSide, Books

\* Decide posts the other side of a standing booking only where a third line holds that side.
LEMMA TransferDecided ==
    ASSUME Lines, TransferOnce, NEW k \in Key, NEW busy, Decide(k, busy)
    PROVE  TransferOnce'
<1>1. /\ \A i \in Key : how[i] # "no" => how'[i] # "no"
      /\ \A j \in Key : j # k /\ entry'[j] = "stands" => entry[j] = "stands"
  BY DEF Decide, Lines, TypeOK, Entry
<1>2. \A i, j \in Key : Taken(i, j) => Taken(i, j)'
  BY <1>1 DEF Taken
<1>3. live[LineOf[k]] = None /\ (Books(k) => ~TransferBooked(k, live, entry))
  BY DEF Decide, Bookable
<1>4. ASSUME NEW j \in Key, j # k, OtherSide(j, k), entry[j] = "stands" PROVE Taken(j, k)
  <2> DEFINE a == AccountOf[LineOf[k]]
             b == AccountOf[LineOf[j]]
  <2>1. j \in Entry /\ b \in Legs[k] \ {a} /\ b \in Legs[j] /\ a \in Legs[j] /\ Books(k) /\ Books(j)
    BY <1>4, KeyFacts, BankLineAssumptions DEF OtherSide, Books
  <2>2. ~Claimable(LineOf[k], j, live, entry)
    BY <1>3, <2>1 DEF TransferBooked
  <2>3. PICK m \in Line : live[m] # None /\ EntryOf(live[m]) = j /\ AccountOf[m] = a
    BY <1>4, <2>1, <2>2 DEF Claimable, Holders
  <2>4. PICK i \in Key : i = live[m] /\ LineOf[i] = m /\ how[i] # "no"
    BY <2>3 DEF Lines, TypeOK, Linked
  <2>5. m # LineOf[k] /\ m # LineOf[j]
    BY <1>3, <1>4, <2>3 DEF OtherSide
  <2>6. Kind[i] = "match" /\ Target[i] = j
    BY <2>1, <2>3, <2>4, <2>5, KeyFacts
  <2> QED BY <2>3, <2>4, <2>5, <2>6 DEF Taken
<1>5. \A j \in Key : ~OtherSide(j, j)
  BY DEF OtherSide
<1> SUFFICES ASSUME NEW i \in Key, NEW j \in Key, OtherSide(i, j), entry'[i] = "stands", entry'[j] = "stands"
             PROVE  Taken(i, j)' \/ Taken(j, i)'
  BY DEF TransferOnce, OtherSide, Books
<1>6. CASE i # k /\ j # k
  BY <1>1, <1>2, <1>6 DEF TransferOnce
<1>7. CASE j = k
  BY <1>1, <1>2, <1>4, <1>5, <1>7
<1>8. CASE i = k
  <2>1. OtherSide(j, i)
    BY DEF OtherSide
  <2> QED BY <1>1, <1>2, <1>4, <1>5, <1>8, <2>1
<1> QED BY <1>6, <1>7, <1>8

-----------------------------------------------------------------------------
(* Drafts *)

\* The types of a draft's fields.
LEMMA DraftFields ==
    ASSUME TypeOK, NEW k \in Asked
    PROVE  /\ draft[k].status \in {"none", "pending", "executed", "stale"} \cup Refused
           /\ draft[k].closedBy \in Key \cup {None} /\ draft[k].committed \in BOOLEAN
           /\ draft[k].earlier \subseteq Key /\ draft[k].late \in BOOLEAN /\ draft[k].again \in BOOLEAN
           /\ Refused = {"rejected", "replaced", "closed"}
BY DEF TypeOK, Drafts, Refused

\* An answer stays.
Stands ==
    \A k \in Asked : draft[k].status \in {"rejected", "replaced", "executed", "stale"} =>
                       draft'[k].status = draft[k].status

\* Drafts that only settle keep every promise about drafts.
LEMMA Settled ==
    ASSUME TypeOK, Desks, UNCHANGED <<live, how>>,
           \A k \in Asked :
               /\ draft'[k].closedBy = draft[k].closedBy /\ draft'[k].committed = draft[k].committed
               /\ draft'[k].earlier = draft[k].earlier
               /\ draft'[k].late = draft[k].late /\ draft'[k].again = draft[k].again
               /\ \/ draft'[k].status = draft[k].status
                  \/ draft[k].status = "pending" /\ draft'[k].status \in {"executed", "stale"}
                  \/ Unsettled(k) /\ draft'[k].status = "rejected"
    PROVE  Desks' /\ Stands
<1>1. \A k \in Asked : /\ Unsettled(k)' => Unsettled(k)
                       /\ draft'[k].status # "none" => draft[k].status # "none"
  BY DEF Unsettled
<1>2. Committed'
  BY DraftFields DEF Desks, Committed, Unsettled
<1>3. ClosedHere' /\ Aged'
  BY <1>1 DEF Desks, ClosedHere, Aged
<1>4. OneDraftPerDesk' /\ NoOrphanDraft' /\ NoSpentDraft'
  BY <1>1 DEF Desks, DraftsAreQuestions, OneDraftPerDesk, NoOrphanDraft, NoSpentDraft, SameDesk, OnLine
<1>5. Stands
  BY DEF Stands, Unsettled
<1> QED BY <1>2, <1>3, <1>4, <1>5 DEF Desks, DraftsAreQuestions

\* What a decision leaves of the drafts.
LEMMA DecidedDrafts ==
    ASSUME TypeOK, NEW k \in Key, NEW busy, Decide(k, busy)
    PROVE  \A j \in Asked :
             /\ draft'[j].earlier = draft[j].earlier /\ draft'[j].again = draft[j].again
             /\ j \in Closing(LineOf[k], busy) =>
                  /\ draft'[j].status = "closed" /\ draft'[j].closedBy = k /\ draft'[j].committed = draft[j].committed
             /\ j \in busy => /\ draft'[j].status = draft[j].status /\ draft'[j].closedBy = draft[j].closedBy
                              /\ draft'[j].committed = TRUE
             /\ j \notin Closing(LineOf[k], busy) /\ j \notin busy => draft'[j] = draft[j]
             /\ draft'[j] \in Drafts
<1> TAKE j \in Asked
<1> DEFINE shut == [draft[j] EXCEPT !.status = "closed", !.closedBy = k, !.late = FALSE]
           done == [draft[j] EXCEPT !.committed = TRUE, !.late = FALSE]
<1>1. draft[j] \in Drafts
  BY DEF TypeOK
<1>2. draft'[j] = IF j \in Closing(LineOf[k], busy) THEN shut ELSE IF j \in busy THEN done ELSE draft[j]
  BY DEF Decide
<1>3. /\ shut.status = "closed" /\ shut.closedBy = k /\ shut.committed = draft[j].committed /\ shut.late = FALSE
      /\ shut.earlier = draft[j].earlier /\ shut.again = draft[j].again /\ shut \in Drafts
  BY <1>1 DEF Drafts, Refused
<1>4. /\ done.status = draft[j].status /\ done.closedBy = draft[j].closedBy /\ done.committed = TRUE
      /\ done.late = FALSE /\ done.earlier = draft[j].earlier /\ done.again = draft[j].again /\ done \in Drafts
  BY <1>1 DEF Drafts
<1>5. j \in Closing(LineOf[k], busy) => j \notin busy
  BY DEF Closing
<1> HIDE DEF shut, done
<1> QED BY <1>1, <1>2, <1>3, <1>4, <1>5

\* A decision closes every open draft of its line but the one it commits.
LEMMA DecidedDesks ==
    ASSUME TypeOK, Desks, NEW k \in Key, NEW busy, Decide(k, busy),
           busy = {} \/ (busy = {k} /\ k \in Asked /\ Markable(k))
    PROVE  Desks' /\ Stands /\ draft' \in [Asked -> Drafts]
<1>0. \A j \in Asked :
        /\ draft'[j].earlier = draft[j].earlier /\ draft'[j].again = draft[j].again
        /\ j \in Closing(LineOf[k], busy) =>
             /\ draft'[j].status = "closed" /\ draft'[j].closedBy = k /\ draft'[j].committed = draft[j].committed
        /\ j \in busy => /\ draft'[j].status = draft[j].status /\ draft'[j].closedBy = draft[j].closedBy
                         /\ draft'[j].committed = TRUE
        /\ j \notin Closing(LineOf[k], busy) /\ j \notin busy => draft'[j] = draft[j]
        /\ draft'[j] \in Drafts
  BY DecidedDrafts
<1>1. \A j \in Asked : j \in Closing(LineOf[k], busy) <=> LineOf[j] = LineOf[k] /\ Unsettled(j) /\ j \notin busy
  BY DEF Closing, OnLine
<1>2. \A j \in Asked : Unsettled(j)' => Unsettled(j) /\ LineOf[j] # LineOf[k] /\ j \notin busy /\ draft'[j] = draft[j]
  BY <1>1, <1>0 DEF Unsettled
<1>3. /\ \A j \in Key : j # k => how'[j] = how[j]
      /\ how'[k] = IF k \in busy THEN "approved" ELSE "direct"
      /\ \A m \in Line : m # LineOf[k] => live'[m] = live[m]
  BY DEF TypeOK, Decide
<1>4. Committed'
  <2> SUFFICES ASSUME NEW j \in Asked
               PROVE  /\ how'[j] = "approved" => draft'[j].committed
                      /\ draft'[j].committed => draft'[j].status \in {"pending", "executed", "stale"}
    BY DEF Committed
  <2>1. CASE j \in busy
    BY <1>0, <2>1 DEF Markable
  <2>2. CASE j \in Closing(LineOf[k], busy)
    <3>1. Unsettled(j)
      BY <1>1, <2>2
    <3>2. ~draft'[j].committed
      BY <2>2, <1>0, <3>1 DEF Unsettled
    <3>3. how'[j] # "approved"
      BY <1>1, <1>3, <2>2, <3>1, KeyFacts DEF Desks, Committed, Unsettled
    <3> QED BY <3>2, <3>3
  <2>3. CASE j \notin busy /\ j \notin Closing(LineOf[k], busy)
    <3>1. draft'[j] = draft[j]
      BY <1>0, <2>3
    <3> QED BY <1>3, <2>3, <3>1, KeyFacts DEF Desks, Committed
  <2> QED BY <2>1, <2>2, <2>3
<1>5. ClosedHere'
  <2> SUFFICES ASSUME NEW j \in Asked, draft'[j].closedBy # None PROVE LineOf[draft'[j].closedBy] = LineOf[j]
    BY DEF ClosedHere
  <2>1. CASE j \in Closing(LineOf[k], busy)
    BY <1>0, <1>1, <2>1
  <2>2. CASE j \notin Closing(LineOf[k], busy)
    <3>1. draft'[j].closedBy = draft[j].closedBy
      BY <1>0, <2>2
    <3> QED BY <3>1 DEF Desks, ClosedHere
  <2> QED BY <2>1, <2>2
<1>6. Aged'
  <2>1. \A j \in Asked : draft'[j].earlier = draft[j].earlier /\ (draft'[j].status # "none" => draft[j].status # "none")
    <3> TAKE j \in Asked
    <3>1. CASE j \in Closing(LineOf[k], busy)
      BY <1>0, <1>1, <3>1 DEF Unsettled
    <3>2. CASE j \notin Closing(LineOf[k], busy)
      BY <1>0, <3>2
    <3> QED BY <3>1, <3>2
  <2> QED BY <2>1 DEF Desks, Aged
<1>7. OneDraftPerDesk'
  BY <1>2 DEF Desks, DraftsAreQuestions, OneDraftPerDesk, SameDesk, OnLine
<1>8. NoOrphanDraft'
  BY <1>2, <1>3, KeyFacts DEF Desks, DraftsAreQuestions, NoOrphanDraft
<1>9. NoSpentDraft'
  BY <1>2, <1>3, KeyFacts DEF Desks, DraftsAreQuestions, NoSpentDraft
<1>10. Stands
  <2> SUFFICES ASSUME NEW j \in Asked, draft[j].status \in {"rejected", "replaced", "executed", "stale"}
               PROVE  draft'[j].status = draft[j].status
    BY DEF Stands
  <2>1. j \notin Closing(LineOf[k], busy)
    BY <1>1 DEF Unsettled
  <2> QED BY <1>0, <2>1
<1>11. draft' \in [Asked -> Drafts]
  <2>1. draft' = [j \in Asked |-> draft'[j]]
    BY DEF Decide
  <2> QED BY <1>0, <2>1
<1> QED BY <1>4, <1>5, <1>6, <1>7, <1>8, <1>9, <1>10, <1>11 DEF Desks, DraftsAreQuestions

\* Queue: the new question of a desk replaces the one before it.
LEMMA QueuedDesks ==
    ASSUME TypeOK, Busy, Desks, NEW p \in Proc, Queue(p)
    PROVE  Desks' /\ Stands /\ draft' \in [Asked -> Drafts]
<1>1. PICK k \in Asked : k = call[p].on
  BY DEF Busy, Queue
<1>2. CASE draft[k].status # "none"
  <2>1. draft' = draft /\ UNCHANGED <<live, how>>
    BY <1>1, <1>2 DEF Queue
  <2> QED BY <2>1, Settled DEF TypeOK
<1>3. CASE draft[k].status = "none"
  <2> DEFINE older == {i \in SameDesk(k) : draft[i].status # "none"}
             spent == how[k] # "no"
             past == live[LineOf[k]] # None
             new == [NoDraft EXCEPT !.status = "pending", !.earlier = older, !.late = past, !.again = spent]
             old(j) == [draft[j] EXCEPT !.status = "replaced"]
  <2>1. UNCHANGED <<live, how>> /\
        draft' = [j \in Asked |-> IF j = k THEN new ELSE IF j \in Replaced(k) THEN old(j) ELSE draft[j]]
    BY <1>1, <1>3 DEF Queue
  <2>2. older \subseteq Key /\ older \in SUBSET Key /\ spent \in BOOLEAN /\ past \in BOOLEAN
    BY KeyFacts DEF SameDesk, OnLine
  <2> HIDE DEF older, spent, past
  <2>3. /\ new.status = "pending" /\ new.closedBy = None /\ new.committed = FALSE /\ new.earlier = older
        /\ new.late = past /\ new.again = spent /\ new \in Drafts
    BY <2>2 DEF NoDraft, Drafts
  <2>4. \A j \in Asked : /\ old(j).status = "replaced" /\ old(j).closedBy = draft[j].closedBy
                         /\ old(j).committed = draft[j].committed /\ old(j).earlier = draft[j].earlier
                         /\ old(j) \in Drafts
    BY DEF TypeOK, Drafts, Refused
  <2> HIDE DEF new, old
  <2>5. draft' \in [Asked -> Drafts]
    BY <2>1, <2>3, <2>4 DEF TypeOK
  <2>6. draft'[k] = new
    BY <2>1
  <2>7. \A j \in Asked : j # k /\ j \in Replaced(k) => draft'[j] = old(j)
    BY <2>1
  <2>8. \A j \in Asked : j # k /\ j \notin Replaced(k) => draft'[j] = draft[j]
    BY <2>1
  <2>9. \A j \in Asked : j \in Replaced(k) => Unsettled(j)
    BY DEF Replaced
  <2>10. \A j \in Asked : j # k =>
           /\ draft'[j].closedBy = draft[j].closedBy /\ draft'[j].committed = draft[j].committed
           /\ draft'[j].earlier = draft[j].earlier /\ (draft'[j].status # "none" => draft[j].status # "none")
           /\ Unsettled(j)' => Unsettled(j) /\ j \notin Replaced(k) /\ draft'[j] = draft[j]
           /\ draft'[j].status = draft[j].status \/ ~draft[j].committed
    BY <2>4, <2>7, <2>8, <2>9 DEF Unsettled
  <2>11. Committed'
    <3>1. ~draft[k].committed /\ how[k] # "approved"
      BY <1>3 DEF Desks, Committed
    <3> QED BY <2>1, <2>3, <2>6, <2>10, <3>1 DEF Desks, Committed
  <2>12. ClosedHere'
    BY <2>3, <2>6, <2>10 DEF Desks, ClosedHere
  <2>13. Aged'
    <3>1. \A i \in Asked : i # k /\ LineOf[i] = LineOf[k] /\ SeatOf[i] = SeatOf[k] /\ draft'[i].status # "none"
                            => i \in draft'[k].earlier
      BY <2>3, <2>6, <2>10 DEF older, SameDesk, OnLine
    <3> QED BY <2>10, <3>1 DEF Desks, Aged
  <2>14. OneDraftPerDesk'
    <3>1. \A j \in Asked : LineOf[j] = LineOf[k] /\ SeatOf[j] = SeatOf[k] /\ j # k => ~Unsettled(j)'
      BY <2>10 DEF Replaced, SameDesk, OnLine
    <3> QED BY <2>10, <3>1 DEF Desks, DraftsAreQuestions, OneDraftPerDesk, SameDesk, OnLine
  <2>15. NoOrphanDraft'
    BY <2>1, <2>3, <2>6, <2>10 DEF Desks, DraftsAreQuestions, NoOrphanDraft, past
  <2>16. NoSpentDraft'
    BY <2>1, <2>3, <2>6, <2>10 DEF Desks, DraftsAreQuestions, NoSpentDraft, spent
  <2>17. Stands
    BY <1>3, <2>7, <2>8, <2>9 DEF Stands, Unsettled
  <2> QED BY <2>5, <2>11, <2>12, <2>13, <2>14, <2>15, <2>16, <2>17 DEF Desks, DraftsAreQuestions
<1> QED BY <1>2, <1>3

\* Reopen: of what comes back and what was asked since, the newest question of each desk stays.
LEMMA ReopenedDesks ==
    ASSUME TypeOK, Busy, Desks, NEW p \in Proc, Reopen(p)
    PROVE  Desks' /\ Stands /\ draft' \in [Asked -> Drafts]
<1>1. PICK k \in Key : k = call[p].on
  BY DEF Busy, Reopen
<1> DEFINE l == LineOf[k]
           pending == Revived(k) \cup {j \in OnLine(l) : Unsettled(j)}
           outdated == Outdated(pending)
           closed == ClosedBy(k)
           over(j) == [draft[j] EXCEPT !.status = "replaced", !.closedBy = None]
           back(j) == [draft[j] EXCEPT !.status = "pending", !.closedBy = None]
           free(j) == [draft[j] EXCEPT !.closedBy = None]
<1>2. /\ UNCHANGED how
      /\ live' = Unclaimed(l)
      /\ draft' = [j \in Asked |-> IF j \in outdated THEN over(j) ELSE IF j \in pending THEN back(j)
                                   ELSE IF j \in closed THEN free(j) ELSE draft[j]]
  BY <1>1 DEF Reopen
<1>3. \A j \in Asked :
        /\ over(j).status = "replaced" /\ back(j).status = "pending" /\ free(j).status = draft[j].status
        /\ over(j).closedBy = None /\ back(j).closedBy = None /\ free(j).closedBy = None
        /\ over(j).committed = draft[j].committed /\ back(j).committed = draft[j].committed
        /\ free(j).committed = draft[j].committed
  BY DEF TypeOK, Drafts
<1>4. \A j \in Asked :
        /\ over(j).earlier = draft[j].earlier /\ back(j).earlier = draft[j].earlier /\ free(j).earlier = draft[j].earlier
        /\ over(j).late = draft[j].late /\ back(j).late = draft[j].late /\ free(j).late = draft[j].late
        /\ over(j).again = draft[j].again /\ back(j).again = draft[j].again /\ free(j).again = draft[j].again
  BY DEF TypeOK, Drafts
<1>5. \A j \in Asked : over(j) \in Drafts /\ back(j) \in Drafts /\ free(j) \in Drafts
  BY DEF TypeOK, Drafts, Refused
\* What comes back was closed on this line, under a key that has not decided.
<1>6. \A j \in Asked : j \in Revived(k) =>
        LineOf[j] = l /\ draft[j].status = "closed" /\ ~draft[j].committed /\ how[j] = "no"
  <2> TAKE j \in Asked
  <2> HAVE j \in Revived(k)
  <2>1. draft[j].status = "closed" /\ draft[j].closedBy = k /\ ~draft[j].committed
    BY DEF Revived, ClosedBy
  <2>2. LineOf[j] = l
    BY <2>1, KeyFacts DEF Desks, ClosedHere
  <2>3. Unclaimed(l)[LineOf[j]] = None
    BY <2>2, KeyFacts DEF Unclaimed, TypeOK
  <2>4. how[j] = "no"
    BY <2>3 DEF Revived, Screens
  <2> QED BY <2>1, <2>2, <2>4
<1>7. /\ \A j \in Asked : j \in pending <=> j \in Revived(k) \/ (LineOf[j] = l /\ Unsettled(j))
      /\ \A j \in Asked : j \in outdated <=> j \in pending /\ \E i \in Asked : i \in pending /\ j \in draft[i].earlier
  BY <1>6 DEF Revived, ClosedBy, OnLine, Outdated
<1>8. l \in Line /\ \A m \in Line : live'[m] # None => m # l /\ live[m] # None
  BY <1>2, KeyFacts DEF Unclaimed, TypeOK
<1>9. draft' \in [Asked -> Drafts]
  <2> HIDE DEF over, back, free, outdated, pending, closed
  <2> QED BY <1>2, <1>5 DEF TypeOK
<1>10. \A j \in Asked :
         /\ j \in outdated => draft'[j] = over(j)
         /\ j \notin outdated /\ j \in pending => draft'[j] = back(j)
         /\ j \notin outdated /\ j \notin pending => draft'[j] = free(j) \/ draft'[j] = draft[j]
  <2> HIDE DEF over, back, free, outdated, pending, closed
  <2> QED BY <1>2
<1> HIDE DEF over, back, free, outdated, pending, closed
<1>11. \A j \in Asked :
         /\ draft'[j].committed = draft[j].committed /\ draft'[j].earlier = draft[j].earlier
         /\ draft'[j].late = draft[j].late /\ draft'[j].again = draft[j].again
         /\ draft'[j].closedBy = None \/ draft'[j].closedBy = draft[j].closedBy
  BY <1>3, <1>4, <1>10
<1>12. \A j \in Asked :
         /\ j \in outdated => j \in pending /\ draft'[j].status = "replaced"
         /\ j \notin outdated /\ j \in pending => draft'[j].status = "pending"
         /\ j \notin pending => draft'[j].status = draft[j].status
         /\ j \in pending => LineOf[j] = l /\ ~draft[j].committed /\ draft[j].status # "none"
  BY <1>3, <1>6, <1>7, <1>10 DEF Unsettled
<1>13. \A j \in Asked : Unsettled(j)' =>
         /\ j \notin outdated
         /\ j \in pending \/ (LineOf[j] # l /\ Unsettled(j))
  BY <1>7, <1>11, <1>12 DEF Unsettled
<1>14. Committed'
  BY <1>2, <1>11, <1>12 DEF Desks, Committed
<1>15. ClosedHere'
  BY <1>11 DEF Desks, ClosedHere
<1>16. Aged'
  BY <1>11, <1>12 DEF Desks, Aged
<1>17. OneDraftPerDesk'
  <2> SUFFICES ASSUME NEW i \in Asked, NEW j \in Asked, Unsettled(i)', Unsettled(j)',
                      LineOf[i] = LineOf[j], SeatOf[i] = SeatOf[j], i # j
               PROVE  FALSE
    BY DEF OneDraftPerDesk, SameDesk, OnLine
  <2>1. CASE LineOf[i] # l
    BY <1>12, <1>13, <2>1 DEF Desks, DraftsAreQuestions, OneDraftPerDesk, SameDesk, OnLine
  <2>2. CASE LineOf[i] = l
    <3>1. i \in pending /\ j \in pending /\ i \notin outdated /\ j \notin outdated
      BY <1>13, <2>2
    <3>2. i \in draft[j].earlier \/ j \in draft[i].earlier
      BY <1>12, <3>1 DEF Desks, Aged
    <3> QED BY <1>7, <3>1, <3>2
  <2> QED BY <2>1, <2>2
<1>18. NoOrphanDraft'
  <2> SUFFICES ASSUME NEW j \in Asked, Unsettled(j)', live'[LineOf[j]] # None PROVE draft'[j].late
    BY DEF NoOrphanDraft
  <2>1. LineOf[j] # l /\ live[LineOf[j]] # None
    BY <1>8, KeyFacts
  <2> QED BY <1>11, <1>12, <1>13, <2>1 DEF Desks, DraftsAreQuestions, NoOrphanDraft
<1>19. NoSpentDraft'
  <2> SUFFICES ASSUME NEW j \in Asked, Unsettled(j)', how'[j] # "no" PROVE draft'[j].again
    BY DEF NoSpentDraft
  <2>1. Unsettled(j)
    BY <1>2, <1>6, <1>7, <1>13
  <2> QED BY <1>2, <1>11, <2>1 DEF Desks, DraftsAreQuestions, NoSpentDraft
<1>20. Stands
  BY <1>6, <1>7, <1>12 DEF Stands, Unsettled
<1> QED BY <1>9, <1>14, <1>15, <1>16, <1>17, <1>18, <1>19, <1>20 DEF Desks, DraftsAreQuestions

-----------------------------------------------------------------------------
(* The invariant *)

\* One draft of the journal of questions gets a new status, nothing else of it changes.
LEMMA Restated ==
    ASSUME TypeOK, NEW k \in Asked, NEW x \in {"executed", "stale", "rejected"},
           draft' = [draft EXCEPT ![k].status = x]
    PROVE  /\ draft' \in [Asked -> Drafts] /\ draft'[k].status = x
           /\ \A j \in Asked :
                /\ draft'[j].closedBy = draft[j].closedBy /\ draft'[j].committed = draft[j].committed
                /\ draft'[j].earlier = draft[j].earlier
                /\ draft'[j].late = draft[j].late /\ draft'[j].again = draft[j].again
                /\ j # k => draft'[j].status = draft[j].status
<1> DEFINE new == [draft[k] EXCEPT !.status = x]
<1>1. draft[k] \in Drafts /\ draft \in [Asked -> Drafts]
  BY DEF TypeOK
<1>2. /\ new \in Drafts /\ new.status = x
      /\ new.closedBy = draft[k].closedBy /\ new.committed = draft[k].committed /\ new.earlier = draft[k].earlier
      /\ new.late = draft[k].late /\ new.again = draft[k].again
  BY <1>1 DEF Drafts, Refused
<1>3. draft' = [draft EXCEPT ![k] = new]
  OBVIOUS
<1> HIDE DEF new
<1>4. draft' \in [Asked -> Drafts]
  BY <1>1, <1>2, <1>3
<1>5. draft'[k] = new /\ \A j \in Asked : j # k => draft'[j] = draft[j]
  BY <1>1, <1>3
<1> QED BY <1>2, <1>4, <1>5

\* What everybody else does: lines and entries rest, drafts settle at most.
LEMMA QuietStep ==
    ASSUME IInv, UNCHANGED <<live, how, entry, crossed>>, moved' \subseteq Ruled,
           call' = call \/ \E p \in Proc, c \in Calls : Proper(c) /\ call' = [call EXCEPT ![p] = c],
           draft' = draft
           \/ \E k \in Asked, x \in {"executed", "stale", "rejected"} :
                /\ draft' = [draft EXCEPT ![k].status = x]
                /\ draft[k].status = "pending" /\ (x = "rejected" => Unsettled(k))
    PROVE  IInv' /\ Stands
<1>1. Lines /\ TypeOK /\ Desks
  BY DEF IInv, Lines
<1>2. draft' \in [Asked -> Drafts] /\ Desks' /\ Stands
  <2>1. CASE draft' = draft
    BY <1>1, <2>1, Settled DEF TypeOK
  <2>2. ASSUME NEW k \in Asked, NEW x \in {"executed", "stale", "rejected"},
               draft' = [draft EXCEPT ![k].status = x],
               draft[k].status = "pending", x = "rejected" => Unsettled(k)
        PROVE  draft' \in [Asked -> Drafts] /\ Desks' /\ Stands
    <3>1. /\ draft' \in [Asked -> Drafts] /\ draft'[k].status = x
          /\ \A j \in Asked :
                /\ draft'[j].closedBy = draft[j].closedBy /\ draft'[j].committed = draft[j].committed
                /\ draft'[j].earlier = draft[j].earlier
                /\ draft'[j].late = draft[j].late /\ draft'[j].again = draft[j].again
                /\ j # k => draft'[j].status = draft[j].status
      BY <1>1, <2>2, Restated
    <3>2. \A j \in Asked : \/ draft'[j].status = draft[j].status
                           \/ draft[j].status = "pending" /\ draft'[j].status \in {"executed", "stale"}
                           \/ Unsettled(j) /\ draft'[j].status = "rejected"
      BY <2>2, <3>1
    <3> QED BY <1>1, <3>1, <3>2, Settled
  <2> QED BY <2>1, <2>2
<1>3. Lines'
  BY <1>1, <1>2, Elsewhere
<1>4. TransferOnce'
  BY NothingPosted DEF IInv
<1> QED BY <1>2, <1>3, <1>4 DEF IInv

\* An inbox nobody touched yet.
LEMMA InvInit == Init => IInv
<1> SUFFICES ASSUME Init PROVE IInv
  OBVIOUS
<1>1. NoDraft \in Drafts /\ NoDraft.status = "none" /\ NoDraft.closedBy = None /\ NoDraft.committed = FALSE
  BY DEF NoDraft, Drafts
<1>2. /\ \A l \in Line : live[l] = None
      /\ \A k \in Key : how[k] = "no" /\ entry[k] = "none" /\ LineOf[k] \in Line /\ k # None
      /\ \A e \in Hand : entry[e] = "stands"
      /\ \A k \in Asked : draft[k] = NoDraft
      /\ \A p \in Proc : call[p] = Idle
  BY KeyFacts DEF Init
<1>3. TypeOK
  BY <1>1 DEF Init, TypeOK, Calls
<1>4. Busy /\ Linked /\ Posted /\ Crossed
  BY <1>2 DEF Busy, Linked, Posted, Crossed, Idle
<1>5. OneHolder /\ BookedWhileDecided /\ RestsOnStanding
  BY <1>2 DEF OneHolder, BookedWhileDecided, RestsOnStanding
<1>6. Committed /\ ClosedHere /\ Aged
  BY <1>1, <1>2, KeyFacts DEF Committed, ClosedHere, Aged
<1>7. TransferOnce
  BY <1>2 DEF TransferOnce
<1>8. DraftsAreQuestions
  BY <1>1, <1>2 DEF DraftsAreQuestions, OneDraftPerDesk, NoOrphanDraft, NoSpentDraft, Unsettled
<1> QED BY <1>3, <1>4, <1>5, <1>6, <1>7, <1>8 DEF IInv, Lines, Desks

\* One case for each action.
LEMMA InvStep ==
    ASSUME IInv, [Next]_vars
    PROVE  IInv' /\ Stands
<1>0. Lines /\ Desks /\ TransferOnce /\ TypeOK /\ Busy /\ Posted /\ BookedWhileDecided
  BY DEF IInv, Lines
<1>1. CASE UNCHANGED vars
  BY <1>0, <1>1, QuietStep DEF vars, TypeOK
<1>2. ASSUME NEW k \in Key, Direct(k) PROVE IInv' /\ Stands
  <2>1. Decide(k, {}) /\ call' = call
    BY <1>2 DEF Direct
  <2>2. Desks' /\ Stands /\ draft' \in [Asked -> Drafts]
    BY <1>0, <2>1, DecidedDesks
  <2>3. Lines'
    BY <1>0, <2>1, <2>2, Decided DEF TypeOK
  <2>4. TransferOnce'
    BY <1>0, <2>1, TransferDecided
  <2> QED BY <2>2, <2>3, <2>4 DEF IInv
<1>3. ASSUME NEW k \in Key, EditRule(k) PROVE IInv' /\ Stands
  <2>1. UNCHANGED <<live, how, entry, crossed>> /\ moved' \subseteq Ruled /\ call' = call /\ draft' = draft
    BY <1>0, <1>3 DEF EditRule, TypeOK
  <2> QED BY <2>1, QuietStep
<1>4. ASSUME NEW k \in Asked, Reject(k) PROVE IInv' /\ Stands
  <2>1. /\ UNCHANGED <<live, how, entry, crossed>> /\ moved' \subseteq Ruled /\ call' = call
        /\ draft' = [draft EXCEPT ![k].status = "rejected"] /\ draft[k].status = "pending" /\ Unsettled(k)
    BY <1>0, <1>4 DEF Reject, TypeOK, Unsettled
  <2> QED BY <2>1, QuietStep
<1>5. ASSUME NEW k \in Asked, NEW p \in Proc, Screen(p, k) PROVE IInv' /\ Stands
  <2>1. /\ UNCHANGED <<live, how, entry, crossed>> /\ moved' \subseteq Ruled /\ draft' = draft
        /\ call' = [call EXCEPT ![p] = [stage |-> "screened", on |-> k]]
    BY <1>0, <1>5 DEF Screen, TypeOK, Goes
  <2>2. [stage |-> "screened", on |-> k] \in Calls /\ Proper([stage |-> "screened", on |-> k])
    BY KeyFacts DEF Calls, Stages, Proper
  <2> QED BY <2>1, <2>2, QuietStep
<1>6. ASSUME NEW k \in Asked, NEW p \in Proc, Judge(p, k) PROVE IInv' /\ Stands
  <2>1. UNCHANGED <<live, how, entry, crossed>> /\ moved' \subseteq Ruled /\ draft[k].status = "pending"
    BY <1>0, <1>6 DEF Judge, TypeOK
  <2>2. CASE draft' = [draft EXCEPT ![k].status = "stale"] /\ call' = call
    BY <2>1, <2>2, QuietStep
  <2>3. CASE call' = [call EXCEPT ![p] = [stage |-> "judged", on |-> k]] /\ draft' = draft
    <3>1. [stage |-> "judged", on |-> k] \in Calls /\ Proper([stage |-> "judged", on |-> k])
      BY KeyFacts DEF Calls, Stages, Proper
    <3> QED BY <2>1, <2>3, <3>1, QuietStep
  <2> QED BY <1>6, <2>2, <2>3 DEF Judge, Goes
<1>7. ASSUME NEW p \in Proc, Queue(p) PROVE IInv' /\ Stands
  <2>1. Desks' /\ Stands /\ draft' \in [Asked -> Drafts]
    BY <1>0, <1>7, QueuedDesks
  <2>2. UNCHANGED <<live, how, entry, crossed>> /\ moved' \subseteq Ruled /\ call' = [call EXCEPT ![p] = Idle]
    BY <1>0, <1>7 DEF Queue, TypeOK, Ends
  <2>3. Idle \in Calls /\ Proper(Idle)
    BY DEF Calls, Idle, Proper
  <2>4. Lines'
    BY <1>0, <2>1, <2>2, <2>3, Elsewhere
  <2>5. TransferOnce'
    BY <1>0, <2>2, NothingPosted
  <2> QED BY <2>1, <2>4, <2>5 DEF IInv
<1>8. ASSUME NEW p \in Proc, ReplayBooks(p) PROVE IInv' /\ Stands
  <2>1. PICK k \in Asked : k = call[p].on
    BY <1>0, <1>8 DEF Busy, ReplayBooks
  <2>2. Decide(k, {k}) /\ Markable(k) /\ call' = [call EXCEPT ![p] = [stage |-> "ran", on |-> k]] /\ k \in Key
    BY <1>8, <2>1, KeyFacts DEF ReplayBooks, Goes
  <2>3. Desks' /\ Stands /\ draft' \in [Asked -> Drafts]
    BY <1>0, <2>2, DecidedDesks
  <2>4. [stage |-> "ran", on |-> k] \in Calls /\ call \in [Proc -> Calls]
    BY <1>0, KeyFacts DEF Calls, Stages, TypeOK
  <2>5. call' \in [Proc -> Calls]
    BY <2>2, <2>4
  <2>6. \A q \in Proc : call'[q] = call[q] \/ (call'[q].stage = "ran" /\ call'[q].on \in Asked)
    BY <2>2, <2>4
  <2>7. Lines'
    BY <1>0, <2>2, <2>3, <2>5, <2>6, Decided
  <2>8. TransferOnce'
    BY <1>0, <2>2, TransferDecided
  <2> QED BY <2>3, <2>7, <2>8 DEF IInv
<1>9. ASSUME NEW p \in Proc, ReplayAnswers(p) PROVE IInv' /\ Stands
  <2>1. PICK k \in Asked : k = call[p].on
    BY <1>0, <1>9 DEF Busy, ReplayAnswers
  <2>2. /\ UNCHANGED <<live, how, entry, crossed>> /\ moved' \subseteq Ruled /\ draft' = draft
        /\ call' = [call EXCEPT ![p] = [stage |-> "ran", on |-> k]]
    BY <1>0, <1>9, <2>1 DEF ReplayAnswers, TypeOK, Goes
  <2>3. [stage |-> "ran", on |-> k] \in Calls /\ Proper([stage |-> "ran", on |-> k])
    BY KeyFacts DEF Calls, Stages, Proper
  <2> QED BY <2>2, <2>3, QuietStep
<1>10. ASSUME NEW p \in Proc, ReplayRefused(p) \/ ReopenRefused(p) \/ Crash(p) PROVE IInv' /\ Stands
  <2>1. /\ UNCHANGED <<live, how, entry, crossed>> /\ moved' \subseteq Ruled /\ draft' = draft
        /\ call' = [call EXCEPT ![p] = Idle]
    BY <1>0, <1>10 DEF ReplayRefused, ReopenRefused, Crash, TypeOK, Ends
  <2>2. Idle \in Calls /\ Proper(Idle)
    BY DEF Calls, Idle, Proper
  <2> QED BY <2>1, <2>2, QuietStep
<1>11. ASSUME NEW p \in Proc, Flip(p) PROVE IInv' /\ Stands
  <2>1. PICK k \in Asked : k = call[p].on
    BY <1>0, <1>11 DEF Busy, Flip
  <2>2. /\ UNCHANGED <<live, how, entry, crossed>> /\ moved' \subseteq Ruled
        /\ call' = [call EXCEPT ![p] = Idle]
        /\ draft' = draft \/ (draft[k].status = "pending" /\ draft' = [draft EXCEPT ![k].status = "executed"])
    BY <1>0, <1>11, <2>1 DEF Flip, TypeOK, Ends
  <2>3. Idle \in Calls /\ Proper(Idle)
    BY DEF Calls, Idle, Proper
  <2> QED BY <2>2, <2>3, QuietStep
<1>12. ASSUME NEW p \in Proc, NEW l \in Line, ReadDecision(p, l) PROVE IInv' /\ Stands
  <2>1. PICK k \in Key : k = live[l]
    BY <1>0, <1>12 DEF ReadDecision, TypeOK
  <2>2. /\ UNCHANGED <<live, how, entry, crossed>> /\ moved' \subseteq Ruled /\ draft' = draft
        /\ call' = [call EXCEPT ![p] = [stage |-> "reopening", on |-> k]]
    BY <1>0, <1>12, <2>1 DEF ReadDecision, TypeOK, Goes
  <2>3. [stage |-> "reopening", on |-> k] \in Calls /\ Proper([stage |-> "reopening", on |-> k])
    BY KeyFacts DEF Calls, Stages, Proper
  <2> QED BY <2>2, <2>3, QuietStep
<1>13. ASSUME NEW p \in Proc, Reopen(p) PROVE IInv' /\ Stands
  <2>1. Desks' /\ Stands /\ draft' \in [Asked -> Drafts]
    BY <1>0, <1>13, ReopenedDesks
  <2>2. Lines'
    BY <1>0, <1>13, <2>1, Reopened
  <2>3. how' = how /\ \A k \in Key : entry'[k] = "stands" => entry[k] = "stands"
    BY <1>0, <1>13, KeyFacts DEF Reopen, Undone, Busy, TypeOK
  <2>4. TransferOnce'
    BY <1>0, <2>3, NothingPosted
  <2> QED BY <2>1, <2>2, <2>4 DEF IInv
<1>14. ASSUME NEW p \in Proc, ReverseEntry(p) PROVE IInv' /\ Stands
  <2>1. Lines'
    BY <1>0, <1>14, ReversedByHand
  <2>2. draft' = draft /\ UNCHANGED <<live, how>>
    BY <1>14 DEF ReverseEntry
  <2>3. Desks' /\ Stands
    BY <1>0, <2>2, Settled
  <2>4. \A k \in Key : entry'[k] = "stands" => entry[k] = "stands"
    BY <1>0, <1>14, KeyFacts DEF ReverseEntry, Busy, TypeOK
  <2>5. TransferOnce'
    BY <1>0, <2>2, <2>4, NothingPosted
  <2> QED BY <2>1, <2>3, <2>5 DEF IInv
\* A booking a line stands for is held by that line: what reverse_entry may begin on was posted by hand.
<1>15. ASSUME NEW p \in Proc, NEW e \in Entry, ReadEntry(p, e) PROVE IInv' /\ Stands
  <2>1. /\ UNCHANGED <<live, how, entry, crossed>> /\ moved' \subseteq Ruled /\ draft' = draft
        /\ call' = [call EXCEPT ![p] = [stage |-> "reversing", on |-> e]]
        /\ entry[e] = "stands" /\ ~Held(e, live)
    BY <1>0, <1>15 DEF ReadEntry, TypeOK, Goes, Releasable
  <2>2. e \in Hand
    <3> SUFFICES ASSUME e \in Key PROVE FALSE
      BY DEF Entry
    <3>1. Books(e) /\ live[LineOf[e]] = e
      BY <1>0, <2>1 DEF Posted, BookedWhileDecided
    <3> QED BY <2>1, <3>1, KeyFacts DEF Held
  <2>3. [stage |-> "reversing", on |-> e] \in Calls /\ Proper([stage |-> "reversing", on |-> e])
    BY <2>1, <2>2 DEF Calls, Stages, Proper
  <2> QED BY <2>1, <2>3, QuietStep
<1> QED
  BY <1>1, <1>2, <1>3, <1>4, <1>5, <1>6, <1>7, <1>8, <1>9, <1>10, <1>11, <1>12, <1>13, <1>14, <1>15 DEF Next

\* Lines, entries and drafts keep the invariant under every interleaving of the calls.
THEOREM Invariant == Spec => []IInv
<1>1. Init => IInv
  BY InvInit
<1>2. IInv /\ [Next]_vars => IInv'
  BY InvStep
<1> QED BY <1>1, <1>2, PTL DEF Spec

-----------------------------------------------------------------------------
(* The promises *)

\* No two lines live on the same leg of the ledger. (validateClaims, writeLineLink)
THEOREM OneLinePerLeg == Spec => []OneHolder
<1>1. IInv => OneHolder
  BY DEF IInv, Lines
<1> QED BY <1>1, Invariant, PTL

\* A booking stands in the ledger while its line's decision stands and only then; what a decided line rests
\* on stands too, unless a reversal by hand had begun. (performBooking, reopenBankLine, reverse)
THEOREM LinesAgreeWithLedger == Spec => []LineIsLedger
<1>1. IInv => LineIsLedger
  BY DEF IInv, Lines, LineIsLedger
<1> QED BY <1>1, Invariant, PTL

\* Of the two sides of a transfer between own accounts one is booked: two standing bookings that mirror each
\* other are two transfers, of which a third line had taken one. (bookToAccounts)
THEOREM TransfersBookedOnce == Spec => []TransferOnce
<1>1. IInv => TransferOnce
  BY DEF IInv
<1> QED BY <1>1, Invariant, PTL

\* An open draft is the one question of its seat on a line that waits for it, under a key that has not
\* decided yet. (supersedeOlderLineDrafts, resolveLineDraftsOnDecision, reviveLineDraftsOnReopen)
THEOREM OpenDraftsAsk == Spec => []DraftsAreQuestions
<1>1. IInv => DraftsAreQuestions
  BY DEF IInv, Desks
<1> QED BY <1>1, Invariant, PTL

\* What reads rejected, replaced or closed never booked under an approval of it. (the commit mark)
THEOREM RefusalsNeverBook == Spec => []RefusedNeverBooked
<1>1. IInv => RefusedNeverBooked
  BY DEF IInv, Desks, Committed, RefusedNeverBooked, Refused
<1> QED BY <1>1, Invariant, PTL

\* A person's no, a replacement, an approval and a void are for good: only what a decision closed comes
\* back. (reviveLineDraftsOnReopen)
THEOREM AnswersAreFinal == Spec => AnswersStand
<1>1. IInv /\ [Next]_vars => [\A k \in Asked : draft[k].status \in {"rejected", "replaced", "executed", "stale"} =>
                                draft'[k].status = draft[k].status]_draft
  BY InvStep DEF Stands
<1> QED BY <1>1, Invariant, PTL DEF Spec, AnswersStand
=============================================================================
