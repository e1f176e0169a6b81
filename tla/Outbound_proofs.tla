--------------------------- MODULE Outbound_proofs --------------------------
(* Theorems about Outbound, for every number of processes, invoices, letters and batches. *)
EXTENDS Outbound, TLAPS

-----------------------------------------------------------------------------
(* Types *)

\* A call works on an item; what it says has left, has; and only an invoice's send is recorded apart.
Working ==
    \A p \in Proc :
        /\ call[p].stage \notin {"idle", "loop"} => call[p].item \in Item
        /\ call[p].stage = "out" => gone[call[p].item] > 0
        /\ call[p].stage \in {"record", "clear"} => call[p].item \in Invoice /\ gone[call[p].item] > 0

\* After an item the call is answered, or back in the loop.
LEMMA AfterTypes ==
    ASSUME TypeOK, NEW p \in Proc
    PROVE  AfterItem(p) \in Calls /\ AfterItem(p).stage \in {"idle", "loop"}
<1>1. call[p] \in Calls
  BY DEF TypeOK
<1>2. Idle \in Calls /\ Idle.stage = "idle"
  BY DEF Idle, Calls
<1>3. ASSUME NEW l \in Letter
      PROVE  LET k == [call[p] EXCEPT !.stage = "loop", !.item = None, !.todo = @ \ {l}]
             IN  k \in Calls /\ k.stage = "loop"
  BY <1>1 DEF Calls
<1> QED BY <1>2, <1>3 DEF AfterItem

\* A call for an item is one, and has that stage and that item.
LEMMA ForTypes ==
    ASSUME NEW i \in Item, NEW s \in {"intent", "record", "clear"}
    PROVE  For(s, i) \in Calls /\ For(s, i).stage = s /\ For(s, i).item = i
BY DEF For, Idle, Calls

\* What left counts up, and the item that leaves has left.
LEMMA LeavesTypes ==
    ASSUME TypeOK, NEW i \in Item
    PROVE  /\ Leaves(i) \in [Item -> 0..MaxGone] /\ Leaves(i)[i] > 0
           /\ \A j \in Item : Leaves(i)[j] >= gone[j] /\ (j # i => Leaves(i)[j] = gone[j])
           /\ gone[i] = 0 => Leaves(i)[i] = 1
<1>1. gone \in [Item -> 0..MaxGone]
  BY DEF TypeOK
<1>2. gone[i] \in 0..2 /\ MaxGone = 2
  BY <1>1 DEF MaxGone
<1>3. CASE gone[i] < MaxGone
  <2>1. Leaves(i) = [gone EXCEPT ![i] = gone[i] + 1]
    BY <1>3 DEF Leaves
  <2> QED BY <1>1, <1>2, <1>3, <2>1
<1>4. CASE ~(gone[i] < MaxGone)
  <2>1. Leaves(i) = [gone EXCEPT ![i] = gone[i]]
    BY <1>4 DEF Leaves
  <2> QED BY <1>1, <1>2, <1>4, <2>1
<1> QED BY <1>3, <1>4

\* Nothing comes back.
LEMMA GoneGrows ==
    ASSUME TypeOK, Working, [Next]_vars
    PROVE  gone' \in [Item -> 0..MaxGone] /\ \A i \in Item : gone'[i] >= gone[i]
<1>1. CASE gone' = gone
  BY <1>1 DEF TypeOK, MaxGone
<1>2. ASSUME NEW p \in Proc, call[p].stage = "wire", gone' = Leaves(call[p].item)
      PROVE  gone' \in [Item -> 0..MaxGone] /\ \A i \in Item : gone'[i] >= gone[i]
  BY <1>2, LeavesTypes DEF Working
<1>3. \/ gone' = gone
      \/ \E p \in Proc : call[p].stage = "wire" /\ gone' = Leaves(call[p].item)
  BY DEF Next, vars, BeginInvoice, BeginBatch, BeginRun, SkipLetter, TakeLetter, Pay, FailLetter, WriteIntent,
         Deliver, Decline, RecordOut, RecordSent, ClearAttempt, EndRun, Lose
<1> QED BY <1>1, <1>2, <1>3

\* Replacing one call by another that works keeps all of them working.
LEMMA CallWorks ==
    ASSUME TypeOK, Working, [Next]_vars, NEW p \in Proc, NEW c \in Calls, Goes(p, c),
           c.stage \notin {"idle", "loop"} => c.item \in Item,
           c.stage = "out" => gone'[c.item] > 0,
           c.stage \in {"record", "clear"} => c.item \in Invoice /\ gone'[c.item] > 0
    PROVE  call' \in [Proc -> Calls] /\ Working'
<1>1. call' \in [Proc -> Calls] /\ call'[p] = c /\ \A q \in Proc \ {p} : call'[q] = call[q]
  BY DEF Goes, TypeOK
<1>2. \A i \in Item : gone'[i] \in Nat /\ gone[i] \in Nat /\ gone'[i] >= gone[i]
  BY GoneGrows DEF TypeOK, MaxGone
<1>3. \A i \in Invoice : i \in Item
  BY DEF Item
<1>4. ASSUME NEW q \in Proc
      PROVE  /\ call'[q].stage \notin {"idle", "loop"} => call'[q].item \in Item
             /\ call'[q].stage = "out" => gone'[call'[q].item] > 0
             /\ call'[q].stage \in {"record", "clear"} => call'[q].item \in Invoice /\ gone'[call'[q].item] > 0
  <2>1. CASE q = p
    BY <1>1, <2>1
  <2>2. CASE q # p
    BY <1>1, <1>2, <1>3, <2>2 DEF Working
  <2> QED BY <2>1, <2>2
<1> QED BY <1>1, <1>4 DEF Working

\* So does a step to the next stage before the record, an answer, and the end of an item.
LEMMA MoveWorks ==
    ASSUME TypeOK, Working, [Next]_vars, NEW p \in Proc,
           \/ Goes(p, Idle)
           \/ Goes(p, AfterItem(p))
           \/ call[p].item \in Item /\ Goes(p, [call[p] EXCEPT !.stage = "wire"])
    PROVE  call' \in [Proc -> Calls] /\ Working'
<1>1. CASE Goes(p, Idle)
  <2>1. Idle \in Calls /\ Idle.stage = "idle"
    BY DEF Idle, Calls
  <2> QED BY <1>1, <2>1, CallWorks
<1>2. CASE Goes(p, AfterItem(p))
  <2> DEFINE c == AfterItem(p)
  <2>1. c \in Calls /\ c.stage \in {"idle", "loop"}
    BY AfterTypes
  <2>2. Goes(p, c)
    BY <1>2
  <2> HIDE DEF c
  <2> QED BY <2>1, <2>2, CallWorks
<1>3. CASE call[p].item \in Item /\ Goes(p, [call[p] EXCEPT !.stage = "wire"])
  <2> DEFINE c == [call[p] EXCEPT !.stage = "wire"]
  <2>1. c \in Calls /\ c.stage = "wire" /\ c.item = call[p].item
    BY DEF TypeOK, Calls
  <2>2. Goes(p, c) /\ call[p].item \in Item
    BY <1>3
  <2> HIDE DEF c
  <2> QED BY <2>1, <2>2, CallWorks
<1> QED BY <1>1, <1>2, <1>3

-----------------------------------------------------------------------------
(* What is recorded as sent was sent *)

\* Whatever record of a send there is, its item left; a 'sent' run has only sent letters.
Recordings ==
    /\ \A i \in Invoice \cup Letter : settled[i] => gone[i] > 0
    /\ \A b \in Batch : orders[b] > 0 => gone[b] > 0
    /\ \A i \in Item : attempt[i] = "transmitted" => gone[i] > 0
    /\ runSent => \A l \in Letter : settled[l]

SInv == TypeOK /\ Working /\ Recordings

\* A step that writes no such record keeps all of this.
LEMMA NoRecord ==
    ASSUME SInv, [Next]_vars, settled' = settled, orders' = orders, runSent' = runSent,
           \A i \in Item : attempt'[i] = "transmitted" => attempt[i] = "transmitted"
    PROVE  Recordings'
<1>1. \A i \in Item : gone'[i] \in Nat /\ gone[i] \in Nat /\ gone'[i] >= gone[i]
  BY GoneGrows DEF SInv, TypeOK, MaxGone
<1> QED BY <1>1 DEF SInv, Recordings, Item

\* Every step keeps it.
LEMMA SStep == SInv /\ [Next]_vars => SInv'
<1> SUFFICES ASSUME SInv, [Next]_vars PROVE SInv'
  OBVIOUS
<1> USE DEF SInv
<1> USE OutboundAssumptions
<1> DEFINE Rest == /\ attempt' \in [Item -> Attempts] /\ settled' \in [Item -> BOOLEAN]
                   /\ orders' \in [Batch -> 0..MaxGone] /\ runSent' \in BOOLEAN /\ paid' \subseteq Letter
           Same == settled' = settled /\ orders' = orders /\ runSent' = runSent
<1>1. gone' \in [Item -> 0..MaxGone] /\ \A i \in Item : gone'[i] >= gone[i]
  BY GoneGrows
<1>2. \A i \in Item : gone'[i] \in Nat /\ gone[i] \in Nat
  BY <1>1 DEF TypeOK, MaxGone
<1>3. UNCHANGED book => Rest /\ Same /\ attempt' = attempt
  BY DEF book, TypeOK
<1>4. ASSUME call' \in [Proc -> Calls] /\ Working', Rest, Recordings' PROVE SInv'
  BY <1>1, <1>4 DEF TypeOK
<1>5. \A p \in Proc : call[p].stage \notin {"idle", "loop"} => call[p].item \in Item
  BY DEF Working
<1>6. CASE UNCHANGED vars
  <2>1. call' = call /\ gone' = gone /\ UNCHANGED book
    BY <1>6 DEF vars
  <2>2. Recordings'
    BY <1>3, <2>1, NoRecord
  <2> QED BY <1>3, <1>4, <2>1, <2>2 DEF Working, TypeOK
<1>7. ASSUME NEW p \in Proc, NEW i \in Invoice, BeginInvoice(p, i) PROVE SInv'
  <2>1. i \in Item /\ UNCHANGED book
    BY <1>7 DEF BeginInvoice, Item
  <2>2. Goes(p, For("intent", i)) \/ (attempt[i] = "transmitted" /\ Goes(p, For("record", i)))
    BY <1>7 DEF BeginInvoice, SendInvoice
  <2>3. attempt[i] = "transmitted" => gone'[i] > 0
    BY <1>1, <1>2, <2>1 DEF Recordings
  <2>4. call' \in [Proc -> Calls] /\ Working'
    <3> DEFINE c(s) == For(s, i)
    <3>1. \A s \in {"intent", "record"} : c(s) \in Calls /\ c(s).stage = s /\ c(s).item = i
      BY <2>1, ForTypes
    <3> HIDE DEF c
    <3>2. CASE Goes(p, c("intent"))
      BY <2>1, <3>1, <3>2, CallWorks
    <3>3. CASE attempt[i] = "transmitted" /\ Goes(p, c("record"))
      BY <2>1, <2>3, <3>1, <3>3, CallWorks
    <3> QED BY <2>2, <3>2, <3>3 DEF c
  <2> QED BY <1>3, <1>4, <2>1, <2>4, NoRecord
<1>8. ASSUME NEW p \in Proc, NEW b \in Batch, BeginBatch(p, b) PROVE SInv'
  <2>1. b \in Item /\ UNCHANGED book /\ Goes(p, For("intent", b))
    BY <1>8 DEF BeginBatch, Item
  <2>2. call' \in [Proc -> Calls] /\ Working'
    <3> DEFINE c == For("intent", b)
    <3>1. c \in Calls /\ c.stage = "intent" /\ c.item = b
      BY <2>1, ForTypes
    <3>2. Goes(p, c)
      BY <2>1
    <3> HIDE DEF c
    <3> QED BY <2>1, <3>1, <3>2, CallWorks
  <2> QED BY <1>3, <1>4, <2>1, <2>2, NoRecord
<1>9. ASSUME NEW p \in Proc, BeginRun(p) PROVE SInv'
  <2> DEFINE c == [Idle EXCEPT !.stage = "loop", !.changed = paid,
                               !.todo = {l \in Letter : ~settled[l] /\ ~Unknown(l)}]
  <2>1. c \in Calls /\ c.stage = "loop"
    BY DEF Idle, Calls, TypeOK
  <2>2. Goes(p, c) /\ UNCHANGED book
    BY <1>9 DEF BeginRun
  <2> HIDE DEF c
  <2>3. call' \in [Proc -> Calls] /\ Working'
    BY <2>1, <2>2, CallWorks
  <2> QED BY <1>3, <1>4, <2>2, <2>3, NoRecord
<1>10. ASSUME NEW p \in Proc, NEW l \in Letter, SkipLetter(p, l) PROVE SInv'
  <2> DEFINE c == [call[p] EXCEPT !.todo = @ \ {l}]
  <2>1. call[p] \in Calls /\ call[p].stage = "loop"
    BY <1>10 DEF SkipLetter, TypeOK
  <2>2. c \in Calls /\ c.stage = "loop"
    BY <2>1 DEF Calls
  <2>3. Goes(p, c) /\ UNCHANGED book
    BY <1>10 DEF SkipLetter
  <2> HIDE DEF c
  <2>4. call' \in [Proc -> Calls] /\ Working'
    BY <2>2, <2>3, CallWorks
  <2> QED BY <1>3, <1>4, <2>3, <2>4, NoRecord
<1>11. ASSUME NEW p \in Proc, NEW l \in Letter, TakeLetter(p, l) PROVE SInv'
  <2> DEFINE c == [call[p] EXCEPT !.stage = "intent", !.item = l]
  <2>1. call[p] \in Calls /\ l \in Item
    BY DEF TypeOK, Item
  <2>2. c \in Calls /\ c.stage = "intent" /\ c.item = l
    BY <2>1 DEF Calls
  <2>3. Goes(p, c) /\ UNCHANGED book
    BY <1>11 DEF TakeLetter
  <2> HIDE DEF c
  <2>4. call' \in [Proc -> Calls] /\ Working'
    BY <2>1, <2>2, <2>3, CallWorks
  <2> QED BY <1>3, <1>4, <2>3, <2>4, NoRecord
<1>12. ASSUME NEW p \in Proc, FailLetter(p) \/ WriteIntent(p) \/ Decline(p) PROVE SInv'
  <2>1. call[p].stage \in {"intent", "wire"} /\ call[p].item \in Item
    BY <1>12, <1>5 DEF FailLetter, WriteIntent, Decline
  <2>2. /\ Same /\ paid' = paid
        /\ \/ attempt' = attempt
           \/ \E a \in {"none", "failed", "dispatching"} : attempt' = [attempt EXCEPT ![call[p].item] = a]
    BY <1>12 DEF FailLetter, WriteIntent, Decline, Marks, Retracted
  <2>3. Rest /\ \A i \in Item : attempt'[i] = "transmitted" => attempt[i] = "transmitted"
    BY <2>1, <2>2 DEF TypeOK, Attempts
  <2>4. Goes(p, AfterItem(p)) \/ Goes(p, [call[p] EXCEPT !.stage = "wire"])
    BY <1>12 DEF FailLetter, WriteIntent, Decline
  <2>5. call' \in [Proc -> Calls] /\ Working'
    BY <2>1, <2>4, MoveWorks
  <2> QED BY <1>4, <2>2, <2>3, <2>5, NoRecord
<1>13. ASSUME NEW p \in Proc, Deliver(p) PROVE SInv'
  <2> DEFINE c == [call[p] EXCEPT !.stage = "out"]
  <2>1. call[p] \in Calls /\ call[p].item \in Item
    BY <1>13, <1>5 DEF Deliver, TypeOK
  <2>2. c \in Calls /\ c.stage = "out" /\ c.item = call[p].item
    BY <2>1 DEF Calls
  <2>3. gone'[call[p].item] > 0
    BY <1>13, <2>1, LeavesTypes DEF Deliver
  <2>4. Goes(p, c) /\ UNCHANGED book
    BY <1>13 DEF Deliver
  <2> HIDE DEF c
  <2>5. call' \in [Proc -> Calls] /\ Working'
    BY <2>1, <2>2, <2>3, <2>4, CallWorks
  <2> QED BY <1>3, <1>4, <2>4, <2>5, NoRecord
<1>14. ASSUME NEW p \in Proc, RecordOut(p) PROVE SInv'
  <2>1. call[p].item \in Item /\ gone'[call[p].item] > 0 /\ gone' = gone
    BY <1>14, <1>5 DEF RecordOut, Working
  <2>2. PICK i \in Item : i = call[p].item
    BY <2>1
  <2>3. /\ attempt' = [attempt EXCEPT ![i] = Recorded(i)]
        /\ settled' = IF i \in Letter THEN [settled EXCEPT ![i] = TRUE] ELSE settled
        /\ orders' = IF i \in Batch /\ orders[i] < MaxGone THEN [orders EXCEPT ![i] = orders[i] + 1] ELSE orders
        /\ runSent' = runSent /\ paid' = paid
    BY <1>14, <2>2 DEF RecordOut, Marks
  <2>4. Recorded(i) \in {"none", "transmitted", "sent"}
    BY DEF Recorded
  <2>5. orders' \in [Batch -> 0..MaxGone] /\ \A b \in Batch : b # i => orders'[b] = orders[b]
    BY <2>3 DEF TypeOK, MaxGone
  <2>6. /\ settled' \in [Item -> BOOLEAN]
        /\ \A j \in Item : (j # i => settled'[j] = settled[j]) /\ (settled[j] => settled'[j])
    BY <2>3, Zenon DEF TypeOK
  <2>7. attempt' \in [Item -> Attempts] /\ \A j \in Item : j # i => attempt'[j] = attempt[j]
    BY <2>3, <2>4 DEF TypeOK, Attempts
  <2>8. Recordings'
    BY <2>1, <2>2, <2>3, <2>5, <2>6, <2>7 DEF Recordings, Item
  <2>9. call' \in [Proc -> Calls] /\ Working'
    <3>1. CASE i \in Invoice
      <4> DEFINE c == For("record", i)
      <4>1. c \in Calls /\ c.stage = "record" /\ c.item = i
        BY ForTypes
      <4>2. Goes(p, c)
        BY <1>14, <2>2, <3>1 DEF RecordOut
      <4> HIDE DEF c
      <4> QED BY <2>1, <2>2, <3>1, <4>1, <4>2, CallWorks
    <3>2. CASE i \notin Invoice
      BY <1>14, <2>2, <3>2, MoveWorks DEF RecordOut
    <3> QED BY <3>1, <3>2
  <2>10. Rest
    BY <2>3, <2>5, <2>6, <2>7 DEF TypeOK
  <2> QED BY <1>4, <2>8, <2>9, <2>10
<1>15. ASSUME NEW p \in Proc, RecordSent(p) PROVE SInv'
  <2>1. call[p].item \in Invoice /\ gone[call[p].item] > 0 /\ gone' = gone
    BY <1>15 DEF RecordSent, Working
  <2>2. PICK i \in Invoice : i = call[p].item
    BY <2>1
  <2>3. /\ settled' = [settled EXCEPT ![i] = TRUE]
        /\ attempt' = attempt /\ orders' = orders /\ runSent' = runSent /\ paid' = paid
    BY <1>15, <2>2 DEF RecordSent
  <2>4. i \in Item /\ i \notin Letter
    BY DEF Item
  <2>5. settled' \in [Item -> BOOLEAN] /\ \A j \in Item : j # i => settled'[j] = settled[j]
    BY <2>3, <2>4 DEF TypeOK
  <2>6. Recordings'
    BY <2>1, <2>2, <2>3, <2>4, <2>5 DEF Recordings, Item
  <2> DEFINE c == For("clear", i)
  <2>7. c \in Calls /\ c.stage = "clear" /\ c.item = i
    BY <2>4, ForTypes
  <2>8. Goes(p, c)
    BY <1>15, <2>2 DEF RecordSent
  <2> HIDE DEF c
  <2>9. call' \in [Proc -> Calls] /\ Working'
    BY <2>1, <2>2, <2>4, <2>7, <2>8, CallWorks
  <2>10. Rest
    BY <2>3, <2>5 DEF TypeOK
  <2> QED BY <1>4, <2>6, <2>9, <2>10
<1>16. ASSUME NEW p \in Proc, ClearAttempt(p) PROVE SInv'
  <2>1. call[p].item \in Item /\ Goes(p, Idle) /\ Same /\ paid' = paid
    BY <1>16, <1>5 DEF ClearAttempt
  <2>2. attempt' = [attempt EXCEPT ![call[p].item] = "none"]
    BY <1>16 DEF ClearAttempt, Marks
  <2>3. Rest /\ \A i \in Item : attempt'[i] = "transmitted" => attempt[i] = "transmitted"
    BY <2>1, <2>2 DEF TypeOK, Attempts
  <2>4. call' \in [Proc -> Calls] /\ Working'
    BY <2>1, MoveWorks
  <2> QED BY <1>4, <2>1, <2>3, <2>4, NoRecord
<1>17. ASSUME NEW p \in Proc, EndRun(p) PROVE SInv'
  <2>1. /\ Goes(p, Idle) /\ gone' = gone /\ runSent' = (runSent \/ FullySent)
        /\ attempt' = attempt /\ settled' = settled /\ orders' = orders /\ paid' = paid
    BY <1>17 DEF EndRun
  <2>2. Recordings'
    BY <2>1 DEF Recordings, FullySent
  <2>3. runSent' \in BOOLEAN
    BY <2>1
  <2>4. Rest
    BY <2>1, <2>3 DEF TypeOK
  <2>5. call' \in [Proc -> Calls] /\ Working'
    BY <2>1, MoveWorks
  <2> QED BY <1>4, <2>2, <2>4, <2>5
<1>18. ASSUME NEW p \in Proc, Lose(p) PROVE SInv'
  <2>1. Goes(p, Idle) /\ UNCHANGED book
    BY <1>18 DEF Lose
  <2>2. call' \in [Proc -> Calls] /\ Working'
    BY <2>1, MoveWorks
  <2> QED BY <1>3, <1>4, <2>1, <2>2, NoRecord
<1>19. ASSUME NEW p \in Proc, NEW l \in Letter, Pay(p, l) PROVE SInv'
  <2>1. call' = call /\ gone' = gone /\ Same /\ attempt' = attempt /\ paid' = paid \cup {l}
    BY <1>19 DEF Pay
  <2>2. Recordings'
    BY <2>1, NoRecord
  <2> QED BY <1>4, <2>1, <2>2 DEF Working, TypeOK
<1> QED BY <1>6, <1>7, <1>8, <1>9, <1>10, <1>11, <1>12, <1>13, <1>14, <1>15, <1>16, <1>17, <1>18, <1>19
        DEF Next

LEMMA SInit == Init => SInv
<1> SUFFICES ASSUME Init PROVE SInv
  OBVIOUS
<1>1. Idle \in Calls /\ Idle.stage = "idle"
  BY DEF Idle, Calls
<1>2. attempt \in [Item -> Attempts] /\ settled \in [Item -> BOOLEAN] /\ runSent \in BOOLEAN
  BY DEF Init, Attempts
<1>3. orders \in [Batch -> 0..MaxGone] /\ gone \in [Item -> 0..MaxGone]
  BY DEF Init, MaxGone
<1>4. call \in [Proc -> Calls] /\ paid \subseteq Letter
  BY <1>1 DEF Init
<1>5. \A p \in Proc : call[p].stage = "idle"
  BY <1>1 DEF Init
<1>6. Recordings
  BY DEF Init, Recordings, Item
<1> QED BY <1>2, <1>3, <1>4, <1>5, <1>6 DEF SInv, TypeOK, Working

LEMMA SInvariant == Spec => []SInv
BY SInit, SStep, PTL DEF Spec

\* Every variable has its type in every reachable state.
THEOREM TypeCorrect == Spec => []TypeOK
<1>1. SInv => TypeOK
  BY DEF SInv
<1> QED BY <1>1, SInvariant, PTL

\* Whatever is recorded as sent did leave, wherever a call died and whoever ran beside it: no path of
\* the three verbs writes a sent record without a transmission.
THEOREM SentMeansSent == Spec => []SentIsReal
<1>1. SInv => SentIsReal
  BY DEF SInv, Recordings, SentIsReal
<1> QED BY <1>1, SInvariant, PTL

-----------------------------------------------------------------------------
(* A letter leaves once *)

\* A dunning run by itself, whose letters can all be rendered and addressed.
LettersOnly == Invoice = {} /\ Batch = {} /\ ~MayFailLetter

\* Between its claim and its record a process owns its letter: it is alone with it, the letter stands at
\* 'dispatching', and it left exactly if the transport answered.  A letter nobody claimed never left.
Owns(p) == call[p].stage \in {"wire", "out"}
LInv ==
    /\ SInv
    /\ \A p \in Proc : Owns(p) => attempt[call[p].item] = "dispatching" /\ ~settled[call[p].item]
    /\ \A p, q \in Proc : Owns(p) /\ Owns(q) /\ call[p].item = call[q].item => p = q
    /\ \A p \in Proc : call[p].stage = "wire" => gone[call[p].item] = 0
    /\ \A l \in Item : ~settled[l] /\ attempt[l] # "dispatching" => gone[l] = 0
    /\ NeverTwice

\* Only the steps between claim and record touch any of this.
LEMMA LKeeps ==
    ASSUME LInv, SInv', UNCHANGED <<attempt, settled, gone>>,
           \A p \in Proc : call'[p].stage \in {"wire", "out"} => call'[p] = call[p]
    PROVE  LInv'
BY DEF LInv, Owns, NeverTwice

LEMMA LStep == LettersOnly /\ LInv /\ [Next]_vars => LInv'
<1> SUFFICES ASSUME LettersOnly, LInv, [Next]_vars PROVE LInv'
  OBVIOUS
<1>1. SInv'
  BY SStep DEF LInv
<1>2. Item = Letter
  BY DEF LettersOnly, Item
<1>3. /\ call \in [Proc -> Calls] /\ attempt \in [Item -> Attempts] /\ settled \in [Item -> BOOLEAN]
      /\ gone \in [Item -> 0..2]
      /\ \A p \in Proc : call[p].stage \notin {"idle", "loop"} => call[p].item \in Letter
      /\ \A p \in Proc : call[p].stage \notin {"record", "clear"}
  BY <1>2 DEF LInv, SInv, TypeOK, MaxGone, Working, LettersOnly
<1>4. \A p \in Proc : AfterItem(p) \in Calls /\ AfterItem(p).stage \in {"idle", "loop"}
  BY AfterTypes DEF LInv, SInv
<1>5. Idle.stage = "idle"
  BY DEF Idle
\* p leaves its letter, or never had one.
<1>6. ASSUME NEW p \in Proc, UNCHANGED <<attempt, settled, gone>>,
             \A q \in Proc \ {p} : call'[q] = call[q],
             call'[p].stage \notin {"wire", "out"}
      PROVE  LInv'
  <2>1. \A q \in Proc : call'[q].stage \in {"wire", "out"} => call'[q] = call[q]
    BY <1>6
  <2> QED BY <1>1, <1>6, <2>1, LKeeps
<1>7. ASSUME NEW p \in Proc, NEW k, Goes(p, k) PROVE call'[p] = k /\ \A q \in Proc \ {p} : call'[q] = call[q]
  BY <1>3, <1>7 DEF Goes
<1>8. CASE UNCHANGED vars \/ \E p \in Proc : \E l \in Letter : Pay(p, l)
  <2>1. UNCHANGED <<attempt, settled, gone, call>>
    BY <1>8 DEF vars, book, Pay
  <2> QED BY <1>1, <2>1, LKeeps
<1>9. ASSUME NEW p \in Proc, BeginRun(p) PROVE LInv'
  <2> DEFINE c == [Idle EXCEPT !.stage = "loop", !.changed = paid,
                               !.todo = {l \in Letter : ~settled[l] /\ ~Unknown(l)}]
  <2>1. c.stage = "loop"
    BY DEF Idle
  <2>2. Goes(p, c) /\ UNCHANGED <<attempt, settled, gone>>
    BY <1>9 DEF BeginRun, book
  <2> HIDE DEF c
  <2> QED BY <1>6, <1>7, <2>1, <2>2
<1>10. ASSUME NEW p \in Proc, NEW l \in Letter, SkipLetter(p, l) \/ TakeLetter(p, l) PROVE LInv'
  <2> DEFINE c == [call[p] EXCEPT !.todo = @ \ {l}]
             d == [call[p] EXCEPT !.stage = "intent", !.item = l]
  <2>1. call[p] \in Calls /\ call[p].stage = "loop"
    BY <1>10, <1>3 DEF SkipLetter, TakeLetter
  <2>2. c.stage = "loop" /\ d.stage = "intent"
    BY <2>1 DEF Calls
  <2>3. (Goes(p, c) \/ Goes(p, d)) /\ UNCHANGED <<attempt, settled, gone>>
    BY <1>10 DEF SkipLetter, TakeLetter, book
  <2> HIDE DEF c, d
  <2> QED BY <1>6, <1>7, <2>2, <2>3
<1>11. ASSUME NEW p \in Proc, WriteIntent(p) PROVE LInv'
  <2>1. PICK l \in Letter : l = call[p].item
    BY <1>11, <1>3 DEF WriteIntent
  <2>2. CASE ~Claims(l)
    <3>1. Goes(p, AfterItem(p)) /\ UNCHANGED <<attempt, settled, gone>>
      BY <1>11, <2>1, <2>2 DEF WriteIntent
    <3> QED BY <1>4, <1>6, <1>7, <3>1
  <2>3. CASE Claims(l)
    <3> DEFINE c == [call[p] EXCEPT !.stage = "wire"]
    <3>1. c.stage = "wire" /\ c.item = l
      BY <1>3, <2>1 DEF Calls
    <3>2. /\ Goes(p, c) /\ attempt' = [attempt EXCEPT ![l] = "dispatching"]
          /\ settled' = settled /\ gone' = gone
      BY <1>11, <2>1, <2>3 DEF WriteIntent, Marks
    <3>3. ~settled[l] /\ attempt[l] # "dispatching"
      BY <2>3 DEF Claims
    <3> HIDE DEF c
    <3>4. call'[p] = c /\ \A q \in Proc \ {p} : call'[q] = call[q]
      BY <1>7, <3>2
    <3>5. gone[l] = 0 /\ \A q \in Proc : Owns(q) => call[q].item # l
      BY <1>2, <3>3 DEF LInv
    <3>6. attempt'[l] = "dispatching" /\ \A m \in Item : m # l => attempt'[m] = attempt[m]
      BY <1>2, <1>3, <3>2
    <3> QED BY <1>1, <1>2, <3>1, <3>2, <3>3, <3>4, <3>5, <3>6 DEF LInv, Owns, NeverTwice
  <2> QED BY <2>2, <2>3
<1>12. ASSUME NEW p \in Proc, Deliver(p) PROVE LInv'
  <2>1. PICK l \in Letter : l = call[p].item
    BY <1>12, <1>3 DEF Deliver
  <2> DEFINE c == [call[p] EXCEPT !.stage = "out"]
  <2>2. c.stage = "out" /\ c.item = l /\ call[p].stage = "wire"
    BY <1>12, <1>3, <2>1 DEF Calls, Deliver
  <2>3. Goes(p, c) /\ attempt' = attempt /\ settled' = settled /\ gone' = Leaves(l)
    BY <1>12, <2>1 DEF Deliver, book
  <2>4. gone[l] = 0 /\ attempt[l] = "dispatching" /\ ~settled[l]
    BY <2>1, <2>2 DEF LInv, Owns
  <2>5. gone'[l] = 1 /\ \A m \in Item : m # l => gone'[m] = gone[m]
    BY <1>2, <2>3, <2>4, LeavesTypes DEF LInv, SInv
  <2> HIDE DEF c
  <2>6. call'[p] = c /\ \A q \in Proc \ {p} : call'[q] = call[q]
    BY <1>7, <2>3
  <2>7. \A q \in Proc : Owns(q) /\ q # p => call[q].item # l
    BY <2>1, <2>2 DEF LInv, Owns
  <2> QED BY <1>1, <1>2, <1>3, <2>1, <2>2, <2>3, <2>4, <2>5, <2>6, <2>7 DEF LInv, Owns, NeverTwice
<1>13. ASSUME NEW p \in Proc, Decline(p) \/ RecordOut(p) PROVE LInv'
  <2>1. PICK l \in Letter : l = call[p].item
    BY <1>13, <1>3 DEF Decline, RecordOut
  <2>2. l \notin Invoice /\ Owns(p) /\ attempt[l] = "dispatching" /\ ~settled[l]
    BY <1>13, <2>1 DEF LettersOnly, Decline, RecordOut, Owns, LInv
  <2>3. Goes(p, AfterItem(p)) /\ gone' = gone
    BY <1>13, <2>1, <2>2 DEF Decline, RecordOut
  <2>4. \/ call[p].stage = "wire" /\ settled' = settled
        \/ settled' = [settled EXCEPT ![l] = TRUE]
    BY <1>13, <2>1 DEF Decline, RecordOut
  <2>5. \E a \in {"none", "failed"} : attempt' = [attempt EXCEPT ![l] = a]
    BY <1>13, <2>1, <2>2 DEF Decline, RecordOut, Marks, Retracted, Recorded
  <2>6. \A m \in Item : m # l => attempt'[m] = attempt[m] /\ settled'[m] = settled[m]
    BY <1>3, <2>4, <2>5
  <2>7. call'[p].stage \notin {"wire", "out"} /\ \A q \in Proc \ {p} : call'[q] = call[q]
    BY <1>4, <1>7, <2>3
  <2>8. \A q \in Proc : Owns(q) /\ q # p => call[q].item # l
    BY <2>1, <2>2 DEF LInv
  <2>9. settled'[l] \/ gone'[l] = 0
    <3>1. CASE settled' = [settled EXCEPT ![l] = TRUE]
      BY <1>2, <1>3, <3>1
    <3>2. CASE call[p].stage = "wire"
      BY <2>1, <2>3, <3>2 DEF LInv
    <3> QED BY <2>4, <3>1, <3>2
  <2>10. \A q \in Proc : Owns(q)' => q # p /\ Owns(q) /\ call'[q] = call[q] /\ call[q].item \in Item
    BY <1>2, <1>3, <2>7 DEF Owns
  <2> QED BY <1>1, <1>2, <2>3, <2>6, <2>7, <2>8, <2>9, <2>10 DEF LInv, Owns, NeverTwice
<1>14. ASSUME NEW p \in Proc, EndRun(p) PROVE LInv'
  <2>1. Goes(p, Idle) /\ UNCHANGED <<attempt, settled, gone>>
    BY <1>14 DEF EndRun
  <2> QED BY <1>5, <1>6, <1>7, <2>1
<1>15. ASSUME NEW p \in Proc, Lose(p) PROVE LInv'
  <2>1. Goes(p, Idle) /\ attempt' = attempt /\ settled' = settled
    BY <1>15 DEF Lose, book
  <2>2. CASE gone' = gone
    BY <1>5, <1>6, <1>7, <2>1, <2>2
  <2>3. CASE call[p].stage = "wire" /\ gone' = Leaves(call[p].item)
    <3>1. PICK l \in Letter : l = call[p].item
      BY <1>3, <2>3
    <3>2. gone[l] = 0 /\ attempt[l] = "dispatching" /\ Owns(p)
      BY <2>3, <3>1 DEF LInv, Owns
    <3>3. gone'[l] = 1 /\ \A m \in Item : m # l => gone'[m] = gone[m]
      BY <1>2, <2>3, <3>1, <3>2, LeavesTypes DEF LInv, SInv
    <3>4. call'[p].stage = "idle" /\ \A q \in Proc \ {p} : call'[q] = call[q]
      BY <1>5, <1>7, <2>1
    <3>5. \A q \in Proc : Owns(q)' => q # p /\ Owns(q) /\ call'[q] = call[q] /\ call[q].item \in Item
      BY <1>2, <1>3, <3>4 DEF Owns
    <3>6. \A q \in Proc : Owns(q) /\ q # p => call[q].item # l
      BY <3>1, <3>2 DEF LInv
    <3> QED BY <1>1, <1>2, <2>1, <3>2, <3>3, <3>4, <3>5, <3>6 DEF LInv, Owns, NeverTwice
  <2> QED BY <1>15, <2>2, <2>3 DEF Lose
<1> QED BY <1>8, <1>9, <1>10, <1>11, <1>12, <1>13, <1>14, <1>15, <1>3
        DEF Next, LettersOnly, FailLetter, RecordSent, ClearAttempt

\* However often a dunning run is sent, from however many processes, and wherever they die or the
\* transport throws, no letter of it leaves twice: the claim of a letter (dunning/run.ts) is a
\* compare-and-set.  (Without the path that fails a letter, which overwrites another process's claim.)
THEOREM LettersLeaveOnce == LettersOnly => (Spec => []NeverTwice)
<1> SUFFICES ASSUME LettersOnly PROVE Spec => []NeverTwice
  OBVIOUS
<1>1. Init => LInv
  <2> SUFFICES ASSUME Init PROVE LInv
    OBVIOUS
  <2>1. \A p \in Proc : call[p].stage = "idle"
    BY DEF Init, Idle
  <2>2. \A i \in Item : gone[i] = 0
    BY DEF Init
  <2> QED BY <2>1, <2>2, SInit DEF LInv, Owns, NeverTwice
<1>2. LInv /\ [Next]_vars => LInv'
  BY LStep
<1>3. LInv => NeverTwice
  BY DEF LInv
<1> QED BY <1>1, <1>2, <1>3, PTL DEF Spec

-----------------------------------------------------------------------------
(* One process *)

\* One process has the book open, and runs one call at a time.
Alone == \A p, q \in Proc : p = q

\* An item that never left, and that nothing says is leaving.
Fresh(i) == gone[i] = 0 /\ ~settled[i] /\ attempt[i] \in {"none", "failed"}

\* What the records of an item may say: each verb writes its own, nothing left twice, and what left is on
\* record.
Good(i) ==
    /\ i \in Invoice => attempt[i] \in {"none", "dispatching", "transmitted"}
    /\ i \in Letter => attempt[i] \in {"none", "dispatching", "failed"}
    /\ i \in Batch => attempt[i] \in {"none", "dispatching", "failed", "sent"} /\ ~settled[i]
    /\ gone[i] <= 1
    /\ gone[i] > 0 => settled[i] \/ attempt[i] \in {"dispatching", "transmitted", "sent"}

\* Where a call stands, its item's records stand, and the letters before it are fresh.
Stands(c) ==
    /\ c.stage = "idle" => c = Idle
    /\ c.stage = "loop" => c.item = None
    /\ c.stage = "intent" => Fresh(c.item)
    /\ c.stage = "wire" => gone[c.item] = 0 /\ ~settled[c.item] /\ attempt[c.item] = "dispatching"
    /\ c.stage = "out" => ~settled[c.item] /\ attempt[c.item] = "dispatching"
    /\ c.stage = "record" => attempt[c.item] = "transmitted"
    /\ c.stage = "clear" => settled[c.item]
    /\ \A l \in c.todo \ {c.item} : Fresh(l)

AInv == SInv /\ (\A i \in Item : Good(i)) /\ \A p \in Proc : Stands(call[p])

\* Only item i changes.
Only(i) ==
    \A j \in Item \ {i} : attempt'[j] = attempt[j] /\ settled'[j] = settled[j] /\ gone'[j] = gone[j]

\* An idle call stands.
LEMMA IdleStands == Stands(Idle) /\ Stands(Idle)' /\ Idle.stage = "idle"
<1>1. Idle.stage = "idle" /\ Idle.item = None /\ Idle.todo = {}
  BY DEF Idle
<1>2. None \notin Letter
  BY OutboundAssumptions DEF Item
<1> QED BY <1>1, <1>2 DEF Stands

\* After its item a call stands as before, whatever happened to the item.
LEMMA AfterStands ==
    ASSUME AInv, NEW p \in Proc, call[p].item \in Item, Only(call[p].item), NEW k, k = AfterItem(p)
    PROVE  Stands(k)'
<1>1. PICK c \in Calls : c = call[p]
  BY DEF AInv, SInv, TypeOK
<1>2. Stands(c) /\ c.item \in Item
  BY <1>1 DEF AInv
<1>3. PICK i \in Item : i = c.item
  BY <1>2
<1>4. c.todo \subseteq Item /\ None \notin Letter
  BY OutboundAssumptions DEF Calls, Item
<1>5. CASE i \in Letter
  <2>1. k = [c EXCEPT !.stage = "loop", !.item = None, !.todo = c.todo \ {i}]
    BY <1>1, <1>3, <1>5 DEF AfterItem
  <2>2. k.stage = "loop" /\ k.item = None /\ k.todo = c.todo \ {i}
    BY <2>1 DEF Calls
  <2>4. \A l \in k.todo : Fresh(l)
    BY <1>2, <1>3, <2>2 DEF Stands
  <2>5. \A l \in k.todo : attempt'[l] = attempt[l] /\ settled'[l] = settled[l] /\ gone'[l] = gone[l]
    BY <1>1, <1>3, <1>4, <2>2 DEF Only
  <2>6. \A l \in k.todo : Fresh(l)'
    BY <2>4, <2>5 DEF Fresh
  <2> QED BY <1>4, <2>2, <2>6 DEF Stands
<1>6. CASE i \notin Letter
  <2>1. k = Idle
    BY <1>1, <1>3, <1>6 DEF AfterItem
  <2> QED BY <2>1, IdleStands
<1> QED BY <1>5, <1>6

\* A step of the one process keeps the invariant, if its call stands after it, and the item it touched is good.
LEMMA AloneKeeps ==
    ASSUME Alone, AInv, SInv', NEW p \in Proc, NEW k, Goes(p, k), Stands(k)',
           \/ UNCHANGED <<attempt, settled, gone>>
           \/ \E i \in Item : /\ Good(i)'
                              /\ \A j \in Item \ {i} : /\ attempt'[j] = attempt[j] /\ settled'[j] = settled[j]
                                                       /\ gone'[j] = gone[j]
    PROVE  AInv'
<1>1. \A q \in Proc : q = p
  BY DEF Alone
<1>2. call'[p] = k
  BY DEF Goes, AInv, SInv, TypeOK
<1>3. \A q \in Proc : Stands(call[q])'
  BY <1>1, <1>2 DEF Stands
<1>4. \A i \in Item : Good(i)
  BY DEF AInv
<1>5. \A i \in Item : Good(i)'
  <2>1. CASE UNCHANGED <<attempt, settled, gone>>
    BY <1>4, <2>1 DEF Good
  <2>2. ASSUME NEW i \in Item, Good(i)',
               \A j \in Item \ {i} : /\ attempt'[j] = attempt[j] /\ settled'[j] = settled[j]
                                     /\ gone'[j] = gone[j]
        PROVE  \A j \in Item : Good(j)'
    <3> SUFFICES ASSUME NEW j \in Item, j # i
                 PROVE  Good(j)'
      BY <2>2
    <3> QED BY <1>4, <2>2 DEF Good
  <2> QED BY <2>1, <2>2
<1> QED BY <1>3, <1>5 DEF AInv

\* With the book and the history as they were, a call that stands goes on standing.
LEMMA StillStands ==
    ASSUME UNCHANGED <<attempt, settled, gone>>, NEW k, Stands(k)
    PROVE  Stands(k)'
BY DEF Stands, Fresh

\* Every step of the one process keeps it.
LEMMA AloneStep == Alone /\ AInv /\ [Next]_vars => AInv'
<1> SUFFICES ASSUME Alone, AInv, [Next]_vars
             PROVE  AInv'
  OBVIOUS
<1>1. SInv /\ SInv' /\ TypeOK /\ (\A i \in Item : Good(i)) /\ \A p \in Proc : Stands(call[p])
  BY SStep DEF AInv, SInv
<1>2. /\ attempt \in [Item -> Attempts] /\ settled \in [Item -> BOOLEAN] /\ gone \in [Item -> 0..2]
      /\ \A p \in Proc : call[p] \in Calls
      /\ \A p \in Proc : call[p].stage \notin {"idle", "loop"} => call[p].item \in Item
  BY <1>1 DEF TypeOK, SInv, Working, MaxGone
<1>3. /\ Invoice \cap Letter = {} /\ Invoice \cap Batch = {} /\ Letter \cap Batch = {} /\ None \notin Item
      /\ Invoice \subseteq Item /\ Letter \subseteq Item /\ Batch \subseteq Item
  BY OutboundAssumptions DEF Item
<1>4. CASE UNCHANGED vars
  <2>1. UNCHANGED <<attempt, settled, gone, paid, call>>
    BY <1>4 DEF vars, book
  <2> QED BY <1>1, <2>1 DEF AInv, Good, Stands, Fresh
<1>5. ASSUME NEW p \in Proc, NEW l \in Letter, Pay(p, l)
      PROVE  AInv'
  <2>1. call[p].stage = "idle" /\ UNCHANGED <<attempt, settled, gone, call>>
    BY <1>5 DEF Pay
  <2> QED BY <1>1, <2>1 DEF AInv, Good, Stands, Fresh
<1>6. ASSUME NEW p \in Proc, NEW i \in Invoice, BeginInvoice(p, i)
      PROVE  AInv'
  <2>1. /\ Goes(p, For(SendInvoice(i), i)) /\ ~settled[i] /\ attempt[i] # "dispatching"
        /\ UNCHANGED <<attempt, settled, gone>>
    BY <1>6 DEF BeginInvoice, Unknown, book
  <2>2. PICK s \in {"intent", "record"} : s = SendInvoice(i)
    BY DEF SendInvoice
  <2>3. PICK k : k = For(s, i)
    OBVIOUS
  <2>4. k.stage = s /\ k.item = i /\ k.todo = {}
    BY <2>3 DEF For, Idle
  <2>5. s = "record" => attempt[i] = "transmitted"
    BY <2>2 DEF SendInvoice
  <2>6. s = "intent" => Fresh(i)
    <3>1. Good(i) /\ (s = "intent" => attempt[i] # "transmitted") /\ gone[i] \in 0..2
      BY <1>1, <1>2, <1>3, <2>2 DEF SendInvoice
    <3> QED BY <2>1, <3>1 DEF Good, Fresh
  <2>7. Stands(k)
    BY <1>3, <2>2, <2>4, <2>5, <2>6 DEF Stands
  <2>8. Stands(k)' /\ Goes(p, k)
    BY <2>1, <2>2, <2>3, <2>7, StillStands
  <2> QED BY <1>1, <2>1, <2>8, AloneKeeps
<1>7. ASSUME NEW p \in Proc, NEW b \in Batch, BeginBatch(p, b)
      PROVE  AInv'
  <2>1. /\ Goes(p, For("intent", b)) /\ attempt[b] \notin {"dispatching", "sent"}
        /\ UNCHANGED <<attempt, settled, gone>>
    BY <1>7 DEF BeginBatch, Unknown, Ordered, book
  <2>2. PICK k : k = For("intent", b)
    OBVIOUS
  <2>3. k.stage = "intent" /\ k.item = b /\ k.todo = {}
    BY <2>2 DEF For, Idle
  <2>4. Fresh(b)
    <3>1. Good(b) /\ gone[b] \in 0..2
      BY <1>1, <1>2, <1>3
    <3> QED BY <2>1, <3>1 DEF Good, Fresh
  <2>5. Stands(k)
    BY <1>3, <2>3, <2>4 DEF Stands
  <2>6. Stands(k)' /\ Goes(p, k)
    BY <2>1, <2>2, <2>5, StillStands
  <2> QED BY <1>1, <2>1, <2>6, AloneKeeps
<1>8. ASSUME NEW p \in Proc, BeginRun(p)
      PROVE  AInv'
  <2> DEFINE todo == {l \in Letter : ~settled[l] /\ ~Unknown(l)}
  <2>1. /\ Goes(p, [Idle EXCEPT !.stage = "loop", !.changed = paid, !.todo = todo])
        /\ UNCHANGED <<attempt, settled, gone>>
    BY <1>8 DEF BeginRun, book
  <2>2. \A l \in todo : Fresh(l)
    <3> SUFFICES ASSUME NEW l \in todo
                 PROVE  Fresh(l)
      OBVIOUS
    <3>1. l \in Letter /\ ~settled[l] /\ attempt[l] # "dispatching"
      BY DEF Unknown
    <3>2. Good(l) /\ gone[l] \in 0..2
      BY <1>1, <1>2, <1>3, <3>1
    <3> QED BY <3>1, <3>2 DEF Good, Fresh
  <2> HIDE DEF todo
  <2>3. PICK k : k = [Idle EXCEPT !.stage = "loop", !.changed = paid, !.todo = todo]
    OBVIOUS
  <2>4. k.stage = "loop" /\ k.item = None /\ k.todo = todo
    BY <2>3 DEF Idle
  <2>5. Stands(k)
    BY <1>3, <2>2, <2>4 DEF Stands
  <2>6. Stands(k)' /\ Goes(p, k)
    BY <2>1, <2>3, <2>5, StillStands
  <2> QED BY <1>1, <2>1, <2>6, AloneKeeps
<1>9. ASSUME NEW p \in Proc, NEW l \in Letter, SkipLetter(p, l) \/ TakeLetter(p, l)
      PROVE  AInv'
  <2>1. PICK c \in Calls : c = call[p]
    BY <1>2
  <2>2. /\ c.stage = "loop" /\ l \in c.todo /\ UNCHANGED <<attempt, settled, gone>>
        /\ Stands(c)
    BY <1>1, <1>9, <2>1 DEF SkipLetter, TakeLetter, book
  <2>3. c.item = None
    BY <2>2 DEF Stands
  <2>4. Fresh(l) /\ \A m \in c.todo \ {c.item} : Fresh(m)
    BY <1>3, <2>2, <2>3 DEF Stands
  <2>5. CASE SkipLetter(p, l)
    <3>1. PICK k : k = [c EXCEPT !.todo = c.todo \ {l}]
      OBVIOUS
    <3>2. k.stage = "loop" /\ k.item = c.item /\ k.todo = c.todo \ {l}
      BY <2>2, <3>1 DEF Calls
    <3>3. Stands(k)
      BY <1>3, <2>3, <2>4, <3>2 DEF Stands
    <3>4. Stands(k)' /\ Goes(p, k)
      BY <2>1, <2>2, <2>5, <3>1, <3>3, StillStands DEF SkipLetter
    <3> QED BY <1>1, <2>2, <3>4, AloneKeeps
  <2>6. CASE TakeLetter(p, l)
    <3>1. PICK k : k = [c EXCEPT !.stage = "intent", !.item = l]
      OBVIOUS
    <3>2. k.stage = "intent" /\ k.item = l /\ k.todo = c.todo
      BY <3>1 DEF Calls
    <3>4. \A m \in c.todo \ {l} : Fresh(m)
      <4>1. c.todo \subseteq Letter
        BY DEF Calls
      <4> QED BY <1>3, <2>3, <2>4, <4>1
    <3>5. Stands(k)
      BY <2>4, <3>2, <3>4 DEF Stands
    <3>6. Stands(k)' /\ Goes(p, k)
      BY <2>1, <2>2, <2>6, <3>1, <3>5, StillStands DEF TakeLetter
    <3> QED BY <1>1, <2>2, <3>6, AloneKeeps
  <2> QED BY <1>9, <2>5, <2>6
<1>10. ASSUME NEW p \in Proc, FailLetter(p)
       PROVE  AInv'
  <2>1. PICK c \in Calls : c = call[p]
    BY <1>2
  <2>2. /\ c.stage = "intent" /\ c.item \in Letter /\ Stands(c)
        /\ attempt' = (IF settled[c.item] THEN attempt ELSE [attempt EXCEPT ![c.item] = "failed"])
        /\ UNCHANGED <<settled, gone>>
    BY <1>1, <1>10, <2>1 DEF FailLetter
  <2>3. PICK i \in Letter : i = c.item
    BY <2>2
  <2>4. Fresh(i)
    BY <2>2, <2>3 DEF Stands
  <2>5. attempt' = [attempt EXCEPT ![i] = "failed"]
    BY <2>2, <2>3, <2>4 DEF Fresh
  <2>6. attempt'[i] = "failed" /\ \A j \in Item \ {i} : attempt'[j] = attempt[j]
    BY <1>2, <1>3, <2>5
  <2>7. Only(i)
    BY <2>2, <2>6 DEF Only
  <2>8. Good(i)'
    BY <1>3, <2>2, <2>4, <2>6 DEF Good, Fresh
  <2>9. PICK k : k = AfterItem(p)
    OBVIOUS
  <2>10. Stands(k)' /\ Goes(p, k)
    BY <1>3, <1>10, <2>1, <2>3, <2>7, <2>9, AfterStands DEF FailLetter
  <2>11. \E x \in Item : /\ Good(x)'
                         /\ \A j \in Item \ {x} : /\ attempt'[j] = attempt[j] /\ settled'[j] = settled[j]
                                                  /\ gone'[j] = gone[j]
    BY <1>3, <2>7, <2>8 DEF Only
  <2> QED BY <1>1, <2>10, <2>11, AloneKeeps
<1>11. ASSUME NEW p \in Proc, WriteIntent(p)
       PROVE  AInv'
  <2>1. PICK c \in Calls : c = call[p]
    BY <1>2
  <2>2. c.stage = "intent" /\ c.item \in Item /\ Stands(c) /\ UNCHANGED <<settled, gone>>
    BY <1>1, <1>2, <1>11, <2>1 DEF WriteIntent
  <2>3. PICK i \in Item : i = c.item
    BY <2>2
  <2>4. Fresh(i)
    BY <2>2, <2>3 DEF Stands
  <2>5. Claims(i)
    BY <2>4 DEF Claims, Fresh
  <2>6. attempt' = [attempt EXCEPT ![i] = "dispatching"] /\ Goes(p, [c EXCEPT !.stage = "wire"])
    BY <1>11, <2>1, <2>3, <2>5 DEF WriteIntent, Marks
  <2>7. attempt'[i] = "dispatching" /\ \A j \in Item \ {i} : attempt'[j] = attempt[j]
    BY <1>2, <2>6
  <2>8. Good(i)'
    <3>1. Good(i)
      BY <1>1
    <3> QED BY <2>2, <2>4, <2>7, <3>1 DEF Good, Fresh
  <2>9. PICK k : k = [c EXCEPT !.stage = "wire"]
    OBVIOUS
  <2>10. k.stage = "wire" /\ k.item = i /\ k.todo = c.todo
    BY <2>3, <2>9 DEF Calls
  <2>11. \A l \in c.todo \ {i} : Fresh(l)'
    <3>1. \A l \in c.todo \ {i} : Fresh(l) /\ l \in Item
      BY <1>3, <2>2, <2>3 DEF Stands, Calls
    <3> QED BY <2>2, <2>7, <3>1 DEF Fresh
  <2>12. Stands(k)'
    BY <2>2, <2>4, <2>7, <2>10, <2>11 DEF Stands, Fresh
  <2>13. \E x \in Item : /\ Good(x)'
                         /\ \A j \in Item \ {x} : /\ attempt'[j] = attempt[j] /\ settled'[j] = settled[j]
                                                  /\ gone'[j] = gone[j]
    BY <2>2, <2>7, <2>8
  <2> QED BY <1>1, <2>6, <2>9, <2>12, <2>13, AloneKeeps
<1>12. ASSUME NEW p \in Proc, Deliver(p)
       PROVE  AInv'
  <2>1. PICK c \in Calls : c = call[p]
    BY <1>2
  <2>2. /\ c.stage = "wire" /\ c.item \in Item /\ Stands(c) /\ UNCHANGED <<attempt, settled>>
        /\ gone' = Leaves(c.item) /\ Goes(p, [c EXCEPT !.stage = "out"])
    BY <1>1, <1>2, <1>12, <2>1 DEF Deliver, book
  <2>3. PICK i \in Item : i = c.item
    BY <2>2
  <2>4. gone[i] = 0 /\ ~settled[i] /\ attempt[i] = "dispatching"
    BY <2>2, <2>3 DEF Stands
  <2>5. gone'[i] = 1 /\ \A j \in Item \ {i} : gone'[j] = gone[j]
    BY <1>1, <2>2, <2>3, <2>4, LeavesTypes
  <2>6. Good(i)'
    <3>1. Good(i)
      BY <1>1
    <3> QED BY <2>2, <2>4, <2>5, <3>1 DEF Good
  <2>7. PICK k : k = [c EXCEPT !.stage = "out"]
    OBVIOUS
  <2>8. k.stage = "out" /\ k.item = i /\ k.todo = c.todo
    BY <2>3, <2>7 DEF Calls
  <2>9. \A l \in c.todo \ {i} : Fresh(l)'
    <3>1. \A l \in c.todo \ {i} : Fresh(l) /\ l \in Item
      BY <1>3, <2>2, <2>3 DEF Stands, Calls
    <3> QED BY <2>2, <2>5, <3>1 DEF Fresh
  <2>10. Stands(k)'
    BY <2>2, <2>4, <2>8, <2>9 DEF Stands
  <2>11. \E x \in Item : /\ Good(x)'
                         /\ \A j \in Item \ {x} : /\ attempt'[j] = attempt[j] /\ settled'[j] = settled[j]
                                                  /\ gone'[j] = gone[j]
    BY <2>2, <2>5, <2>6
  <2> QED BY <1>1, <2>2, <2>7, <2>10, <2>11, AloneKeeps
<1>13. ASSUME NEW p \in Proc, Decline(p)
       PROVE  AInv'
  <2>1. PICK c \in Calls : c = call[p]
    BY <1>2
  <2>2. /\ c.stage = "wire" /\ c.item \in Item /\ Stands(c) /\ UNCHANGED <<settled, gone>>
        /\ attempt' = (IF c.item \in Letter /\ settled[c.item] THEN attempt
                      ELSE [attempt EXCEPT ![c.item] = Retracted(c.item)])
    BY <1>1, <1>2, <1>13, <2>1 DEF Decline
  <2>3. PICK i \in Item : i = c.item
    BY <2>2
  <2>4. gone[i] = 0 /\ ~settled[i]
    BY <2>2, <2>3 DEF Stands
  <2>5. attempt' = [attempt EXCEPT ![i] = Retracted(i)]
    BY <2>2, <2>3, <2>4
  <2>6. attempt'[i] = Retracted(i) /\ \A j \in Item \ {i} : attempt'[j] = attempt[j]
    BY <1>2, <2>5
  <2>7. Only(i)
    BY <2>2, <2>6 DEF Only
  <2>8. Good(i)'
    <3>1. attempt'[i] = IF i \in Invoice THEN "none" ELSE "failed"
      BY <2>6 DEF Retracted
    <3> QED BY <1>3, <2>2, <2>4, <3>1 DEF Good
  <2>9. PICK k : k = AfterItem(p)
    OBVIOUS
  <2>10. Stands(k)' /\ Goes(p, k)
    BY <1>13, <2>1, <2>3, <2>7, <2>9, AfterStands DEF Decline
  <2>11. \E x \in Item : /\ Good(x)'
                         /\ \A j \in Item \ {x} : /\ attempt'[j] = attempt[j] /\ settled'[j] = settled[j]
                                                  /\ gone'[j] = gone[j]
    BY <2>7, <2>8 DEF Only
  <2> QED BY <1>1, <2>10, <2>11, AloneKeeps
<1>14. ASSUME NEW p \in Proc, RecordOut(p)
       PROVE  AInv'
  <2>1. PICK c \in Calls : c = call[p]
    BY <1>2
  <2>2. /\ c.stage = "out" /\ c.item \in Item /\ Stands(c) /\ UNCHANGED <<gone>>
        /\ attempt' = [attempt EXCEPT ![c.item] = Recorded(c.item)]
        /\ settled' = IF c.item \in Letter THEN [settled EXCEPT ![c.item] = TRUE] ELSE settled
    BY <1>1, <1>2, <1>14, <2>1 DEF RecordOut, Marks
  <2>3. PICK i \in Item : i = c.item
    BY <2>2
  <2>4. ~settled[i] /\ attempt[i] = "dispatching" /\ Good(i)
    BY <1>1, <2>2, <2>3 DEF Stands
  <2>5. attempt'[i] = Recorded(i) /\ \A j \in Item \ {i} : attempt'[j] = attempt[j]
    BY <1>2, <2>2, <2>3
  <2>6. /\ \A j \in Item \ {i} : settled'[j] = settled[j]
        /\ i \in Letter => settled'[i]
        /\ i \notin Letter => settled'[i] = settled[i]
    BY <1>2, <2>2, <2>3
  <2>7. Only(i)
    BY <2>2, <2>5, <2>6 DEF Only
  <2>8. Good(i)'
    <3>1. attempt'[i] = IF i \in Invoice THEN "transmitted" ELSE IF i \in Letter THEN "none" ELSE "sent"
      BY <2>5 DEF Recorded
    <3>2. i \in Invoice \/ i \in Letter \/ i \in Batch
      BY DEF Item
    <3> QED BY <1>3, <2>2, <2>4, <2>6, <3>1, <3>2 DEF Good
  <2>9. \E x \in Item : /\ Good(x)'
                        /\ \A j \in Item \ {x} : /\ attempt'[j] = attempt[j] /\ settled'[j] = settled[j]
                                                 /\ gone'[j] = gone[j]
    BY <2>7, <2>8 DEF Only
  <2>10. CASE i \in Invoice
    <3>1. PICK k : k = For("record", i)
      OBVIOUS
    <3>2. k.stage = "record" /\ k.item = i /\ k.todo = {}
      BY <3>1 DEF For, Idle
    <3>3. attempt'[i] = "transmitted" /\ i \notin Letter
      BY <1>3, <2>5, <2>10 DEF Recorded
    <3>4. Stands(k)'
      BY <3>2, <3>3 DEF Stands
    <3>5. Goes(p, k)
      BY <1>14, <2>1, <2>3, <2>10, <3>1 DEF RecordOut
    <3> QED BY <1>1, <2>9, <3>4, <3>5, AloneKeeps
  <2>11. CASE i \notin Invoice
    <3>1. PICK k : k = AfterItem(p)
      OBVIOUS
    <3>2. Stands(k)' /\ Goes(p, k)
      BY <1>14, <2>1, <2>3, <2>7, <2>11, <3>1, AfterStands DEF RecordOut
    <3> QED BY <1>1, <2>9, <3>2, AloneKeeps
  <2> QED BY <2>10, <2>11
<1>15. ASSUME NEW p \in Proc, RecordSent(p) \/ ClearAttempt(p)
       PROVE  AInv'
  <2>1. PICK c \in Calls : c = call[p]
    BY <1>2
  <2>2. c.stage \in {"record", "clear"} /\ c.item \in Invoice /\ Stands(c) /\ UNCHANGED <<gone>>
    BY <1>1, <1>15, <2>1 DEF RecordSent, ClearAttempt, SInv, Working
  <2>3. PICK i \in Invoice : i = c.item
    BY <2>2
  <2>4. Good(i) /\ i \in Item /\ i \notin Letter /\ i \notin Batch
    BY <1>1, <1>3
  <2>5. CASE RecordSent(p)
    <3>1. settled' = [settled EXCEPT ![i] = TRUE] /\ attempt' = attempt /\ Goes(p, For("clear", i))
      BY <2>1, <2>3, <2>5 DEF RecordSent
    <3>2. settled'[i] /\ \A j \in Item \ {i} : settled'[j] = settled[j]
      BY <1>2, <2>4, <3>1
    <3>3. Good(i)'
      BY <2>2, <2>4, <3>1, <3>2 DEF Good
    <3>4. PICK k : k = For("clear", i)
      OBVIOUS
    <3>5. k.stage = "clear" /\ k.item = i /\ k.todo = {}
      BY <3>4 DEF For, Idle
    <3>6. Stands(k)'
      BY <2>4, <3>2, <3>5 DEF Stands
    <3>7. \E x \in Item : /\ Good(x)'
                          /\ \A j \in Item \ {x} : /\ attempt'[j] = attempt[j] /\ settled'[j] = settled[j]
                                                   /\ gone'[j] = gone[j]
      BY <2>2, <2>4, <3>1, <3>2, <3>3
    <3> QED BY <1>1, <3>1, <3>4, <3>6, <3>7, AloneKeeps
  <2>6. CASE ClearAttempt(p)
    <3>1. attempt' = [attempt EXCEPT ![i] = "none"] /\ settled' = settled /\ Goes(p, Idle) /\ settled[i]
      BY <2>1, <2>2, <2>3, <2>6 DEF ClearAttempt, Marks, Stands
    <3>2. attempt'[i] = "none" /\ \A j \in Item \ {i} : attempt'[j] = attempt[j]
      BY <1>2, <2>4, <3>1
    <3>3. Good(i)'
      BY <2>2, <2>4, <3>1, <3>2 DEF Good
    <3>4. \E x \in Item : /\ Good(x)'
                          /\ \A j \in Item \ {x} : /\ attempt'[j] = attempt[j] /\ settled'[j] = settled[j]
                                                   /\ gone'[j] = gone[j]
      BY <2>2, <2>4, <3>1, <3>2, <3>3
    <3>5. PICK k : k = Idle
      OBVIOUS
    <3>6. Stands(k)' /\ Goes(p, k)
      BY <3>1, <3>5, IdleStands
    <3> QED BY <1>1, <3>4, <3>6, AloneKeeps
  <2> QED BY <1>15, <2>5, <2>6
<1>16. ASSUME NEW p \in Proc, EndRun(p) \/ (Lose(p) /\ gone' = gone)
       PROVE  AInv'
  <2>1. Goes(p, Idle) /\ UNCHANGED <<attempt, settled, gone>>
    BY <1>16 DEF EndRun, Lose, book
  <2>2. PICK k : k = Idle
    OBVIOUS
  <2>3. Stands(k)' /\ Goes(p, k)
    BY <2>1, <2>2, IdleStands
  <2> QED BY <1>1, <2>1, <2>3, AloneKeeps
<1>17. ASSUME NEW p \in Proc, Lose(p), gone' # gone
       PROVE  AInv'
  <2>1. PICK c \in Calls : c = call[p]
    BY <1>2
  <2>2. /\ c.stage = "wire" /\ c.item \in Item /\ Stands(c) /\ UNCHANGED <<attempt, settled>>
        /\ gone' = Leaves(c.item) /\ Goes(p, Idle)
    BY <1>1, <1>2, <1>17, <2>1 DEF Lose, book
  <2>3. PICK i \in Item : i = c.item
    BY <2>2
  <2>4. gone[i] = 0 /\ ~settled[i] /\ attempt[i] = "dispatching" /\ Good(i)
    BY <1>1, <2>2, <2>3 DEF Stands
  <2>5. gone'[i] = 1 /\ \A j \in Item \ {i} : gone'[j] = gone[j]
    BY <1>1, <2>2, <2>3, <2>4, LeavesTypes
  <2>6. Good(i)'
    BY <2>2, <2>4, <2>5 DEF Good
  <2>7. \E x \in Item : /\ Good(x)'
                        /\ \A j \in Item \ {x} : /\ attempt'[j] = attempt[j] /\ settled'[j] = settled[j]
                                                 /\ gone'[j] = gone[j]
    BY <2>2, <2>5, <2>6
  <2>8. PICK k : k = Idle
    OBVIOUS
  <2>9. Stands(k)' /\ Goes(p, k)
    BY <2>2, <2>8, IdleStands
  <2> QED BY <1>1, <2>7, <2>9, AloneKeeps
<1> QED BY <1>4, <1>5, <1>6, <1>7, <1>8, <1>9, <1>10, <1>11, <1>12, <1>13, <1>14, <1>15, <1>16, <1>17 DEF Next

\* The invariant holds at the start, and the one process keeps it.
LEMMA AloneInvariant == ASSUME Alone PROVE Spec => []AInv
<1>1. Init => AInv
  <2> SUFFICES ASSUME Init
               PROVE  AInv
    OBVIOUS
  <2>1. SInv
    BY SInit
  <2>2. \A i \in Item : Good(i)
    BY DEF Init, Good
  <2>3. \A p \in Proc : Stands(call[p])
    BY IdleStands DEF Init
  <2> QED BY <2>1, <2>2, <2>3 DEF AInv
<1>2. AInv /\ [Next]_vars => AInv'
  BY AloneStep
<1> QED BY <1>1, <1>2, PTL DEF Spec

\* With one process nothing leaves the building twice, whatever died, threw or was repeated: invoices,
\* letters and payment batches.  (the intent before the transport, and the records read before it)
THEOREM LeavesAtMostOnce == ASSUME Alone PROVE Spec => []NeverTwice
<1>1. AInv => NeverTwice
  BY DEF AInv, Good, NeverTwice
<1> QED BY <1>1, AloneInvariant, PTL

\* With one process what left is on record as sent, or as possibly on its way: no failure is recorded over
\* a send.  (the order of intent, transport and record)
THEOREM LeftStaysOnRecord == ASSUME Alone PROVE Spec => []LeftIsOnRecord
<1>1. AInv => LeftIsOnRecord
  BY DEF AInv, Good, LeftIsOnRecord
<1> QED BY <1>1, AloneInvariant, PTL
=============================================================================
