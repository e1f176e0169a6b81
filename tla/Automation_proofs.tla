--------------------------- MODULE Automation_proofs --------------------------
(* Theorems about Automation, for every number of processes, rules, calls and days and every depth of the
   cascade. *)
EXTENDS FiringWatch, SequenceTheorems, WellFoundedInduction, TLAPS

-----------------------------------------------------------------------------
(* Rules and chains *)

\* The first of some rules is one of them.
LEMMA FirstIn ==
    ASSUME NEW S, S \subseteq Rule, S # {}
    PROVE  First(S) \in S
<1> DEFINE Less == OpToRel(<, Nat)
<1>1. S \subseteq Nat
  BY AutomationAssumptions
<1>2. PICK x \in S : \A y \in S : ~(<<y, x>> \in Less)
  <2>1. IsWellFoundedOn(Less, Nat)
    BY NatLessThanWellFounded
  <2> HIDE DEF Less
  <2> QED BY <1>1, <2>1, WFMin
<1>3. ASSUME NEW y \in S
      PROVE  x <= y
  <2>1. ~(<<y, x>> \in Less) /\ x \in Nat /\ y \in Nat
    BY <1>1, <1>2
  <2>2. y < x => <<y, x>> \in {ss \in Nat \X Nat : ss[1] < ss[2]}
    BY <2>1
  <2>3. y < x => <<y, x>> \in Less
    BY <2>2 DEF OpToRel
  <2> HIDE DEF Less
  <2> QED BY <2>1, <2>3
<1>4. \E r \in S : \A s \in S : r <= s
  BY <1>3
<1> QED BY <1>4 DEF First

\* A chain is a sequence of at most MaxDepth + 2 rules, and not empty.
LEMMA ChainShape ==
    /\ MaxDepth \in Nat \ {0}
    /\ \A c : c \in Chains <=> c \in Seq(Rule) /\ Len(c) \in 1..(MaxDepth + 2)
<1>1. MaxDepth \in Nat \ {0}
  BY AutomationAssumptions
<1>2. ASSUME NEW c, c \in Chains
      PROVE  c \in Seq(Rule) /\ Len(c) \in 1..(MaxDepth + 2)
  <2>1. PICK n \in 1..(MaxDepth + 2) : c \in [1..n -> Rule]
    BY <1>2 DEF Chains
  <2>2. n \in Nat
    BY <1>1
  <2>3. c \in Seq(Rule)
    BY <2>1, <2>2, SeqDef
  <2>4. Len(c) = n
    BY <2>1, <2>2, <2>3
  <2> QED BY <2>3, <2>4
<1>3. ASSUME NEW c \in Seq(Rule), Len(c) \in 1..(MaxDepth + 2)
      PROVE  c \in Chains
  BY <1>3, LenProperties DEF Chains
<1> QED BY <1>1, <1>2, <1>3

\* A wired chain has a rule after its first, and the part of it that does is wired as well.
LEMMA WiredShape ==
    ASSUME NEW c \in Wired
    PROVE  c \in Seq(Rule) /\ c \in Chains /\ Len(c) \in 2..(MaxDepth + 2)
<1>1. PICK b \in Chains, r \in Rule : c = Append(b, r)
  BY DEF Wired
<1>2. b \in Seq(Rule) /\ Len(b) \in Nat \ {0} /\ MaxDepth \in Nat
  BY ChainShape
<1>3. c \in Seq(Rule) /\ Len(c) = Len(b) + 1
  BY <1>1, <1>2
<1>4. Len(c) <= MaxDepth + 2
  BY DEF Wired
<1>5. Len(c) \in 2..(MaxDepth + 2)
  BY <1>2, <1>3, <1>4
<1> QED BY <1>2, <1>3, <1>5, ChainShape

\* The same of a part of it.
LEMMA PartShape ==
    ASSUME NEW c \in Seq(Rule), NEW n \in 1..Len(c)
    PROVE  /\ SubSeq(c, 1, n) \in Seq(Rule) /\ Len(SubSeq(c, 1, n)) = n
           /\ \A i \in 1..n : SubSeq(c, 1, n)[i] = c[i]
           /\ \A m \in 1..n : SubSeq(SubSeq(c, 1, n), 1, m) = SubSeq(c, 1, m)
<1>1. Len(c) \in Nat /\ n \in Nat /\ \A i \in 1..n : c[i] \in Rule
  BY LenProperties, ElementOfSeq
<1>2. /\ SubSeq(c, 1, n) \in Seq(Rule) /\ Len(SubSeq(c, 1, n)) = n
      /\ \A i \in 1..n : SubSeq(c, 1, n)[i] = c[i]
  BY <1>1, SubSeqProperties
<1>3. ASSUME NEW m \in 1..n
      PROVE  SubSeq(SubSeq(c, 1, n), 1, m) = SubSeq(c, 1, m)
  <2> DEFINE d == SubSeq(c, 1, n)
             s == SubSeq(c, 1, m)
             t == SubSeq(d, 1, m)
  <2>1. m \in Int /\ m >= 1 /\ m <= n
    BY <1>1
  <2>2. \A i \in 1..m : c[i] \in Rule /\ d[i] = c[i]
    BY <1>1, <1>2, <2>1
  <2>3. \A i \in 1..m : d[i] \in Rule
    BY <2>2
  <2>4. s \in Seq(Rule) /\ Len(s) = m /\ \A i \in 1..m : s[i] = c[i]
    BY <2>1, <2>2, SubSeqProperties
  <2> HIDE DEF d
  <2>5. t \in Seq(Rule) /\ Len(t) = m /\ \A i \in 1..m : t[i] = d[i]
    BY <2>1, <2>3, SubSeqProperties
  <2> HIDE DEF s, t
  <2>6. s = t
    BY <2>2, <2>4, <2>5, SeqEqual
  <2> QED BY <2>6 DEF s, t, d
<1> QED BY <1>2, <1>3

\* A beginning of a wired chain with at least two rules is wired.
LEMMA WiredPart ==
    ASSUME NEW c \in Wired, NEW n \in 2..Len(c)
    PROVE  SubSeq(c, 1, n) \in Wired
<1> DEFINE d == SubSeq(c, 1, n)
           b == SubSeq(c, 1, n - 1)
<1>1. c \in Seq(Rule) /\ Len(c) \in 2..(MaxDepth + 2) /\ MaxDepth \in Nat
  BY WiredShape, ChainShape
<1>2. n \in 1..Len(c) /\ n - 1 \in 1..Len(c) /\ n \in Nat
  BY <1>1
<1>3. d \in Seq(Rule) /\ Len(d) = n /\ \A i \in 1..n : d[i] = c[i]
  BY <1>1, <1>2, PartShape
<1>4. b \in Seq(Rule) /\ Len(b) = n - 1 /\ \A i \in 1..(n - 1) : b[i] = c[i]
  BY <1>1, <1>2, PartShape
<1>5. c[n] \in Rule
  BY <1>1, <1>2, ElementOfSeq
<1> HIDE DEF d, b
<1>6. b \in Chains
  BY <1>1, <1>2, <1>4, ChainShape
<1>7. d = Append(b, c[n])
  <2> DEFINE a == Append(b, c[n])
  <2>1. a \in Seq(Rule) /\ Len(a) = n
    BY <1>2, <1>4, <1>5
  <2>2. \A i \in 1..n : a[i] = d[i]
    BY <1>2, <1>3, <1>4, <1>5
  <2> HIDE DEF a
  <2>3. d = a
    BY <1>3, <2>1, <2>2, SeqEqual
  <2> QED BY <2>3 DEF a
<1>8. \A i \in 1..(n - 1) : d[i + 1] \in Triggers[d[i]]
  <2> SUFFICES ASSUME NEW i \in 1..(n - 1)
               PROVE  d[i + 1] \in Triggers[d[i]]
    OBVIOUS
  <2>1. i \in 1..(Len(c) - 1) /\ i \in 1..n /\ i + 1 \in 1..n
    BY <1>1, <1>2
  <2>2. c[i + 1] \in Triggers[c[i]]
    BY <2>1 DEF Wired
  <2> QED BY <1>3, <2>1, <2>2
<1>9. Len(d) <= MaxDepth + 2 /\ \A i \in 1..(Len(d) - 1) : d[i + 1] \in Triggers[d[i]]
  BY <1>1, <1>2, <1>3, <1>8
<1>10. d \in {Append(x, r) : x \in Chains, r \in Rule}
  BY <1>5, <1>6, <1>7
<1>11. d \in Wired
  BY <1>9, <1>10 DEF Wired
<1> QED BY <1>11 DEF d

-----------------------------------------------------------------------------
(* What an invocation does *)

\* Counting up counts what it is told to, once, and forgets nothing.
LEMMA BumpCounts ==
    ASSUME NEW f, f \in [DOMAIN f -> 0..MaxCount], NEW S
    PROVE  /\ DOMAIN Bump(f, S) = DOMAIN f \cup S
           /\ Bump(f, S) \in [DOMAIN f \cup S -> 0..MaxCount]
           /\ \A o : Count(f, o) \in 0..MaxCount /\ Count(Bump(f, S), o) \in 0..MaxCount
           /\ \A o : Count(Bump(f, S), o) >= Count(f, o)
           /\ \A o : o \notin S => Count(Bump(f, S), o) = Count(f, o)
           /\ \A o \in S : Count(Bump(f, S), o) > 0
           /\ \A o \in S : Count(f, o) = 0 => Count(Bump(f, S), o) = 1
<1> DEFINE g == Bump(f, S)
<1>1. MaxCount = 2
  BY DEF MaxCount
<1>2. \A o : Count(f, o) \in 0..2
  BY <1>1 DEF Count
<1>3. /\ DOMAIN g = DOMAIN f \cup S
      /\ \A o \in DOMAIN f \cup S :
             g[o] = IF o \in S /\ Count(f, o) < MaxCount THEN Count(f, o) + 1 ELSE Count(f, o)
      /\ g = [o \in DOMAIN f \cup S |-> g[o]]
  BY DEF Bump
<1> HIDE DEF g
<1>4. \A o \in DOMAIN f \cup S : g[o] \in 0..2
  BY <1>1, <1>2, <1>3
<1>5. \A o : Count(g, o) = IF o \in S /\ Count(f, o) < 2 THEN Count(f, o) + 1 ELSE Count(f, o)
  <2> SUFFICES ASSUME NEW o
               PROVE  Count(g, o) = IF o \in S /\ Count(f, o) < 2 THEN Count(f, o) + 1 ELSE Count(f, o)
    OBVIOUS
  <2>1. CASE o \in DOMAIN f \cup S
    BY <1>1, <1>3, <2>1 DEF Count
  <2>2. CASE o \notin DOMAIN f \cup S
    BY <1>3, <2>2 DEF Count
  <2> QED BY <2>1, <2>2
<1>6. g \in [DOMAIN f \cup S -> 0..MaxCount]
  BY <1>1, <1>3, <1>4
<1>7. \A o : /\ Count(g, o) \in 0..2 /\ Count(g, o) >= Count(f, o)
             /\ o \notin S => Count(g, o) = Count(f, o)
             /\ o \in S => Count(g, o) > 0 /\ (Count(f, o) = 0 => Count(g, o) = 1)
  BY <1>2, <1>5
<1>8. /\ DOMAIN g = DOMAIN f \cup S
      /\ g \in [DOMAIN f \cup S -> 0..MaxCount]
      /\ \A o : Count(f, o) \in 0..MaxCount /\ Count(g, o) \in 0..MaxCount
      /\ \A o : Count(g, o) >= Count(f, o)
      /\ \A o : o \notin S => Count(g, o) = Count(f, o)
      /\ \A o \in S : Count(g, o) > 0
      /\ \A o \in S : Count(f, o) = 0 => Count(g, o) = 1
  BY <1>1, <1>2, <1>3, <1>6, <1>7
<1> QED BY <1>8 DEF g

\* What may become of a nested occurrence.
Fates == {"again", "suppressed_loop", "suppressed_depth", "failed", "ok", "undone", "skipped_condition"}

\* What a firing reaches is a wired chain from its own rule on, and something becomes of it.
LEMMA ReachedShape ==
    ASSUME TypeOK, NEW root \in Claimed, Len(root[2]) = 1, NEW s \in 1..2, NEW judge \in Judges(root),
           NEW o \in Reached(root, s, judge)
    PROVE  /\ o = <<root[1], o[2]>> /\ o[2] \in Wired /\ o[2][1] = root[2][1] /\ o \in Occurrence
           /\ Len(o[2]) \in 2..(MaxDepth + 2) /\ o[2] \in Seq(Rule)
           /\ Fate(o, s, judge) \in Fates /\ (Fate(o, s, judge) = "again" => o \in Claimed)
<1>1. o \in {<<root[1], c>> : c \in {w \in Wired : w[1] = root[2][1]}}
  BY DEF Reached
<1>2. PICK c \in Wired : o = <<root[1], c>> /\ c[1] = root[2][1]
  BY <1>1
<1>3. o[1] = root[1] /\ o[2] = c
  BY <1>2
<1>4. c \in Seq(Rule) /\ c \in Chains /\ Len(c) \in 2..(MaxDepth + 2) /\ MaxDepth \in Nat
  BY WiredShape, ChainShape
<1>5. root \in Occurrence
  BY DEF TypeOK
<1>6. root[1] \in Source
  BY <1>5 DEF Occurrence
<1>7. o \in Occurrence
  BY <1>2, <1>4, <1>6 DEF Occurrence
<1>8. Ending(o) \in UNION {Triggers[r] : r \in Rule} /\ Triggers[Ending(root)] # {}
  <2>1. \A i \in 1..(Len(c) - 1) : c[i + 1] \in Triggers[c[i]]
    BY DEF Wired
  <2>2. 1 \in 1..(Len(c) - 1) /\ Len(c) - 1 \in 1..(Len(c) - 1) /\ (Len(c) - 1) + 1 = Len(c)
    BY <1>4
  <2>3. c[Len(c)] \in Triggers[c[Len(c) - 1]]
    BY <2>1, <2>2
  <2>4. c[1 + 1] \in Triggers[c[1]]
    BY <2>1, <2>2
  <2>5. c[Len(c) - 1] \in Rule
    BY <1>4, <2>2, ElementOfSeq
  <2>6. Ending(root) = c[1] /\ Ending(o) = c[Len(c)]
    BY <1>2, <1>3 DEF Ending
  <2> QED BY <2>3, <2>4, <2>5, <2>6
<1>9. judge[Ending(o)] \in Verdicts \cup {"skipped_condition"}
  BY <1>8 DEF Judges
<1>10. Fate(o, s, judge) \in Fates /\ (Fate(o, s, judge) = "again" => o \in Claimed)
  BY <1>9 DEF Fate, Fates, Verdicts
<1> QED BY <1>2, <1>3, <1>4, <1>7, <1>10

\* A beginning of a reached occurrence is reached.
LEMMA ReachedPart ==
    ASSUME TypeOK, NEW root \in Claimed, Len(root[2]) = 1, NEW s \in 1..2, NEW judge \in Judges(root),
           NEW o \in Reached(root, s, judge), NEW n \in 2..Len(o[2])
    PROVE  /\ Prefix(o, n) \in Reached(root, s, judge)
           /\ Prefix(o, n)[2] = SubSeq(o[2], 1, n) /\ Len(Prefix(o, n)[2]) = n
           /\ \A i \in 1..n : Prefix(o, n)[2][i] = o[2][i]
           /\ \A m \in 2..n : Prefix(Prefix(o, n), m) = Prefix(o, m)
<1> DEFINE c == o[2]
           d == SubSeq(c, 1, n)
           q == Prefix(o, n)
<1>1. o = <<root[1], c>> /\ c \in Wired /\ c[1] = root[2][1] /\ c \in Seq(Rule) /\ Len(c) \in Nat
  BY ReachedShape, ChainShape
<1>2. q = <<root[1], d>> /\ q[1] = root[1] /\ q[2] = d
  BY <1>1 DEF Prefix
<1>3. n \in 1..Len(c)
  BY <1>1
<1>4. /\ Len(d) = n /\ \A i \in 1..n : d[i] = c[i]
      /\ \A m \in 1..n : SubSeq(d, 1, m) = SubSeq(c, 1, m)
  BY <1>1, <1>3, PartShape
<1>5. d \in Wired
  BY <1>1, WiredPart
<1>6. \A m \in 2..n : Prefix(q, m) = Prefix(o, m)
  BY <1>1, <1>2, <1>4 DEF Prefix
<1>7. \A m \in 2..Len(c) : c[m] \in enabled /\ (m < Len(c) => Fate(Prefix(o, m), s, judge) \in {"ok", "undone"})
  BY DEF Reached
<1> HIDE DEF c, d, q
<1>8. d[1] = root[2][1]
  BY <1>1, <1>3, <1>4
<1>9. \A m \in 2..Len(q[2]) :
          /\ q[2][m] \in enabled
          /\ m < Len(q[2]) => Fate(Prefix(q, m), s, judge) \in {"ok", "undone"}
  <2> SUFFICES ASSUME NEW m \in 2..n
               PROVE  d[m] \in enabled /\ (m < n => Fate(Prefix(q, m), s, judge) \in {"ok", "undone"})
    BY <1>2, <1>4
  <2>1. m \in 2..Len(c) /\ m \in 1..n /\ (m < n => m < Len(c))
    BY <1>1, <1>3
  <2>2. d[m] = c[m] /\ Prefix(q, m) = Prefix(o, m)
    BY <1>4, <1>6, <2>1
  <2> QED BY <1>7, <2>1, <2>2
<1>10. q \in Reached(root, s, judge)
  BY <1>2, <1>5, <1>8, <1>9 DEF Reached
<1> QED BY <1>2, <1>4, <1>6, <1>10 DEF c, d, q

-----------------------------------------------------------------------------
(* The inductive invariant *)

\* A job works for what happened, on rules it may fire, at a row it claimed; a verdict in hand is true.
JobFits(j) ==
    j.at # "idle" =>
        /\ j.src \in happened \cup Day
        /\ j.kind = "tick" => j.src \in Day /\ j.todo \subseteq DOMAIN Every
        /\ j.kind = "event" => j.src \in Event
        /\ j.at = "called" => j.kind = "event"
        /\ j.at = "list" => j.todo # {} /\ j.kind # "retry"
        /\ j.at \in {"invoke", "settle", "mark"} =>
            /\ j.rule \in Rule
            /\ <<j.src, <<j.rule>>>> \in Claimed
            /\ j.kind = "tick" => j.rule \in DOMAIN Every
        /\ j.at = "mark" => j.kind = "tick"
        /\ j.at = "settle" /\ j.verdict = "ok" => Count(acts, <<j.src, <<j.rule>>>>) > 0
        /\ j.at = "settle" /\ j.verdict = "skipped_condition" => run[<<j.src, <<j.rule>>>>].input = "none"
JobsFit == \A p \in Proc : JobFits(job[p])

\* A row that tells of no firing holds no input, and without an input no verb acts that refuses an empty
\* one, nor any inside a cascade.
QuietEmpty == \A o \in Claimed : run[o].status \in Quiet => run[o].input = "none"
EmptySilent ==
    \A o \in Claimed : run[o].input = "none" /\ (Ending(o) \in Bare => Len(o[2]) > 1) => Count(acts, o) = 0

\* The rows and the acts fit each other.
RowsFit ==
    /\ QuietEmpty /\ EmptySilent
    /\ ActsOnce /\ OkActed /\ CauseStands /\ NestedSettled /\ ChainsEnd

IInv == TypeOK /\ JobsFit /\ RowsFit /\ StuckByFault /\ MarkAccounted

\* What a kept nested occurrence came through is kept, fresh and acted, each rule for the first time.
LEMMA KeptPart ==
    ASSUME TypeOK, NEW root \in Claimed, Len(root[2]) = 1, NEW s \in 1..2, NEW judge \in Judges(root),
           NEW verdict, NEW o \in Reached(root, s, judge), Kept(o, s, verdict, judge),
           NEW n \in 2..(Len(o[2]) - 1)
    PROVE  /\ Prefix(o, n) \in Reached(root, s, judge)
           /\ Kept(Prefix(o, n), s, verdict, judge)
           /\ Fate(Prefix(o, n), s, judge) = "ok"
<1>1. Len(o[2]) \in Nat
  BY ReachedShape, ChainShape
<1>2. n \in 2..Len(o[2]) /\ n \in Nat
  BY <1>1
<1>3. /\ Prefix(o, n) \in Reached(root, s, judge)
      /\ Len(Prefix(o, n)[2]) = n
      /\ \A m \in 2..n : Prefix(Prefix(o, n), m) = Prefix(o, m)
  BY <1>2, ReachedPart
<1>4. verdict = "ok" /\ \A m \in 2..(Len(o[2]) - 1) : Fate(Prefix(o, m), s, judge) = "ok"
  BY DEF Kept
<1>5. \A m \in 2..(n - 1) : Fate(Prefix(Prefix(o, n), m), s, judge) = "ok"
  <2> SUFFICES ASSUME NEW m \in 2..(n - 1)
               PROVE  Fate(Prefix(Prefix(o, n), m), s, judge) = "ok"
    OBVIOUS
  <2>1. m \in 2..n /\ m \in 2..(Len(o[2]) - 1)
    BY <1>1, <1>2
  <2> QED BY <1>3, <1>4, <2>1
<1>6. Kept(Prefix(o, n), s, verdict, judge)
  BY <1>3, <1>4, <1>5 DEF Kept
<1> QED BY <1>3, <1>4, <1>6

\* An occurrence that fires in a cascade fires for the first time, within the depth, no rule twice.
LEMMA FiresWithin ==
    ASSUME TypeOK, NEW root \in Claimed, Len(root[2]) = 1, NEW s \in 1..2, NEW judge \in Judges(root),
           NEW verdict, NEW o \in Reached(root, s, judge), Kept(o, s, verdict, judge),
           Fate(o, s, judge) = "ok"
    PROVE  /\ o \notin Claimed
           /\ Len(o[2]) <= MaxDepth + 1
           /\ \A i, j \in 2..Len(o[2]) : o[2][i] = o[2][j] => i = j
<1> DEFINE c == o[2]
<1>1. c \in Seq(Rule) /\ Len(c) \in 2..(MaxDepth + 2) /\ MaxDepth \in Nat /\ Len(c) \in Nat
  BY ReachedShape, ChainShape
<1>2. o \notin Claimed /\ ~Deep(c, s)
  BY DEF Fate
<1>3. Len(c) <= MaxDepth + 1
  BY <1>1, <1>2 DEF Deep
<1>4. ASSUME NEW n \in 2..Len(c), NEW i \in 2..(n - 1)
      PROVE  c[n] # c[i]
  <2>1. Fate(Prefix(o, n), s, judge) = "ok"
    <3>1. CASE n = Len(c)
      <4>1. Prefix(o, n) = o
        <5>1. SubSeq(c, 1, Len(c)) = c
          BY <1>1, SubSeqFull
        <5>2. o = <<root[1], c>>
          BY ReachedShape
        <5> QED BY <3>1, <5>1, <5>2 DEF Prefix
      <4> QED BY <4>1
    <3>2. CASE n # Len(c)
      <4>1. n \in 2..(Len(c) - 1)
        BY <1>1, <3>2
      <4> QED BY <4>1, KeptPart
    <3> QED BY <3>1, <3>2
  <2> DEFINE d == Prefix(o, n)[2]
  <2>2. Len(d) = n /\ \A k \in 1..n : d[k] = c[k]
    BY ReachedPart
  <2>3. Ending(Prefix(o, n)) \notin Known(d, s)
    BY <2>1 DEF Fate
  <2>4. Ending(Prefix(o, n)) = d[Len(d)]
    BY DEF Ending
  <2> HIDE DEF d, c
  <2>5. i \in s..(Len(d) - 1) /\ i \in 1..n /\ n \in 1..n
    BY <1>1, <2>2
  <2>6. d[i] \in Known(d, s)
    BY <2>5 DEF Known
  <2> QED BY <2>2, <2>3, <2>4, <2>5, <2>6
<1>5. \A i, j \in 2..Len(c) : c[i] = c[j] => i = j
  <2> SUFFICES ASSUME NEW i \in 2..Len(c), NEW j \in 2..Len(c), i # j
               PROVE  c[i] # c[j]
    OBVIOUS
  <2>1. i \in 2..(j - 1) \/ j \in 2..(i - 1)
    BY <1>1
  <2> QED BY <1>4, <2>1
<1> QED BY <1>2, <1>3, <1>5

\* Directly before a kept nested occurrence is the root, or one that fired.
LEMMA KeptBefore ==
    ASSUME TypeOK, NEW root \in Claimed, Len(root[2]) = 1, NEW s \in 1..2, NEW judge \in Judges(root),
           NEW verdict, NEW o \in Reached(root, s, judge), Kept(o, s, verdict, judge)
    PROVE  \/ Before(o) = root
           \/ /\ Before(o) \in Reached(root, s, judge)
              /\ Kept(Before(o), s, verdict, judge)
              /\ Fate(Before(o), s, judge) = "ok"
<1> DEFINE c == o[2]
           k == Len(c) - 1
<1>1. /\ o = <<root[1], c>> /\ c[1] = root[2][1]
      /\ c \in Seq(Rule) /\ Len(c) \in 2..(MaxDepth + 2) /\ Len(c) \in Nat
  BY ReachedShape, ChainShape
<1>2. Before(o) = Prefix(o, k)
  BY DEF Before, Prefix
<1>3. CASE Len(c) = 2
  <2> DEFINE d == SubSeq(c, 1, k)
  <2>1. k = 1 /\ k \in 1..Len(c)
    BY <1>1, <1>3
  <2>2. d \in Seq(Rule) /\ Len(d) = 1 /\ \A i \in 1..1 : d[i] = c[i]
    BY <1>1, <2>1, PartShape
  <2>3. root \in Occurrence
    BY DEF TypeOK
  <2>4. root[2] \in Chains /\ root = <<root[1], root[2]>>
    BY <2>3 DEF Occurrence
  <2>5. root[2] \in Seq(Rule)
    BY <2>4, ChainShape
  <2>6. Before(o) = <<root[1], d>>
    BY <1>1, <1>2 DEF Prefix
  <2>7. \A i \in 1..1 : d[i] = root[2][i]
    BY <1>1, <2>2
  <2> HIDE DEF d
  <2>8. d = root[2]
    BY <2>2, <2>5, <2>7, SeqEqual
  <2> QED BY <2>4, <2>6, <2>8
<1>4. CASE Len(c) # 2
  <2>1. k \in 2..(Len(c) - 1)
    BY <1>1, <1>4
  <2> QED BY <1>2, <2>1, KeptPart
<1> QED BY <1>3, <1>4

\* The row of a nested occurrence is settled, holds no input just when it did not fire, and is ok if it did.
LEMMA NestedRow ==
    ASSUME NEW fate \in Fates \ {"again"}
    PROVE  /\ Nested(fate) \in Row /\ Nested(fate).status # "running"
           /\ Nested(fate).status \in Quiet <=> fate \in Quiet
           /\ Nested(fate).input = "none" <=> fate \in Quiet
           /\ Nested(fate).status = "ok" <=> fate = "ok"
<1>1. /\ Nested(fate).status = Settled(fate)
      /\ Nested(fate).input = IF fate \in Quiet THEN "none" ELSE "resolved"
      /\ Nested(fate) = [status |-> Settled(fate), input |-> IF fate \in Quiet THEN "none" ELSE "resolved"]
  BY DEF Nested
<1>2. Settled(fate) \in Statuses \ {"running"} /\ (Settled(fate) \in Quiet <=> fate \in Quiet)
      /\ (Settled(fate) = "ok" <=> fate = "ok")
  BY DEF Settled, Fates, Statuses, Quiet
<1> QED BY <1>1, <1>2 DEF Row

\* The log after an invocation: the rows that were there, and those of the kept nested occurrences.
LEMMA EffectRun ==
    ASSUME TypeOK, NEW root \in Claimed, Len(root[2]) = 1, NEW s \in 1..2, NEW judge \in Judges(root),
           NEW verdict \in Verdicts, NEW e, e = Effect(root, s, verdict, judge)
    PROVE  /\ Claimed \subseteq DOMAIN e.run /\ DOMAIN e.run \subseteq Occurrence
           /\ e.run = [o \in DOMAIN e.run |-> e.run[o]]
           /\ \A o \in Claimed : e.run[o] = run[o]
           /\ \A o \in DOMAIN e.run \ Claimed :
                  /\ o \in Reached(root, s, judge) /\ Kept(o, s, verdict, judge)
                  /\ Fate(o, s, judge) \in Fates \ {"again"}
                  /\ e.run[o] = Nested(Fate(o, s, judge))
           /\ \A o \in Reached(root, s, judge) : Kept(o, s, verdict, judge) => o \in DOMAIN e.run
<1> DEFINE reached == IF verdict = "failed" THEN {} ELSE Reached(root, s, judge)
           kept == {o \in reached : Kept(o, s, verdict, judge)}
<1>1. e.run = [o \in Claimed \cup kept |-> IF o \in Claimed THEN run[o] ELSE Nested(Fate(o, s, judge))]
  BY DEF Effect
<1>2. kept \subseteq Reached(root, s, judge) /\ \A o \in kept : Kept(o, s, verdict, judge)
  OBVIOUS
<1>3. \A o \in Reached(root, s, judge) : Kept(o, s, verdict, judge) => o \in kept
  BY DEF Kept
<1> HIDE DEF kept, reached
<1>4. \A o \in kept : o \in Occurrence /\ Fate(o, s, judge) \in Fates
  BY <1>2, ReachedShape
<1>5. \A o \in kept : o \notin Claimed => Fate(o, s, judge) \in Fates \ {"again"}
  BY <1>2, <1>4, ReachedShape
<1>6. DOMAIN e.run = Claimed \cup kept
  BY <1>1
<1> QED BY <1>1, <1>2, <1>3, <1>4, <1>5, <1>6 DEF TypeOK

\* So no row goes away in an invocation, and none is rewritten.
LEMMA EffectKeeps ==
    ASSUME TypeOK, NEW root \in Claimed, Len(root[2]) = 1, NEW s \in 1..2, NEW judge \in Judges(root),
           NEW verdict \in Verdicts, NEW e, e = Effect(root, s, verdict, judge)
    PROVE  \A o \in Claimed : o \in DOMAIN e.run /\ e.run[o] = run[o]
<1>1. /\ Claimed \subseteq DOMAIN e.run /\ DOMAIN e.run \subseteq Occurrence
      /\ e.run = [o \in DOMAIN e.run |-> e.run[o]]
      /\ \A o \in Claimed : e.run[o] = run[o]
      /\ \A o \in DOMAIN e.run \ Claimed :
             /\ o \in Reached(root, s, judge) /\ Kept(o, s, verdict, judge)
             /\ Fate(o, s, judge) \in Fates \ {"again"}
             /\ e.run[o] = Nested(Fate(o, s, judge))
      /\ \A o \in Reached(root, s, judge) : Kept(o, s, verdict, judge) => o \in DOMAIN e.run
  BY EffectRun
<1> QED BY <1>1

\* The occurrences an invocation counts: its own, unless the memo answers, and the kept ones that fired.
CountedIn(S, root, s, verdict, judge) ==
    /\ root \in S <=> ~Replays(root)
    /\ \A o \in Reached(root, s, judge) : Kept(o, s, verdict, judge) /\ Fate(o, s, judge) = "ok" => o \in S
    /\ \A o \in S \ {root} : /\ o \in Reached(root, s, judge) /\ Kept(o, s, verdict, judge)
                             /\ Fate(o, s, judge) = "ok"

\* The acts after an invocation: its own, unless it was answered from the memo, and those of the nested
\* occurrences that fired; none if it did not answer ok.
LEMMA EffectActs ==
    ASSUME TypeOK, NEW root \in Claimed, Len(root[2]) = 1, NEW s \in 1..2, NEW judge \in Judges(root),
           NEW verdict \in Verdicts, NEW e, e = Effect(root, s, verdict, judge)
    PROVE  \/ verdict # "ok" /\ e.acts = acts
           \/ /\ verdict = "ok"
              /\ \E S : e.acts = Bump(acts, S) /\ CountedIn(S, root, s, verdict, judge)
<1> DEFINE fresh == IF Replays(root) THEN {} ELSE {root}
           reached == IF verdict = "failed" THEN {} ELSE Reached(root, s, judge)
           kept == {o \in reached : Kept(o, s, verdict, judge)}
           S == fresh \cup {o \in kept : Fate(o, s, judge) = "ok"}
<1>1. e.acts = IF verdict # "ok" THEN acts ELSE Bump(acts, S)
  BY DEF Effect
<1>2. CASE verdict # "ok"
  BY <1>1, <1>2
<1>3. CASE verdict = "ok"
  <2>1. reached = Reached(root, s, judge)
    BY <1>3
  <2>2. root \notin Reached(root, s, judge)
    BY ReachedShape
  <2>3. e.acts = Bump(acts, S)
    BY <1>1, <1>3
  <2>4. root \in S <=> ~Replays(root)
    BY <2>1, <2>2
  <2>5. \A o \in Reached(root, s, judge) : Kept(o, s, verdict, judge) /\ Fate(o, s, judge) = "ok" => o \in S
    BY <2>1
  <2>6. \A o \in S \ {root} : /\ o \in Reached(root, s, judge) /\ Kept(o, s, verdict, judge)
                              /\ Fate(o, s, judge) = "ok"
    BY <2>1
  <2> HIDE DEF S
  <2> QED BY <1>3, <2>3, <2>4, <2>5, <2>6 DEF CountedIn
<1> QED BY <1>2, <1>3

\* What was handed to a transport keeps its type.
LEMMA EffectLeft ==
    ASSUME TypeOK, NEW root \in Claimed, Len(root[2]) = 1, NEW s \in 1..2, NEW judge \in Judges(root),
           NEW verdict \in Verdicts, NEW e, e = Effect(root, s, verdict, judge)
    PROVE  DOMAIN e.left \subseteq Occurrence /\ e.left \in [DOMAIN e.left -> 0..MaxCount]
<1> DEFINE fresh == IF Replays(root) THEN {} ELSE {root}
           reached == IF verdict = "failed" THEN {} ELSE Reached(root, s, judge)
           S == {o \in fresh : Ending(o) \in Sends} \cup
                    {o \in reached : Ending(o) \in Sends /\ Fate(o, s, judge) \in {"ok", "undone"}}
<1>1. e.left = IF verdict = "failed" THEN left ELSE Bump(left, S)
  BY DEF Effect
<1>2. fresh \subseteq Occurrence
  BY DEF TypeOK
<1>3. reached \subseteq Occurrence
  BY ReachedShape
<1>4. S \subseteq Occurrence
  BY <1>2, <1>3
<1>5. DOMAIN left \subseteq Occurrence /\ left \in [DOMAIN left -> 0..MaxCount]
  BY DEF TypeOK
<1> HIDE DEF S
<1>6. /\ DOMAIN Bump(left, S) = DOMAIN left \cup S
      /\ Bump(left, S) \in [DOMAIN left \cup S -> 0..MaxCount]
  BY <1>5, BumpCounts
<1> QED BY <1>1, <1>4, <1>5, <1>6

\* What an invocation counts: forgets nothing, counts its own act if it answered ok, and counts no
\* occurrence that was acted already, unless it is the root under an empty input.
LEMMA CountsHold ==
    ASSUME TypeOK, ActsOnce, NEW root \in Claimed, Len(root[2]) = 1, NEW s \in 1..2,
           NEW judge \in Judges(root), NEW verdict \in Verdicts,
           NEW e, e = Effect(root, s, verdict, judge)
    PROVE  /\ DOMAIN e.acts \subseteq Occurrence /\ e.acts \in [DOMAIN e.acts -> 0..MaxCount]
           /\ \A o : Count(acts, o) \in Nat /\ Count(e.acts, o) \in Nat /\ Count(e.acts, o) >= Count(acts, o)
           /\ verdict = "ok" => Count(e.acts, root) > 0
           /\ verdict # "ok" => e.acts = acts
           /\ \A o \in Claimed \ {root} : Count(e.acts, o) = Count(acts, o)
           /\ \A o \in DOMAIN e.acts \ DOMAIN acts :
                  \/ o = root
                  \/ /\ o \in Reached(root, s, judge) /\ Kept(o, s, verdict, judge)
                     /\ Fate(o, s, judge) = "ok"
           /\ \A o \in Reached(root, s, judge) :
                  Kept(o, s, verdict, judge) /\ o \notin Claimed =>
                      /\ Fate(o, s, judge) = "ok" => Count(e.acts, o) = 1
                      /\ Fate(o, s, judge) # "ok" => Count(e.acts, o) = 0
           /\ run[root].input = "resolved" => Count(e.acts, root) <= 1
<1>1. DOMAIN acts \subseteq Occurrence /\ acts \in [DOMAIN acts -> 0..MaxCount] /\ MaxCount = 2
  BY DEF TypeOK, MaxCount
<1>2. \A o : Count(acts, o) \in 0..2
  BY <1>1 DEF Count
<1>3. \A o : o \notin Claimed => Count(acts, o) = 0
  BY DEF ActsOnce, Count
<1>4. run[root].input = "resolved" => Count(acts, root) <= 1
  BY <1>2 DEF ActsOnce, Count
<1>5. root \in Occurrence /\ root \notin Reached(root, s, judge)
  BY ReachedShape DEF TypeOK
<1>6. CASE verdict # "ok" /\ e.acts = acts
  <2>1. \A o : ~Kept(o, s, verdict, judge)
    BY <1>6 DEF Kept
  <2> QED BY <1>1, <1>2, <1>4, <1>6, <2>1
<1>7. CASE verdict = "ok" /\ \E S : e.acts = Bump(acts, S) /\ CountedIn(S, root, s, verdict, judge)
  <2>1. PICK S : e.acts = Bump(acts, S) /\ CountedIn(S, root, s, verdict, judge)
    BY <1>7
  <2> DEFINE g == Bump(acts, S)
  <2>2. /\ DOMAIN g = DOMAIN acts \cup S
        /\ g \in [DOMAIN acts \cup S -> 0..MaxCount]
        /\ \A o : Count(acts, o) \in 0..MaxCount /\ Count(g, o) \in 0..MaxCount
        /\ \A o : Count(g, o) >= Count(acts, o)
        /\ \A o : o \notin S => Count(g, o) = Count(acts, o)
        /\ \A o \in S : Count(g, o) > 0
        /\ \A o \in S : Count(acts, o) = 0 => Count(g, o) = 1
    BY <1>1, BumpCounts
  <2>3. e.acts = g
    BY <2>1
  <2> HIDE DEF g
  <2>4. /\ DOMAIN e.acts = DOMAIN acts \cup S
        /\ e.acts \in [DOMAIN acts \cup S -> 0..MaxCount]
        /\ \A o : Count(acts, o) \in 0..MaxCount /\ Count(e.acts, o) \in 0..MaxCount
        /\ \A o : Count(e.acts, o) >= Count(acts, o)
        /\ \A o : o \notin S => Count(e.acts, o) = Count(acts, o)
        /\ \A o \in S : Count(e.acts, o) > 0
        /\ \A o \in S : Count(acts, o) = 0 => Count(e.acts, o) = 1
    BY <2>2, <2>3
  <2>5. \A o \in S \ {root} : o \in Occurrence /\ o \notin Claimed
    BY <2>1, FiresWithin, ReachedShape DEF CountedIn
  <2>6. DOMAIN e.acts \subseteq Occurrence /\ e.acts \in [DOMAIN e.acts -> 0..MaxCount]
    BY <1>1, <1>5, <2>4, <2>5
  <2>7. \A o \in Claimed \ {root} : Count(e.acts, o) = Count(acts, o)
    BY <2>4, <2>5
  <2>8. Count(e.acts, root) > 0
    <3>1. CASE Replays(root)
      <4>1. Count(acts, root) > 0 /\ Count(e.acts, root) >= Count(acts, root)
        BY <2>4, <3>1 DEF Replays
      <4> QED BY <1>1, <2>4, <4>1
    <3>2. CASE ~Replays(root)
      BY <2>1, <2>4, <3>2 DEF CountedIn
    <3> QED BY <3>1, <3>2
  <2>9. run[root].input = "resolved" => Count(e.acts, root) <= 1
    <3>1. CASE root \in S /\ run[root].input = "resolved"
      <4>1. Count(acts, root) = 0
        BY <1>2, <2>1, <3>1 DEF Replays, CountedIn
      <4> QED BY <2>4, <3>1, <4>1
    <3>2. CASE root \notin S
      BY <1>4, <2>4, <3>2
    <3> QED BY <3>1, <3>2
  <2>10. \A o \in Reached(root, s, judge) :
             Kept(o, s, verdict, judge) /\ o \notin Claimed =>
                 /\ Fate(o, s, judge) = "ok" => Count(e.acts, o) = 1
                 /\ Fate(o, s, judge) # "ok" => Count(e.acts, o) = 0
    BY <1>3, <1>5, <2>1, <2>4 DEF CountedIn
  <2>11. \A o \in DOMAIN e.acts \ DOMAIN acts :
             \/ o = root
             \/ /\ o \in Reached(root, s, judge) /\ Kept(o, s, verdict, judge)
                /\ Fate(o, s, judge) = "ok"
    BY <2>1, <2>4 DEF CountedIn
  <2>12. \A o : Count(acts, o) \in Nat /\ Count(e.acts, o) \in Nat /\ Count(e.acts, o) >= Count(acts, o)
    BY <1>1, <2>4
  <2> QED BY <1>7, <2>6, <2>7, <2>8, <2>9, <2>10, <2>11, <2>12
<1> QED BY <1>6, <1>7, EffectActs

\* What a step does that commits an invocation of root: its effect, and the settlement of root, if at all.
Commits(root, verdict, e) ==
    /\ acts' = e.acts /\ happened' = happened
    /\ DOMAIN run' = DOMAIN e.run /\ run' = [o \in DOMAIN run' |-> run'[o]]
    /\ \A o \in DOMAIN run' \ {root} : run'[o] = e.run[o]
    /\ run'[root] \in Row /\ run'[root].input = run[root].input
    /\ run'[root].status \in {run[root].status, Settled(verdict)}

\* The rows that were there stay, under their inputs; the new ones are nested, and settled.
LEMMA CommitRows ==
    ASSUME TypeOK, RowsFit, NEW root \in Claimed, Len(root[2]) = 1, NEW s \in 1..2,
           NEW judge \in Judges(root), NEW verdict \in Verdicts, MayAnswer(root, verdict),
           NEW e, e = Effect(root, s, verdict, judge), Commits(root, verdict, e)
    PROVE  /\ Claimed' \subseteq Occurrence /\ run' \in [Claimed' -> Row] /\ Claimed \subseteq Claimed'
           /\ DOMAIN acts' \subseteq Occurrence /\ acts' \in [DOMAIN acts' -> 0..MaxCount]
           /\ \A o \in Claimed : run'[o].input = run[o].input /\ (o # root => run'[o] = run[o])
           /\ \A o \in Claimed' \ Claimed : Len(o[2]) > 1 /\ run'[o].status # "running"
           /\ \A o : Count(acts', o) \in Nat /\ Count(acts, o) \in Nat /\ Count(acts', o) >= Count(acts, o)
           /\ verdict = "ok" => Count(acts', root) > 0
<1>1. /\ Claimed \subseteq DOMAIN e.run /\ DOMAIN e.run \subseteq Occurrence
      /\ e.run = [o \in DOMAIN e.run |-> e.run[o]]
      /\ \A o \in Claimed : e.run[o] = run[o]
      /\ \A o \in DOMAIN e.run \ Claimed :
             /\ o \in Reached(root, s, judge) /\ Kept(o, s, verdict, judge)
             /\ Fate(o, s, judge) \in Fates \ {"again"}
             /\ e.run[o] = Nested(Fate(o, s, judge))
      /\ \A o \in Reached(root, s, judge) : Kept(o, s, verdict, judge) => o \in DOMAIN e.run
  BY EffectRun
<1>2. /\ DOMAIN e.acts \subseteq Occurrence /\ e.acts \in [DOMAIN e.acts -> 0..MaxCount]
      /\ \A o : Count(acts, o) \in Nat /\ Count(e.acts, o) \in Nat /\ Count(e.acts, o) >= Count(acts, o)
      /\ verdict = "ok" => Count(e.acts, root) > 0
  BY CountsHold DEF RowsFit
<1>3. /\ Claimed' = DOMAIN e.run /\ acts' = e.acts
      /\ \A o \in Claimed' : o # root => run'[o] = e.run[o]
      /\ run'[root] \in Row /\ run'[root].input = run[root].input
  BY DEF Commits, Claimed
<1>4. \A o \in Claimed' \ Claimed :
          Len(o[2]) > 1 /\ run'[o] \in Row /\ run'[o].status # "running"
  <2> SUFFICES ASSUME NEW o \in Claimed', o \notin Claimed
               PROVE  Len(o[2]) > 1 /\ run'[o] \in Row /\ run'[o].status # "running"
    OBVIOUS
  <2>1. o \in DOMAIN e.run \ Claimed /\ o # root
    BY <1>3
  <2>2. o \in Reached(root, s, judge)
    BY <1>1, <2>1
  <2>3. Len(o[2]) \in 2..(MaxDepth + 2) /\ MaxDepth \in Nat
    BY <2>2, ReachedShape, ChainShape
  <2>4. Fate(o, s, judge) \in Fates \ {"again"} /\ run'[o] = Nested(Fate(o, s, judge))
    BY <1>1, <1>3, <2>1
  <2>5. run'[o] \in Row /\ run'[o].status # "running"
    BY <2>4, NestedRow
  <2> QED BY <2>3, <2>5
<1>5. \A o \in Claimed : run'[o].input = run[o].input /\ (o # root => run'[o] = run[o])
  BY <1>1, <1>3
<1>6. \A o \in Claimed : run'[o] \in Row
  BY <1>1, <1>3, <1>5 DEF TypeOK
<1>7. run' \in [Claimed' -> Row]
  <2>1. \A o \in Claimed' : run'[o] \in Row
    BY <1>4, <1>6
  <2>2. run' = [o \in Claimed' |-> run'[o]]
    BY DEF Commits, Claimed
  <2> QED BY <2>1, <2>2
<1>8. /\ \A o : Count(acts', o) = Count(e.acts, o)
  BY <1>3 DEF Count
<1>9. Claimed' \subseteq Occurrence /\ Claimed \subseteq Claimed'
  BY <1>1, <1>3
<1>10. DOMAIN acts' \subseteq Occurrence /\ acts' \in [DOMAIN acts' -> 0..MaxCount]
  BY <1>2, <1>3
<1> QED BY <1>2, <1>4, <1>5, <1>7, <1>8, <1>9, <1>10

\* After it, too, an occurrence acts once and within the bounds, and what acted or did not is as the rows say.
LEMMA CommitFits ==
    ASSUME TypeOK, RowsFit, NEW root \in Claimed, Len(root[2]) = 1, NEW s \in 1..2,
           NEW judge \in Judges(root), NEW verdict \in Verdicts, MayAnswer(root, verdict),
           NEW e, e = Effect(root, s, verdict, judge), Commits(root, verdict, e)
    PROVE  RowsFit'
<1> DEFINE Kind(o) == o \in Reached(root, s, judge) /\ Kept(o, s, verdict, judge)
<1>1. /\ Claimed \subseteq Claimed'
      /\ \A o \in Claimed : run'[o].input = run[o].input /\ (o # root => run'[o] = run[o])
      /\ \A o \in Claimed' \ Claimed : Len(o[2]) > 1 /\ run'[o].status # "running"
      /\ \A o : Count(acts', o) \in Nat /\ Count(acts, o) \in Nat /\ Count(acts', o) >= Count(acts, o)
      /\ verdict = "ok" => Count(acts', root) > 0
      /\ DOMAIN acts' \subseteq Occurrence
  BY CommitRows
<1>2. /\ Claimed' = DOMAIN e.run /\ acts' = e.acts /\ happened' = happened
      /\ \A o \in Claimed' : o # root => run'[o] = e.run[o]
      /\ run'[root].input = run[root].input
      /\ run'[root].status \in {run[root].status, Settled(verdict)}
  BY DEF Commits, Claimed
<1>3. \A o : Count(acts', o) = Count(e.acts, o)
  BY <1>2 DEF Count
<1>4. /\ verdict # "ok" => acts' = acts
      /\ \A o \in Claimed \ {root} : Count(acts', o) = Count(acts, o)
      /\ \A o \in DOMAIN acts' \ DOMAIN acts : o = root \/ (Kind(o) /\ Fate(o, s, judge) = "ok")
      /\ \A o : Kind(o) /\ o \notin Claimed => /\ Fate(o, s, judge) = "ok" => Count(acts', o) = 1
                                               /\ Fate(o, s, judge) # "ok" => Count(acts', o) = 0
      /\ run[root].input = "resolved" => Count(acts', root) <= 1
  <2>1. ActsOnce
    BY DEF RowsFit
  <2>2. /\ verdict # "ok" => e.acts = acts
        /\ \A o \in Claimed \ {root} : Count(e.acts, o) = Count(acts, o)
        /\ \A o \in DOMAIN e.acts \ DOMAIN acts :
               \/ o = root
               \/ /\ o \in Reached(root, s, judge) /\ Kept(o, s, verdict, judge)
                  /\ Fate(o, s, judge) = "ok"
        /\ \A o \in Reached(root, s, judge) :
               Kept(o, s, verdict, judge) /\ o \notin Claimed =>
                   /\ Fate(o, s, judge) = "ok" => Count(e.acts, o) = 1
                   /\ Fate(o, s, judge) # "ok" => Count(e.acts, o) = 0
        /\ run[root].input = "resolved" => Count(e.acts, root) <= 1
    BY <2>1, CountsHold
  <2> QED BY <1>2, <1>3, <2>2
<1>5. /\ Claimed \subseteq DOMAIN e.run /\ DOMAIN e.run \subseteq Occurrence
      /\ e.run = [o \in DOMAIN e.run |-> e.run[o]]
      /\ \A o \in Claimed : e.run[o] = run[o]
      /\ \A o \in DOMAIN e.run \ Claimed :
             /\ o \in Reached(root, s, judge) /\ Kept(o, s, verdict, judge)
             /\ Fate(o, s, judge) \in Fates \ {"again"}
             /\ e.run[o] = Nested(Fate(o, s, judge))
      /\ \A o \in Reached(root, s, judge) : Kept(o, s, verdict, judge) => o \in DOMAIN e.run
  BY EffectRun
<1>6. \A o \in Claimed' \ Claimed :
          Kind(o) /\ Fate(o, s, judge) \in Fates \ {"again"} /\ run'[o] = Nested(Fate(o, s, judge))
  <2> SUFFICES ASSUME NEW o \in Claimed', o \notin Claimed
               PROVE  Kind(o) /\ Fate(o, s, judge) \in Fates \ {"again"} /\ run'[o] = Nested(Fate(o, s, judge))
    OBVIOUS
  <2>1. o \in DOMAIN e.run \ Claimed /\ o # root
    BY <1>2
  <2> QED BY <1>2, <1>5, <2>1
<1>7. \A o : Kind(o) => o \in Claimed'
  BY <1>2, <1>5
<1>8. \A o \in Claimed' \ Claimed :
          /\ run'[o].status \in Quiet <=> Fate(o, s, judge) \in Quiet
          /\ run'[o].input = "none" <=> Fate(o, s, judge) \in Quiet
          /\ run'[o].status = "ok" <=> Fate(o, s, judge) = "ok"
  BY <1>6, NestedRow
<1>9. Settled(verdict) \in {"ok", "failed"} /\ (Settled(verdict) = "ok" => verdict = "ok")
  BY DEF Settled, Verdicts
<1>10. \A o \in Claimed' \ Claimed : \/ Before(o) = root /\ verdict = "ok"
                                     \/ Kind(Before(o)) /\ Fate(Before(o), s, judge) = "ok"
  BY <1>6, KeptBefore DEF Kept
<1>11. \A o : Kind(o) /\ Fate(o, s, judge) = "ok" =>
           /\ o \notin Claimed /\ Len(o[2]) <= MaxDepth + 1
           /\ \A i, j \in 2..Len(o[2]) : o[2][i] = o[2][j] => i = j
  BY FiresWithin
<1> HIDE DEF Kind
<1>12. QuietEmpty'
  <2>1. \A o \in Claimed : run[o].status \in Quiet => run[o].input = "none"
    BY DEF RowsFit, QuietEmpty
  <2>2. ASSUME NEW o \in Claimed', run'[o].status \in Quiet
        PROVE  run'[o].input = "none"
    BY <1>1, <1>2, <1>8, <1>9, <2>1, <2>2 DEF Quiet
  <2> QED BY <2>2 DEF QuietEmpty
<1>13. EmptySilent'
  <2> SUFFICES ASSUME NEW o \in Claimed', run'[o].input = "none", Ending(o) \in Bare => Len(o[2]) > 1
               PROVE  Count(acts', o) = 0
    BY DEF EmptySilent
  <2>1. CASE o \notin Claimed
    BY <1>4, <1>6, <1>8, <2>1 DEF Quiet
  <2>2. CASE o \in Claimed
    <3>1. Count(acts, o) = 0
      BY <1>1, <2>2 DEF RowsFit, EmptySilent
    <3>2. CASE o # root
      BY <1>4, <2>2, <3>1, <3>2
    <3>3. CASE o = root
      <4>1. ~(1 > 1)
        OBVIOUS
      <4>2. Ending(root) \notin Bare
        BY <3>3, <4>1, Zenon
      <4>3. verdict = "failed"
        BY <1>2, <3>3, <4>2 DEF MayAnswer
      <4> QED BY <1>4, <3>1, <4>3
    <3> QED BY <3>2, <3>3
  <2> QED BY <2>1, <2>2
<1>14. ActsOnce'
  <2> SUFFICES ASSUME NEW o \in DOMAIN acts'
               PROVE  o \in Claimed' /\ (run'[o].input = "resolved" => acts'[o] <= 1)
    BY DEF ActsOnce
  <2>1. acts'[o] = Count(acts', o)
    BY DEF Count
  <2>2. \A x \in DOMAIN acts : x \in Claimed /\ (run[x].input = "resolved" => Count(acts, x) <= 1)
    BY DEF RowsFit, ActsOnce, Count
  <2>3. \A x : x \notin DOMAIN acts => Count(acts, x) = 0
    BY DEF Count
  <2>4. CASE o \notin Claimed
    <3>1. Kind(o) /\ Fate(o, s, judge) = "ok"
      BY <1>4, <2>2, <2>4
    <3> QED BY <1>4, <1>7, <2>1, <2>4, <3>1
  <2>5. CASE o = root
    BY <1>1, <1>4, <2>1, <2>5
  <2>6. CASE o \in Claimed /\ o # root
    <3>1. run[o].input = "resolved" => Count(acts, o) <= 1
      BY <2>2, <2>3
    <3> QED BY <1>1, <1>4, <2>1, <2>6, <3>1
  <2> QED BY <2>4, <2>5, <2>6
<1>15. OkActed'
  <2> SUFFICES ASSUME NEW o \in Claimed', run'[o].status = "ok"
               PROVE  Count(acts', o) > 0
    BY DEF OkActed
  <2>1. \A x \in Claimed : run[x].status = "ok" => Count(acts, x) > 0
    BY DEF RowsFit, OkActed
  <2>2. CASE o \notin Claimed
    BY <1>4, <1>6, <1>8, <2>2
  <2>3. CASE o \in Claimed
    BY <1>1, <1>2, <1>9, <2>1, <2>3
  <2> QED BY <2>2, <2>3
<1>16. CauseStands'
  <2> SUFFICES ASSUME NEW o \in Claimed'
               PROVE  IF Len(o[2]) > 1 THEN Count(acts', Before(o)) > 0 ELSE o[1] \in happened \cup Day
    BY <1>2 DEF CauseStands
  <2>1. \A x \in Claimed : IF Len(x[2]) > 1 THEN Count(acts, Before(x)) > 0 ELSE x[1] \in happened \cup Day
    BY DEF RowsFit, CauseStands
  <2>2. CASE o \notin Claimed
    <3>1. Len(o[2]) > 1
      BY <1>1, <2>2
    <3>2. CASE Before(o) = root /\ verdict = "ok"
      BY <1>1, <3>1, <3>2
    <3>3. CASE Kind(Before(o)) /\ Fate(Before(o), s, judge) = "ok"
      BY <1>4, <1>11, <3>1, <3>3
    <3> QED BY <1>10, <2>2, <3>2, <3>3
  <2>3. CASE o \in Claimed
    BY <1>1, <2>1, <2>3
  <2> QED BY <2>2, <2>3
<1>17. NestedSettled'
  <2> SUFFICES ASSUME NEW o \in Claimed', Len(o[2]) > 1
               PROVE  run'[o].status # "running"
    BY DEF NestedSettled
  <2>1. o # root
    <3> SUFFICES ASSUME o = root
                 PROVE  FALSE
      OBVIOUS
    <3>1. Len(o[2]) = 1
      OBVIOUS
    <3>2. ~(1 > 1)
      OBVIOUS
    <3> QED BY <3>1, <3>2, Zenon
  <2>2. \A x \in Claimed : Len(x[2]) > 1 => run[x].status # "running"
    BY DEF NestedSettled, RowsFit
  <2> QED BY <1>1, <2>1, <2>2
<1>18. ChainsEnd'
  <2> SUFFICES ASSUME NEW o \in DOMAIN acts'
               PROVE  /\ Len(o[2]) <= MaxDepth + 1
                      /\ \A i, j \in 2..Len(o[2]) : o[2][i] = o[2][j] => i = j
    BY DEF ChainsEnd
  <2>1. CASE o \in DOMAIN acts
    BY <2>1 DEF RowsFit, ChainsEnd
  <2>2. CASE o = root
    <3>1. Len(o[2]) = 1 /\ MaxDepth \in Nat
      BY <2>2, ChainShape
    <3> QED BY <3>1
  <2>3. CASE Kind(o) /\ Fate(o, s, judge) = "ok"
    BY <1>11, <2>3
  <2> QED BY <1>4, <2>1, <2>2, <2>3
<1> QED BY <1>12, <1>13, <1>14, <1>15, <1>16, <1>17, <1>18 DEF RowsFit

-----------------------------------------------------------------------------
(* The steps *)

\* Nothing that happened, was claimed or was counted goes away, and a row keeps its input.
Grows ==
    /\ happened \subseteq happened' /\ Claimed \subseteq Claimed'
    /\ \A o \in Claimed : run'[o].input = run[o].input
    /\ \A o : Count(acts, o) \in Nat /\ Count(acts', o) \in Nat /\ Count(acts', o) >= Count(acts, o)

\* A job that fits goes on fitting.
LEMMA StillFits ==
    ASSUME Grows, NEW j, JobFits(j)
    PROVE  JobFits(j)'
<1> DEFINE o == <<j.src, <<j.rule>>>>
<1>1. Count(acts, o) > 0 => Count(acts', o) > 0
  <2>1. Count(acts, o) \in Nat /\ Count(acts', o) \in Nat /\ Count(acts', o) >= Count(acts, o)
    BY DEF Grows
  <2> QED BY <2>1
<1>2. o \in Claimed => o \in Claimed' /\ run'[o].input = run[o].input
  BY DEF Grows
<1>3. j.src \in happened \cup Day => j.src \in happened' \cup Day
  BY DEF Grows
<1> HIDE DEF o
<1>4. Count(acts', o) > 0 <=> Count(acts, o)' > 0
  BY DEF Count
<1> QED BY <1>1, <1>2, <1>3 DEF JobFits, o, Count

\* Replacing one job by another that fits keeps all of them fitting.
LEMMA JobStep ==
    ASSUME TypeOK, JobsFit, Grows, NEW p \in Proc, NEW j \in Jobs, Goes(p, j), JobFits(j)'
    PROVE  job' \in [Proc -> Jobs] /\ JobsFit' /\ job'[p] = j /\ \A q \in Proc \ {p} : job'[q] = job[q]
<1>1. job' \in [Proc -> Jobs] /\ job'[p] = j /\ \A q \in Proc \ {p} : job'[q] = job[q]
  BY DEF TypeOK, Goes
<1>2. ASSUME NEW q \in Proc
      PROVE  JobFits(job[q])'
  <2>1. CASE q = p
    BY <1>1, <2>1 DEF JobFits
  <2>2. CASE q # p
    <3>1. PICK k \in Jobs : k = job[q]
      BY DEF TypeOK
    <3>2. JobFits(k)
      BY <3>1 DEF JobsFit
    <3>3. JobFits(k)'
      BY <3>2, StillFits
    <3>4. job'[q] = k
      BY <1>1, <2>2, <3>1
    <3> QED BY <3>3, <3>4 DEF JobFits
  <2> QED BY <2>1, <2>2
<1>3. JobsFit'
  BY <1>2 DEF JobsFit
<1> QED BY <1>1, <1>3

\* After a rule the job ends, or goes on with the list.
LEMMA RestFits ==
    ASSUME NEW j \in Jobs, j.src \in happened \cup Day, j.kind = "event" => j.src \in Event,
           j.kind = "tick" => j.src \in Day /\ j.todo \subseteq DOMAIN Every
    PROVE  Rest(j) \in Jobs /\ JobFits(Rest(j)) /\ Rest(j).at \in {"idle", "list"}
<1>1. Idle \in Jobs /\ Idle.at = "idle"
  BY DEF Idle, Jobs, Stages
<1>2. CASE j.kind = "retry" \/ j.todo = {}
  BY <1>1, <1>2 DEF Rest, JobFits
<1>3. CASE ~(j.kind = "retry" \/ j.todo = {})
  <2> DEFINE k == [j EXCEPT !.at = "list"]
  <2>1. k \in Jobs /\ k.at = "list" /\ k.kind = j.kind /\ k.src = j.src /\ k.todo = j.todo
    BY DEF Jobs, Stages
  <2>2. Rest(j) = k
    BY <1>3 DEF Rest
  <2> HIDE DEF k
  <2> QED BY <1>3, <2>1, <2>2 DEF JobFits
<1> QED BY <1>2, <1>3

\* The log unchanged, its rows fit the acts as before.
LEMMA RowsStay ==
    ASSUME RowsFit, run' = run, acts' = acts, happened \subseteq happened'
    PROVE  RowsFit'
<1>1. Claimed' = Claimed
  BY DEF Claimed
<1>2. \A o : Count(acts, o)' = Count(acts, o)
  BY DEF Count
<1>3. QuietEmpty' /\ EmptySilent' /\ ActsOnce' /\ OkActed'
  BY <1>1, <1>2 DEF RowsFit, QuietEmpty, EmptySilent, ActsOnce, OkActed, Count
<1>4. CauseStands'
  BY <1>1, <1>2 DEF RowsFit, CauseStands, Count
<1>5. NestedSettled' /\ ChainsEnd'
  BY <1>1 DEF RowsFit, NestedSettled, ChainsEnd
<1> QED BY <1>3, <1>4, <1>5 DEF RowsFit

\* What every state has of the counts.
LEMMA Counts ==
    ASSUME TypeOK
    PROVE  \A o : Count(acts, o) \in 0..2
BY DEF TypeOK, Count, MaxCount

\* A step that leaves the log and the acts alone.
Moves(p, j) ==
    /\ Goes(p, j)
    /\ UNCHANGED <<day, enabled, run, acts>>
    /\ happened \subseteq happened' /\ happened' \subseteq Event
    /\ faults' \in 0..MaxFaults /\ faults' >= faults
    /\ DOMAIN left' \subseteq Occurrence /\ left' \in [DOMAIN left' -> 0..MaxCount]
    /\ mark' \in [DOMAIN Every -> Day \cup {0}]
    /\ \A r \in DOMAIN Every : mark'[r] = mark[r] \/ <<mark'[r], <<r>>>> \in Claimed
    /\ faults' > 0 \/ job[p].at \notin {"invoke", "settle"}

\* It keeps the invariant.
LEMMA MoveStep ==
    ASSUME IInv, NEW p \in Proc, NEW j \in Jobs, Moves(p, j), JobFits(j)'
    PROVE  IInv'
<1>1. TypeOK /\ JobsFit /\ RowsFit /\ StuckByFault /\ MarkAccounted
  BY DEF IInv
<1>2. run' = run /\ acts' = acts /\ happened \subseteq happened' /\ Claimed' = Claimed /\ Goes(p, j)
  BY DEF Moves, Claimed
<1>3. RowsFit'
  BY <1>1, <1>2, RowsStay
<1>4. Grows
  BY <1>1, <1>2, Counts DEF Grows
<1>5. job' \in [Proc -> Jobs] /\ JobsFit' /\ job'[p] = j /\ \A q \in Proc \ {p} : job'[q] = job[q]
  BY <1>1, <1>2, <1>4, JobStep
<1>6. TypeOK'
  BY <1>1, <1>2, <1>5 DEF TypeOK, Moves
<1>7. StuckByFault'
  <2> SUFFICES ASSUME NEW o \in Claimed, run[o].status = "running", ~(faults' > 0)
               PROVE  \E q \in Proc : Root(q)' = o /\ job'[q].at \in {"invoke", "settle"}
    BY <1>2 DEF StuckByFault
  <2>1. ~(faults > 0)
    BY <1>1 DEF Moves, TypeOK
  <2>2. PICK q \in Proc : Root(q) = o /\ job[q].at \in {"invoke", "settle"}
    BY <1>1, <2>1 DEF StuckByFault
  <2>3. q # p
    BY <2>2 DEF Moves
  <2>4. job'[q] = job[q]
    BY <1>5, <2>3
  <2> QED BY <2>2, <2>4 DEF Root
<1>8. MarkAccounted'
  <2> SUFFICES ASSUME NEW r \in DOMAIN Every, mark'[r] # 0
               PROVE  <<mark'[r], <<r>>>> \in Claimed
    BY <1>2 DEF MarkAccounted
  <2>1. mark'[r] = mark[r] \/ <<mark'[r], <<r>>>> \in Claimed
    BY DEF Moves
  <2> QED BY <1>1, <2>1 DEF MarkAccounted
<1> QED BY <1>3, <1>5, <1>6, <1>7, <1>8 DEF IInv

\* What a working job is.
LEMMA JobIs ==
    ASSUME IInv, NEW p \in Proc, job[p].at # "idle"
    PROVE  /\ job[p] \in Jobs /\ JobFits(job[p])
           /\ job[p].src \in happened \cup Day
           /\ job[p].kind = "tick" => job[p].src \in Day /\ job[p].todo \subseteq DOMAIN Every
BY DEF IInv, TypeOK, JobsFit, JobFits

\* What stays, in the steps that move a job only, is typed.
LEMMA Unmoved ==
    ASSUME IInv
    PROVE  /\ faults \in 0..MaxFaults /\ faults >= faults /\ happened \subseteq Event
           /\ DOMAIN left \subseteq Occurrence /\ left \in [DOMAIN left -> 0..MaxCount]
           /\ mark \in [DOMAIN Every -> Day \cup {0}]
           /\ MaxFaults \in Nat
BY AutomationAssumptions DEF IInv, TypeOK

\* A call is dispatched after its verb committed.
LEMMA CallStep ==
    ASSUME IInv, NEW p \in Proc, NEW e \in Event, Call(p, e)
    PROVE  IInv'
<1> DEFINE j == [Idle EXCEPT !.at = "called", !.src = e]
<1>1. /\ j \in Jobs /\ j.at = "called" /\ j.src = e /\ j.kind = "event"
  BY DEF Idle, Jobs, Stages, Source
<1>2. Moves(p, j)
  BY Unmoved DEF Call, Moves, At
<1>3. JobFits(j)'
  <2>1. e \in happened'
    BY DEF Call
  <2> HIDE DEF j
  <2> QED BY <1>1, <2>1 DEF JobFits
<1> HIDE DEF j
<1> QED BY <1>1, <1>2, <1>3, MoveStep

\* A rest of a job's rules, or the job's end, keeps the invariant.
LEMMA RestStep ==
    ASSUME IInv, NEW p \in Proc, NEW j \in Jobs, Moves(p, Rest(j)), j.src \in happened \cup Day,
           j.kind = "event" => j.src \in Event, j.kind = "tick" => j.src \in Day /\ j.todo \subseteq DOMAIN Every
    PROVE  IInv'
<1>1. Rest(j) \in Jobs /\ JobFits(Rest(j))
  BY RestFits
<1>2. Grows
  BY Counts DEF Moves, Grows, Claimed, IInv
<1> DEFINE k == Rest(j)
<1> HIDE DEF k
<1>3. k \in Jobs /\ JobFits(k) /\ Moves(p, k)
  BY <1>1 DEF k
<1>4. JobFits(k)'
  BY <1>2, <1>3, StillFits
<1> QED BY <1>3, <1>4, MoveStep

\* The rules of a call's event.
LEMMA DispatchStep ==
    ASSUME IInv, NEW p \in Proc, Dispatch(p)
    PROVE  IInv'
<1>1. job[p].at = "called" /\ job[p] \in Jobs /\ JobFits(job[p])
  BY JobIs DEF Dispatch, At
<1>2. PICK j \in Jobs : j = [job[p] EXCEPT !.todo = Listens[job[p].src] \cap enabled]
  BY <1>1 DEF Jobs, IInv, TypeOK
<1>3. j.src \in Event /\ j.kind = "event" /\ j.src \in happened \cup Day
  BY <1>1, <1>2 DEF JobFits, Jobs
<1>4. Goes(p, Rest(j))
  BY <1>2 DEF Dispatch
<1>5. Moves(p, Rest(j))
  BY <1>1, <1>4, Unmoved DEF Dispatch, Moves
<1> QED BY <1>3, <1>5, RestStep

\* The schedule rules that are due.
LEMMA TickStep ==
    ASSUME IInv, NEW p \in Proc, NEW asOf \in Day, Tick(p, asOf)
    PROVE  IInv'
<1> DEFINE due == {r \in DOMAIN Every \cap enabled : Due(r, asOf)}
<1>1. due \subseteq DOMAIN Every /\ due \subseteq Rule
  BY AutomationAssumptions
<1>2. Goes(p, Rest([Idle EXCEPT !.kind = "tick", !.src = asOf, !.todo = due]))
  BY DEF Tick
<1> HIDE DEF due
<1>3. PICK d : d = due
  OBVIOUS
<1>4. PICK j \in Jobs : j = [Idle EXCEPT !.kind = "tick", !.src = asOf, !.todo = d]
  BY <1>1, <1>3 DEF Jobs, Idle, Source, Stages
<1>5. j.src = asOf /\ j.todo = d /\ j.kind = "tick"
  BY <1>4 DEF Idle
<1>6. Goes(p, Rest(j))
  BY <1>2, <1>3, <1>4
<1>7. Moves(p, Rest(j))
  BY <1>6, Unmoved DEF Tick, Moves, At
<1>8. j.src \in happened \cup Day /\ (j.kind = "tick" => j.src \in Day /\ j.todo \subseteq DOMAIN Every)
  BY <1>1, <1>3, <1>5
<1> QED BY <1>5, <1>7, <1>8, RestStep

\* The bookmark is written for an occurrence that is accounted for.
LEMMA MarkStep ==
    ASSUME IInv, NEW p \in Proc, Mark(p)
    PROVE  IInv'
<1>1. job[p].at = "mark" /\ job[p] \in Jobs /\ JobFits(job[p])
  BY JobIs DEF Mark, At
<1>2. PICK j \in Jobs : j = job[p]
  BY <1>1
<1>3. /\ j.kind = "tick" /\ j.rule \in DOMAIN Every /\ <<j.src, <<j.rule>>>> \in Claimed
      /\ j.src \in Day /\ j.todo \subseteq DOMAIN Every /\ j.src \in happened \cup Day
  BY <1>1, <1>2 DEF JobFits
<1>4. Goes(p, Rest(j)) /\ mark' = [mark EXCEPT ![j.rule] = j.src]
  BY <1>2 DEF Mark, Bookmark
<1>5. /\ mark' \in [DOMAIN Every -> Day \cup {0}]
      /\ \A r \in DOMAIN Every : mark'[r] = mark[r] \/ <<mark'[r], <<r>>>> \in Claimed
  BY <1>3, <1>4, Unmoved
<1>6. Moves(p, Rest(j))
  BY <1>1, <1>4, <1>5, Unmoved DEF Mark, Moves
<1> QED BY <1>3, <1>6, RestStep

\* An abandoned job is idle, and a fault is on record.
LEMMA FaultStep ==
    ASSUME IInv, NEW p \in Proc, Abandon(p) \/ DieActing(p)
    PROVE  IInv'
<1>1. Idle \in Jobs /\ Idle.at = "idle"
  BY DEF Idle, Jobs, Stages
<1>2. JobFits(Idle)'
  BY <1>1 DEF JobFits
<1>3. faults \in Nat /\ faults' = faults + 1 /\ faults' \in 0..MaxFaults
  BY Unmoved DEF Abandon, DieActing
<1>4. DOMAIN left' \subseteq Occurrence /\ left' \in [DOMAIN left' -> 0..MaxCount]
  <2>1. CASE Abandon(p)
    BY <2>1, Unmoved DEF Abandon
  <2>2. CASE DieActing(p)
    <3>1. PICK judge \in Judges(Root(p)) : left' = Effect(Root(p), Base(p), "ok", judge).left
      BY <2>2 DEF DieActing
    <3>2. job[p].at = "invoke" /\ job[p] \in Jobs /\ JobFits(job[p])
      BY <2>2, JobIs DEF DieActing, At
    <3>3. Root(p) \in Claimed /\ Len(Root(p)[2]) = 1
      BY <3>2 DEF JobFits, Root
    <3>4. Base(p) \in 1..2 /\ "ok" \in Verdicts /\ TypeOK
      BY DEF Base, Verdicts, IInv
    <3>5. PICK e : e = Effect(Root(p), Base(p), "ok", judge)
      OBVIOUS
    <3>6. DOMAIN e.left \subseteq Occurrence /\ e.left \in [DOMAIN e.left -> 0..MaxCount]
      BY <3>3, <3>4, <3>5, EffectLeft
    <3> QED BY <3>1, <3>5, <3>6
  <2> QED BY <2>1, <2>2
<1>5. Moves(p, Idle)
  BY <1>3, <1>4, Unmoved DEF Moves, Abandon, DieActing
<1> QED BY <1>1, <1>2, <1>5, MoveStep

\* A stuck row is a first one, and the chain of it is its one rule.
LEMMA StuckIs ==
    ASSUME IInv, NEW o \in Claimed, Stuck(o)
    PROVE  /\ Len(o[2]) = 1 /\ Ending(o) \in Rule /\ o = <<o[1], <<Ending(o)>>>>
           /\ o[1] \in happened \cup Day /\ o[1] \in Source
<1>1. o \in Occurrence /\ run[o].status = "running"
  BY DEF Stuck, IInv, TypeOK
<1>2. o[2] \in Chains /\ o[1] \in Source /\ o = <<o[1], o[2]>>
  BY <1>1 DEF Occurrence
<1>3. o[2] \in Seq(Rule) /\ Len(o[2]) \in 1..(MaxDepth + 2) /\ MaxDepth \in Nat
  BY <1>2, ChainShape
<1>4. ~(Len(o[2]) > 1)
  BY <1>1 DEF IInv, RowsFit, NestedSettled
<1>5. Len(o[2]) = 1
  <2>1. PICK n : n = Len(o[2])
    OBVIOUS
  <2>2. n \in 1..(MaxDepth + 2) /\ ~(n > 1) /\ MaxDepth \in Nat
    BY <1>3, <1>4, <2>1
  <2>3. n = 1
    BY <2>2
  <2> QED BY <2>1, <2>3
<1>6. o[2][1] \in Rule /\ Ending(o) = o[2][1]
  BY <1>3, <1>5, ElementOfSeq DEF Ending
<1>7. o[2] = <<o[2][1]>>
  BY <1>3, <1>5, <1>6
<1>8. o[1] \in happened \cup Day
  BY <1>4 DEF IInv, RowsFit, CauseStands
<1> QED BY <1>2, <1>5, <1>6, <1>7, <1>8

\* A retry works at the row that is there.
LEMMA RetryStep ==
    ASSUME IInv, NEW p \in Proc, NEW o \in Claimed, Retry(p, o)
    PROVE  IInv'
<1>1. /\ Len(o[2]) = 1 /\ Ending(o) \in Rule /\ o = <<o[1], <<Ending(o)>>>>
      /\ o[1] \in happened \cup Day /\ o[1] \in Source
  BY StuckIs DEF Retry
<1>2. PICK at \in {"invoke", "settle"} : at = IF Ending(o) \in Denied THEN "settle" ELSE "invoke"
  OBVIOUS
<1> DEFINE k == [Idle EXCEPT !.at = at, !.kind = "retry", !.src = o[1], !.rule = Ending(o), !.verdict = "failed"]
<1>3. /\ k \in Jobs
      /\ k.at \in {"invoke", "settle"} /\ k.kind = "retry" /\ k.src = o[1] /\ k.rule = Ending(o)
      /\ k.verdict = "failed"
  <2>1. Idle \in Jobs
    BY DEF Idle, Jobs, Stages
  <2>2. at \in Stages /\ o[1] \in Source \cup {0} /\ Ending(o) \in Rule \cup {0}
    BY <1>1, <1>2 DEF Stages
  <2>3. k \in Jobs
    BY <2>1, <2>2 DEF Jobs
  <2>4. /\ k.at = at /\ k.kind = "retry" /\ k.src = o[1] /\ k.rule = Ending(o)
        /\ k.verdict = "failed"
    BY <2>1 DEF Jobs
  <2> QED BY <1>2, <2>3, <2>4
<1>4. Goes(p, k)
  BY <1>2 DEF Retry
<1> HIDE DEF k
<1>5. PICK j \in Jobs : j = k
  BY <1>3
<1>6. Goes(p, j)
  BY <1>4, <1>5
<1>7. Moves(p, j)
  BY <1>6, Unmoved DEF Retry, Moves, At
<1>8. JobFits(j)
  BY <1>1, <1>3, <1>5 DEF JobFits
<1>9. Grows
  BY Counts DEF Retry, Grows, Claimed, IInv
<1>10. JobFits(j)'
  BY <1>8, <1>9, StillFits
<1> QED BY <1>7, <1>10, MoveStep

\* An unsettled row is somebody's, or a fault is on record, if a step leaves only its own and those behind.
LEMMA StuckStays ==
    ASSUME IInv, NEW p \in Proc, NEW j \in Jobs, job'[p] = j, \A q \in Proc \ {p} : job'[q] = job[q],
           faults' = faults,
           \A o \in Claimed' : run'[o].status = "running" =>
               \/ j.at \in {"invoke", "settle"} /\ <<j.src, <<j.rule>>>> = o
               \/ /\ o \in Claimed /\ run[o].status = "running"
                  /\ ~(Root(p) = o /\ job[p].at \in {"invoke", "settle"})
    PROVE  StuckByFault'
<1> SUFFICES ASSUME NEW o \in Claimed', run'[o].status = "running", ~(faults' > 0)
             PROVE  \E q \in Proc : Root(q)' = o /\ job'[q].at \in {"invoke", "settle"}
  BY DEF StuckByFault
<1>1. CASE j.at \in {"invoke", "settle"} /\ <<j.src, <<j.rule>>>> = o
  <2>1. Root(p)' = o /\ job'[p].at \in {"invoke", "settle"}
    BY <1>1 DEF Root
  <2> QED BY <2>1
<1>2. CASE /\ o \in Claimed /\ run[o].status = "running"
           /\ ~(Root(p) = o /\ job[p].at \in {"invoke", "settle"})
  <2>1. PICK q \in Proc : Root(q) = o /\ job[q].at \in {"invoke", "settle"}
    BY <1>2 DEF IInv, StuckByFault
  <2>2. q # p
    BY <1>2, <2>1
  <2>3. job'[q] = job[q]
    BY <2>2
  <2>4. Root(q)' = o /\ job'[q].at \in {"invoke", "settle"}
    BY <2>1, <2>3 DEF Root
  <2> QED BY <2>4
<1> QED BY <1>1, <1>2

\* The claim of an occurrence that was not there.
Claims(p, r, o, v) ==
    /\ o \notin Claimed
    /\ run' = [x \in Claimed \cup {o} |-> IF x = o THEN Claim(v) ELSE run[x]]
    /\ Goes(p, [Evaluated(p, r) EXCEPT !.at = IF v = "ok" THEN "invoke" ELSE "settle", !.verdict = v])
    /\ UNCHANGED <<day, enabled, happened, mark, acts, left, faults>>

\* A claim that was not there adds a row in work, of a rule on the list, for a job that fits.
LEMMA ClaimStep ==
    ASSUME IInv, NEW p \in Proc, job[p].at = "list", NEW r \in Rule, r = First(job[p].todo),
           NEW o, o = <<job[p].src, <<r>>>>,
           NEW v \in {"ok", "failed", "skipped_condition"}, Claims(p, r, o, v)
    PROVE  IInv'
<1>1. TypeOK /\ JobsFit /\ RowsFit /\ StuckByFault /\ MarkAccounted
  BY DEF IInv
<1>2. /\ o \notin Claimed
      /\ run' = [x \in Claimed \cup {o} |-> IF x = o THEN Claim(v) ELSE run[x]]
      /\ Goes(p, [Evaluated(p, r) EXCEPT !.at = IF v = "ok" THEN "invoke" ELSE "settle", !.verdict = v])
      /\ UNCHANGED <<day, enabled, happened, mark, acts, left, faults>>
  BY DEF Claims
<1>3. job[p] \in Jobs /\ JobFits(job[p]) /\ job[p].src \in happened \cup Day
  BY JobIs
<1>4. r \in job[p].todo /\ job[p].todo \subseteq Rule
  <2>1. job[p].todo # {} /\ job[p].todo \subseteq Rule
    BY <1>3 DEF JobFits, Jobs
  <2> QED BY <2>1, FirstIn
<1>5. /\ Claim(v) \in Row /\ Claim(v).status = "running"
      /\ v = "skipped_condition" => Claim(v).input = "none"
  BY DEF Claim, Row, Statuses
<1>6. /\ Claimed' = Claimed \cup {o} /\ run'[o] = Claim(v)
      /\ \A x \in Claimed : run'[x] = run[x]
      /\ acts' = acts /\ happened' = happened
  BY <1>2 DEF Claimed
<1>7. o \in Occurrence /\ o[1] = job[p].src /\ Len(o[2]) = 1
  <2>1. <<r>> \in Seq(Rule) /\ Len(<<r>>) = 1 /\ MaxDepth + 2 \in Nat /\ 1 \in 1..(MaxDepth + 2)
    BY ChainShape
  <2>2. <<r>> \in Chains
    BY <2>1, ChainShape
  <2>3. job[p].src \in Source
    BY <1>1, <1>3 DEF TypeOK, Source
  <2> QED BY <2>1, <2>2, <2>3 DEF Occurrence
<1>8. Grows
  BY <1>1, <1>6, Counts DEF Grows
<1>9. PICK at \in {"invoke", "settle"} : at = IF v = "ok" THEN "invoke" ELSE "settle"
  OBVIOUS
<1> DEFINE k == [Evaluated(p, r) EXCEPT !.at = at, !.verdict = v]
<1>10. /\ k \in Jobs /\ k.at = at /\ k.verdict = v /\ k.kind = job[p].kind /\ k.src = job[p].src
       /\ k.rule = r /\ k.todo = job[p].todo \ {r}
  <2>1. PICK m : m = Evaluated(p, r)
    OBVIOUS
  <2>2. /\ m \in Jobs /\ m.kind = job[p].kind /\ m.src = job[p].src
        /\ m.rule = r /\ m.todo = job[p].todo \ {r}
    BY <1>3, <2>1 DEF Evaluated, Jobs
  <2>3. at \in Stages
    BY <1>9 DEF Stages
  <2>4. k = [m EXCEPT !.at = at, !.verdict = v]
    BY <2>1
  <2> HIDE DEF k
  <2> QED BY <2>2, <2>3, <2>4 DEF Jobs
<1>11. Goes(p, k)
  BY <1>2, <1>9
<1> HIDE DEF k
<1>12. PICK j \in Jobs : j = k
  BY <1>10
<1>13. /\ j.at = at /\ j.verdict = v /\ j.kind = job[p].kind /\ j.src = job[p].src
       /\ j.rule = r /\ j.todo = job[p].todo \ {r} /\ Goes(p, j)
  BY <1>10, <1>11, <1>12
<1>14. JobFits(j)'
  <2>1. <<j.src, <<j.rule>>>> = o
    BY <1>13
  <2>2. /\ j.kind = "tick" => j.src \in Day /\ j.todo \subseteq DOMAIN Every /\ j.rule \in DOMAIN Every
        /\ j.kind = "event" => j.src \in Event
    BY <1>3, <1>4, <1>13 DEF JobFits
  <2>3. j.src \in happened' \cup Day /\ j.rule \in Rule /\ o \in Claimed'
    BY <1>3, <1>6, <1>13
  <2>4. j.at = "settle" /\ j.verdict = "skipped_condition" => run'[o].input = "none"
    BY <1>5, <1>6, <1>13
  <2>5. ~(j.at = "settle" /\ j.verdict = "ok")
    BY <1>9, <1>13
  <2>6. j.at \in {"invoke", "settle"}
    BY <1>13
  <2> QED BY <2>1, <2>2, <2>3, <2>4, <2>5, <2>6 DEF JobFits
<1>15. job' \in [Proc -> Jobs] /\ JobsFit' /\ job'[p] = j /\ \A q \in Proc \ {p} : job'[q] = job[q]
  BY <1>1, <1>8, <1>13, <1>14, JobStep
<1>16. TypeOK'
  <2>1. run' \in [Claimed' -> Row] /\ Claimed' \subseteq Occurrence
    <3>1. \A x \in Claimed' : run'[x] \in Row
      BY <1>1, <1>5, <1>6 DEF TypeOK
    <3>2. run' = [x \in Claimed' |-> run'[x]]
      BY <1>2, <1>6
    <3> QED BY <1>1, <1>6, <1>7, <3>1, <3>2 DEF TypeOK
  <2> QED BY <1>1, <1>2, <1>15, <2>1 DEF TypeOK
<1>17. StuckByFault'
  <2>1. \A x \in Claimed' : run'[x].status = "running" =>
            \/ j.at \in {"invoke", "settle"} /\ <<j.src, <<j.rule>>>> = x
            \/ /\ x \in Claimed /\ run[x].status = "running"
               /\ ~(Root(p) = x /\ job[p].at \in {"invoke", "settle"})
    BY <1>2, <1>6, <1>9, <1>13
  <2>2. faults' = faults
    BY <1>2
  <2> QED BY <1>15, <2>1, <2>2, StuckStays
<1>18. MarkAccounted'
  BY <1>1, <1>2, <1>6 DEF MarkAccounted
<1>19. RowsFit'
  <2>1. \A x : Count(acts, x)' = Count(acts, x)
    BY <1>2 DEF Count
  <2>2. Count(acts, o) = 0
    BY <1>1, <1>2 DEF RowsFit, ActsOnce, Count
  <2>3. QuietEmpty' /\ EmptySilent' /\ OkActed'
    BY <1>1, <1>5, <1>6, <2>1, <2>2 DEF RowsFit, QuietEmpty, EmptySilent, OkActed, Quiet
  <2>4. ActsOnce' /\ ChainsEnd'
    BY <1>1, <1>6 DEF RowsFit, ActsOnce, ChainsEnd
  <2>5. ~(Len(o[2]) > 1)
    <3>1. ~(1 > 1)
      OBVIOUS
    <3> QED BY <1>7, <3>1, Zenon
  <2>6. CauseStands'
    <3>1. o[1] \in happened \cup Day
      BY <1>3, <1>7
    <3>2. \A x \in Claimed : IF Len(x[2]) > 1 THEN Count(acts, Before(x)) > 0 ELSE x[1] \in happened \cup Day
      BY <1>1 DEF RowsFit, CauseStands
    <3>3. \A x \in Claimed' : IF Len(x[2]) > 1 THEN Count(acts, Before(x)) > 0 ELSE x[1] \in happened \cup Day
      BY <1>6, <2>5, <3>1, <3>2
    <3> QED BY <1>6, <3>3 DEF CauseStands, Count
  <2>7. NestedSettled'
    <3>1. \A x \in Claimed : Len(x[2]) > 1 => run[x].status # "running"
      BY <1>1 DEF RowsFit, NestedSettled
    <3> QED BY <1>6, <2>5, <3>1 DEF NestedSettled
  <2> QED BY <2>3, <2>4, <2>6, <2>7 DEF RowsFit
<1> QED BY <1>15, <1>16, <1>17, <1>18, <1>19 DEF IInv

\* A rule whose occurrence is taken is accounted for; any other is claimed.
LEMMA EvaluateStep ==
    ASSUME IInv, NEW p \in Proc, Evaluate(p)
    PROVE  IInv'
<1>1. job[p].at = "list" /\ job[p] \in Jobs /\ JobFits(job[p])
  BY JobIs DEF Evaluate, At
<1>2. job[p].todo # {} /\ job[p].todo \subseteq Rule
  BY <1>1 DEF JobFits, Jobs
<1>3. PICK r \in Rule : r = First(job[p].todo)
  BY <1>2, FirstIn
<1>4. r \in job[p].todo
  BY <1>2, <1>3, FirstIn
<1>5. PICK o : o = <<job[p].src, <<r>>>>
  OBVIOUS
<1>6. CASE Taken(o) /\ run' = run /\ Goes(p, Accounted(Evaluated(p, r)))
  <2>1. PICK m : m = Evaluated(p, r)
    OBVIOUS
  <2>2. /\ m \in Jobs /\ m.kind = job[p].kind /\ m.src = job[p].src /\ m.at = "list"
        /\ m.rule = r /\ m.todo = job[p].todo \ {r}
    BY <1>1, <2>1 DEF Evaluated, Jobs
  <2>3. /\ m.src \in happened \cup Day
        /\ m.kind = "event" => m.src \in Event
        /\ m.kind = "tick" => m.src \in Day /\ m.todo \subseteq DOMAIN Every /\ m.rule \in DOMAIN Every
    BY <1>1, <1>4, <2>2 DEF JobFits
  <2>4. Goes(p, Accounted(m))
    BY <1>6, <2>1
  <2>5. CASE m.kind = "tick"
    <3> DEFINE k == [m EXCEPT !.at = "mark"]
    <3>1. /\ k \in Jobs /\ k.at = "mark" /\ k.kind = "tick" /\ k.src = m.src /\ k.rule = r
          /\ k.todo = m.todo
      BY <2>2, <2>5 DEF Jobs, Stages
    <3>2. Goes(p, k)
      BY <2>4, <2>5 DEF Accounted
    <3> HIDE DEF k
    <3>3. PICK j \in Jobs : j = k
      BY <3>1
    <3>4. Goes(p, j)
      BY <3>2, <3>3
    <3>5. Moves(p, j)
      BY <1>1, <1>6, <3>4, Unmoved DEF Evaluate, Moves
    <3>6. <<j.src, <<j.rule>>>> \in Claimed
      BY <1>5, <1>6, <2>2, <3>1, <3>3 DEF Taken
    <3>7. JobFits(j)
      BY <2>2, <2>3, <2>5, <3>1, <3>3, <3>6 DEF JobFits
    <3>8. Grows
      BY <1>6, Counts DEF Evaluate, Grows, Claimed, IInv
    <3>9. JobFits(j)'
      BY <3>7, <3>8, StillFits
    <3> QED BY <3>5, <3>9, MoveStep
  <2>6. CASE m.kind # "tick"
    <3>1. Goes(p, Rest(m))
      BY <2>4, <2>6 DEF Accounted
    <3>2. Moves(p, Rest(m))
      BY <1>1, <1>6, <3>1, Unmoved DEF Evaluate, Moves
    <3> QED BY <2>2, <2>3, <3>2, RestStep
  <2> QED BY <2>5, <2>6
<1>7. ASSUME NEW v \in {"ok", "failed", "skipped_condition"}, Claims(p, r, o, v)
      PROVE  IInv'
  BY <1>1, <1>3, <1>5, <1>7, ClaimStep
<1>8. CASE \E v \in {"ok", "failed", "skipped_condition"} : Claims(p, r, o, v)
  BY <1>7, <1>8
<1> QED BY <1>3, <1>5, <1>6, <1>8 DEF Evaluate, Claims, Taken

\* A commit of an invocation leaves the rest of the invariant standing, if the job that did it fits after.
LEMMA CommitStep ==
    ASSUME IInv, NEW p \in Proc, NEW j \in Jobs, job' = [job EXCEPT ![p] = j],
           NEW root \in Claimed, Len(root[2]) = 1, NEW s \in 1..2,
           NEW judge \in Judges(root), NEW verdict \in Verdicts, MayAnswer(root, verdict),
           NEW e, e = Effect(root, s, verdict, judge), Commits(root, verdict, e), left' = e.left,
           UNCHANGED <<day, enabled, mark, faults>>,
           \/ j = job[p] /\ j.at = "idle"
           \/ Root(p) = root /\ j = Answered(job[p], Settled(verdict)) /\ job[p].at = "invoke"
    PROVE  /\ TypeOK' /\ JobsFit' /\ RowsFit' /\ MarkAccounted'
           /\ Claimed \subseteq Claimed'
           /\ \A o \in Claimed : o # root => run'[o] = run[o]
           /\ \A o \in Claimed' \ Claimed : run'[o].status # "running"
           /\ job'[p] = j /\ \A q \in Proc \ {p} : job'[q] = job[q]
<1>1. TypeOK /\ JobsFit /\ RowsFit /\ StuckByFault /\ MarkAccounted
  BY DEF IInv
<1>2. /\ Claimed' \subseteq Occurrence /\ run' \in [Claimed' -> Row] /\ Claimed \subseteq Claimed'
      /\ DOMAIN acts' \subseteq Occurrence /\ acts' \in [DOMAIN acts' -> 0..MaxCount]
      /\ \A o \in Claimed : run'[o].input = run[o].input /\ (o # root => run'[o] = run[o])
      /\ \A o \in Claimed' \ Claimed : Len(o[2]) > 1 /\ run'[o].status # "running"
      /\ \A o : Count(acts', o) \in Nat /\ Count(acts, o) \in Nat /\ Count(acts', o) >= Count(acts, o)
      /\ verdict = "ok" => Count(acts', root) > 0
  BY <1>1, CommitRows
<1>3. RowsFit'
  BY <1>1, CommitFits
<1>4. happened' = happened
  BY DEF Commits
<1>5. Grows
  BY <1>2, <1>4 DEF Grows
<1>6. DOMAIN left' \subseteq Occurrence /\ left' \in [DOMAIN left' -> 0..MaxCount]
  BY <1>1, EffectLeft
<1>7. JobFits(j)'
  <2>1. CASE j = job[p] /\ j.at = "idle"
    BY <2>1 DEF JobFits
  <2>2. CASE Root(p) = root /\ j = Answered(job[p], Settled(verdict)) /\ job[p].at = "invoke"
    <3>1. job[p] \in Jobs /\ JobFits(job[p])
      BY <2>2, JobIs
    <3>2. /\ j.at = "settle" /\ j.verdict = Settled(verdict) /\ j.src = job[p].src
          /\ j.rule = job[p].rule /\ j.kind = job[p].kind /\ j.todo = job[p].todo
      BY <2>2, <3>1 DEF Answered, Jobs
    <3>3. Settled(verdict) \in {"ok", "failed"} /\ (Settled(verdict) = "ok" => verdict = "ok")
      BY DEF Settled, Verdicts
    <3>4. <<j.src, <<j.rule>>>> = root
      BY <2>2, <3>2 DEF Root
    <3>5. /\ j.src \in happened \cup Day /\ j.rule \in Rule
          /\ j.kind = "event" => j.src \in Event
          /\ j.kind = "tick" => j.src \in Day /\ j.todo \subseteq DOMAIN Every /\ j.rule \in DOMAIN Every
      BY <2>2, <3>1, <3>2 DEF JobFits
    <3>6. root \in Claimed'
      BY <1>2
    <3>7. Count(acts', root) > 0 <=> Count(acts, root)' > 0
      BY DEF Count
    <3> QED BY <1>2, <1>4, <3>2, <3>3, <3>4, <3>5, <3>6, <3>7 DEF JobFits, Count
  <2> QED BY <2>1, <2>2
<1>8. Goes(p, j)
  BY DEF Goes
<1>9. job' \in [Proc -> Jobs] /\ JobsFit' /\ job'[p] = j /\ \A q \in Proc \ {p} : job'[q] = job[q]
  BY <1>1, <1>5, <1>7, <1>8, JobStep
<1>10. TypeOK'
  BY <1>1, <1>2, <1>4, <1>6, <1>9 DEF TypeOK
<1>11. MarkAccounted'
  BY <1>1, <1>2 DEF MarkAccounted
<1> QED BY <1>2, <1>3, <1>9, <1>10, <1>11

\* An invocation commits what it reached.
LEMMA InvokeStep ==
    ASSUME IInv, NEW p \in Proc, Invoke(p)
    PROVE  IInv'
<1>1. job[p].at = "invoke" /\ job[p] \in Jobs /\ JobFits(job[p])
  BY JobIs DEF Invoke, At
<1>2. PICK root \in Claimed : root = Root(p)
  BY <1>1 DEF JobFits, Root
<1>3. Len(root[2]) = 1
  BY <1>2 DEF Root
<1>4. PICK verdict \in Verdicts, judge \in Judges(root) :
          /\ MayAnswer(root, verdict)
          /\ run' = Effect(root, Base(p), verdict, judge).run
          /\ acts' = Effect(root, Base(p), verdict, judge).acts
          /\ left' = Effect(root, Base(p), verdict, judge).left
          /\ Goes(p, Answered(job[p], Settled(verdict)))
  BY <1>2 DEF Invoke
<1>5. PICK s \in 1..2 : s = Base(p)
  BY DEF Base
<1>6. PICK e : e = Effect(root, s, verdict, judge)
  OBVIOUS
<1>7. run' = e.run /\ acts' = e.acts /\ left' = e.left
  BY <1>4, <1>5, <1>6
<1>8. UNCHANGED <<day, enabled, happened, mark, faults>>
  BY DEF Invoke
<1>9. Claimed \subseteq DOMAIN e.run /\ e.run[root] = run[root] /\ e.run = [o \in DOMAIN e.run |-> e.run[o]]
  BY <1>3, <1>6, EffectRun DEF IInv
<1>10. Commits(root, verdict, e)
  <2>1. run[root] \in Row
    BY DEF IInv, TypeOK
  <2> QED BY <1>7, <1>8, <1>9, <2>1 DEF Commits
<1>11. Settled(verdict) \in {"ok", "failed"}
  BY DEF Settled, Verdicts
<1>12. PICK j \in Jobs : j = Answered(job[p], Settled(verdict))
  BY <1>1, <1>11 DEF Answered, Jobs, Stages
<1>13. j.at = "settle" /\ <<j.src, <<j.rule>>>> = root /\ job' = [job EXCEPT ![p] = j]
  BY <1>1, <1>2, <1>4, <1>12 DEF Answered, Jobs, Root, Goes
<1>14. UNCHANGED <<day, enabled, mark, faults>>
  BY <1>8
<1>15. \/ j = job[p] /\ j.at = "idle"
       \/ Root(p) = root /\ j = Answered(job[p], Settled(verdict)) /\ job[p].at = "invoke"
  BY <1>1, <1>2, <1>12
<1>16. /\ TypeOK' /\ JobsFit' /\ RowsFit' /\ MarkAccounted'
       /\ Claimed \subseteq Claimed'
       /\ \A o \in Claimed : o # root => run'[o] = run[o]
       /\ \A o \in Claimed' \ Claimed : run'[o].status # "running"
       /\ job'[p] = j /\ \A q \in Proc \ {p} : job'[q] = job[q]
  BY <1>3, <1>4, <1>6, <1>7, <1>10, <1>13, <1>14, <1>15, CommitStep
<1>17. \A o \in Claimed' : run'[o].status = "running" =>
           \/ j.at \in {"invoke", "settle"} /\ <<j.src, <<j.rule>>>> = o
           \/ /\ o \in Claimed /\ run[o].status = "running"
              /\ ~(Root(p) = o /\ job[p].at \in {"invoke", "settle"})
  BY <1>2, <1>13, <1>16
<1>18. StuckByFault'
  BY <1>8, <1>16, <1>17, StuckStays
<1> QED BY <1>16, <1>18 DEF IInv

\* A retry under a key commits what it reached and its settlement in one.
LEMMA RetryWholeStep ==
    ASSUME IInv, NEW p \in Proc, NEW root \in Claimed, RetryWhole(p, root)
    PROVE  IInv'
<1>1. job[p].at = "idle" /\ Stuck(root)
  BY DEF RetryWhole, At
<1>2. Len(root[2]) = 1
  BY <1>1, StuckIs
<1>3. PICK verdict \in Verdicts, judge \in Judges(root) :
          /\ MayAnswer(root, verdict)
          /\ run' = [Effect(root, 2, verdict, judge).run EXCEPT ![root].status = Settled(verdict)]
          /\ acts' = Effect(root, 2, verdict, judge).acts
          /\ left' = Effect(root, 2, verdict, judge).left
  BY DEF RetryWhole
<1>4. PICK s \in 1..2 : s = 2
  OBVIOUS
<1>5. PICK e : e = Effect(root, s, verdict, judge)
  OBVIOUS
<1>6. run' = [e.run EXCEPT ![root].status = Settled(verdict)] /\ acts' = e.acts /\ left' = e.left
  BY <1>3, <1>4, <1>5
<1>7. UNCHANGED <<day, enabled, happened, mark, job, faults>>
  BY DEF RetryWhole
<1>8. Claimed \subseteq DOMAIN e.run /\ e.run[root] = run[root] /\ e.run = [o \in DOMAIN e.run |-> e.run[o]]
  BY <1>2, <1>5, EffectRun DEF IInv
<1>9. Settled(verdict) \in {"ok", "failed"}
  BY DEF Settled, Verdicts
<1>10. /\ DOMAIN run' = DOMAIN e.run /\ run' = [o \in DOMAIN run' |-> run'[o]]
       /\ \A o \in DOMAIN run' \ {root} : run'[o] = e.run[o]
       /\ run'[root] = [run[root] EXCEPT !.status = Settled(verdict)]
  BY <1>6, <1>8
<1>11. run'[root] \in Row /\ run'[root].input = run[root].input /\ run'[root].status = Settled(verdict)
  <2>1. run[root] \in Row
    BY DEF IInv, TypeOK
  <2> QED BY <1>9, <1>10, <2>1 DEF Row, Statuses
<1>12. Commits(root, verdict, e)
  BY <1>6, <1>7, <1>10, <1>11 DEF Commits
<1>13. PICK j \in Jobs : j = job[p]
  BY DEF IInv, TypeOK
<1>14. job' = [job EXCEPT ![p] = j]
  BY <1>7, <1>13 DEF IInv, TypeOK
<1>15. UNCHANGED <<day, enabled, mark, faults>>
  BY <1>7
<1>16. \/ j = job[p] /\ j.at = "idle"
       \/ Root(p) = root /\ j = Answered(job[p], Settled(verdict)) /\ job[p].at = "invoke"
  BY <1>1, <1>13
<1>17. MayAnswer(root, verdict) /\ left' = e.left
  BY <1>3, <1>6
<1>18. /\ TypeOK' /\ JobsFit' /\ RowsFit' /\ MarkAccounted'
       /\ Claimed \subseteq Claimed'
       /\ \A o \in Claimed : o # root => run'[o] = run[o]
       /\ \A o \in Claimed' \ Claimed : run'[o].status # "running"
       /\ job'[p] = j /\ \A q \in Proc \ {p} : job'[q] = job[q]
  BY <1>2, <1>17, <1>5, <1>12, <1>14, <1>15, <1>16, CommitStep
<1>19. \A o \in Claimed' : run'[o].status = "running" =>
           \/ j.at \in {"invoke", "settle"} /\ <<j.src, <<j.rule>>>> = o
           \/ /\ o \in Claimed /\ run[o].status = "running"
              /\ ~(Root(p) = o /\ job[p].at \in {"invoke", "settle"})
  BY <1>1, <1>9, <1>11, <1>18
<1>20. StuckByFault'
  BY <1>7, <1>18, <1>19, StuckStays
<1> QED BY <1>18, <1>20 DEF IInv

\* Once its rule is accounted for, a job fits wherever it goes on.
LEMMA AccountedFits ==
    ASSUME NEW j \in Jobs, JobFits(j), j.at = "settle"
    PROVE  /\ Accounted(j) \in Jobs /\ JobFits(Accounted(j))
           /\ Accounted(j).at \in {"idle", "list", "mark"}
<1>1. /\ j.src \in happened \cup Day /\ j.rule \in Rule /\ <<j.src, <<j.rule>>>> \in Claimed
      /\ j.kind = "event" => j.src \in Event
      /\ j.kind = "tick" => j.src \in Day /\ j.todo \subseteq DOMAIN Every /\ j.rule \in DOMAIN Every
  BY DEF JobFits
<1>2. CASE j.kind = "tick"
  <2> DEFINE k == [j EXCEPT !.at = "mark"]
  <2>1. /\ k \in Jobs /\ k.at = "mark" /\ k.kind = "tick" /\ k.src = j.src /\ k.rule = j.rule
        /\ k.todo = j.todo
    BY <1>2 DEF Jobs, Stages
  <2>2. Accounted(j) = k
    BY <1>2 DEF Accounted
  <2> HIDE DEF k
  <2>3. JobFits(k)
    BY <1>1, <1>2, <2>1 DEF JobFits
  <2> QED BY <2>1, <2>2, <2>3
<1>3. CASE j.kind # "tick"
  <2>1. Accounted(j) = Rest(j)
    BY <1>3 DEF Accounted
  <2>2. Rest(j) \in Jobs /\ JobFits(Rest(j)) /\ Rest(j).at \in {"idle", "list"}
    BY <1>1, RestFits
  <2> QED BY <2>1, <2>2
<1> QED BY <1>2, <1>3

\* A settlement writes a true verdict, or finds one.
LEMMA SettleStep ==
    ASSUME IInv, NEW p \in Proc, Settle(p)
    PROVE  IInv'
<1>1. TypeOK /\ JobsFit /\ RowsFit /\ StuckByFault /\ MarkAccounted
  BY DEF IInv
<1>2. job[p].at = "settle" /\ job[p] \in Jobs /\ JobFits(job[p])
  BY JobIs DEF Settle, At
<1>3. PICK root \in Claimed : root = Root(p)
  BY <1>2 DEF JobFits, Root
<1>4. PICK v \in {"ok", "failed", "skipped_condition"} : v = job[p].verdict
  BY <1>2 DEF Jobs
<1>5. /\ v = "ok" => Count(acts, root) > 0
      /\ v = "skipped_condition" => run[root].input = "none"
  BY <1>2, <1>3, <1>4 DEF JobFits, Root
<1>6. UNCHANGED <<day, enabled, happened, mark, acts, left, faults>>
  BY DEF Settle
<1>7. /\ Claimed' = Claimed /\ run' \in [Claimed' -> Row]
      /\ \A o \in Claimed \ {root} : run'[o] = run[o]
      /\ run'[root].input = run[root].input /\ run'[root].status # "running"
      /\ run'[root].status \in {run[root].status, v}
  <2>1. run \in [Claimed -> Row] /\ run[root] \in Row
    BY <1>1 DEF TypeOK
  <2>2. v \in Statuses \ {"running"}
    BY DEF Statuses, Quiet
  <2>3. CASE run[root].status = "running"
    <3>1. run' = [run EXCEPT ![root].status = v]
      BY <1>3, <1>4, <2>3 DEF Settle, Settles
    <3>2. run'[root] = [run[root] EXCEPT !.status = v] /\ \A o \in Claimed \ {root} : run'[o] = run[o]
      BY <2>1, <3>1
    <3>3. run'[root] \in Row /\ run'[root].status = v /\ run'[root].input = run[root].input
      BY <2>1, <2>2, <3>2 DEF Row
    <3>4. Claimed' = Claimed /\ run' \in [Claimed' -> Row]
      <4>1. DOMAIN run' = DOMAIN run /\ run' = [o \in DOMAIN run |-> run'[o]]
        BY <2>1, <3>1
      <4>2. \A o \in Claimed : run'[o] \in Row
        BY <2>1, <3>2, <3>3
      <4> QED BY <4>1, <4>2 DEF Claimed
    <3> QED BY <2>2, <3>2, <3>3, <3>4
  <2>4. CASE run[root].status # "running"
    <3>1. run' = run
      BY <1>3, <2>4 DEF Settle, Settles
    <3>2. Claimed' = Claimed
      BY <3>1 DEF Claimed
    <3> QED BY <2>1, <2>4, <3>1, <3>2
  <2> QED BY <2>3, <2>4
<1>8. Grows
  BY <1>1, <1>6, <1>7, Counts DEF Grows
<1>9. PICK m \in Jobs : m = job[p]
  BY <1>2
<1>10. PICK j \in Jobs : j = Accounted(m) /\ JobFits(j) /\ j.at \in {"idle", "list", "mark"}
  BY <1>2, <1>9, AccountedFits
<1>11. Goes(p, j)
  BY <1>9, <1>10 DEF Settle
<1>12. JobFits(j)'
  BY <1>8, <1>10, StillFits
<1>13. job' \in [Proc -> Jobs] /\ JobsFit' /\ job'[p] = j /\ \A q \in Proc \ {p} : job'[q] = job[q]
  BY <1>1, <1>8, <1>11, <1>12, JobStep
<1>14. TypeOK'
  BY <1>1, <1>6, <1>7, <1>13 DEF TypeOK
<1>15. \A o \in Claimed' : run'[o].status = "running" =>
           \/ j.at \in {"invoke", "settle"} /\ <<j.src, <<j.rule>>>> = o
           \/ /\ o \in Claimed /\ run[o].status = "running"
              /\ ~(Root(p) = o /\ job[p].at \in {"invoke", "settle"})
  BY <1>3, <1>7
<1>16. StuckByFault'
  BY <1>6, <1>13, <1>15, StuckStays
<1>17. MarkAccounted'
  BY <1>1, <1>6, <1>7 DEF MarkAccounted
<1>18. RowsFit'
  <2>1. \A x : Count(acts, x)' = Count(acts, x)
    BY <1>6 DEF Count
  <2>2. QuietEmpty'
    BY <1>1, <1>5, <1>7 DEF RowsFit, QuietEmpty, Quiet
  <2>3. EmptySilent' /\ ActsOnce' /\ ChainsEnd'
    BY <1>1, <1>6, <1>7, <2>1 DEF RowsFit, EmptySilent, ActsOnce, ChainsEnd
  <2>4. OkActed'
    BY <1>1, <1>5, <1>7, <2>1 DEF RowsFit, OkActed
  <2>5. CauseStands'
    BY <1>1, <1>6, <1>7, <2>1 DEF RowsFit, CauseStands
  <2>6. NestedSettled'
    BY <1>1, <1>7 DEF RowsFit, NestedSettled
  <2> QED BY <2>2, <2>3, <2>4, <2>5, <2>6 DEF RowsFit
<1> QED BY <1>13, <1>14, <1>16, <1>17, <1>18 DEF IInv

\* The clock and the switches touch no job and no row.
LEMMA StandStill ==
    ASSUME IInv, UNCHANGED <<happened, run, mark, job, acts, left, faults>>, day' \in Day, enabled' \subseteq Rule
    PROVE  IInv'
<1>1. TypeOK'
  BY DEF IInv, TypeOK, Claimed
<1>2. RowsFit'
  BY RowsStay DEF IInv
<1>3. Claimed' = Claimed /\ \A o : Count(acts, o)' = Count(acts, o)
  BY DEF Claimed, Count
<1>4. JobsFit'
  BY <1>3 DEF IInv, JobsFit, JobFits
<1>5. StuckByFault' /\ MarkAccounted'
  BY <1>3 DEF IInv, StuckByFault, MarkAccounted, Root
<1> QED BY <1>1, <1>2, <1>4, <1>5 DEF IInv

\* The invariant holds at the start, and every step keeps it.
THEOREM Invariant == Spec => []IInv
<1>1. Init => IInv
  <2> SUFFICES ASSUME Init
               PROVE  IInv
    OBVIOUS
  <2>1. Claimed = {} /\ DOMAIN acts = {} /\ DOMAIN left = {}
    BY DEF Init, Claimed
  <2>2. Idle \in Jobs /\ Idle.at = "idle"
    BY DEF Idle, Jobs, Stages
  <2>3. 1 \in Day /\ 0 \in 0..MaxFaults
    BY AutomationAssumptions DEF Day
  <2>4. mark \in [DOMAIN Every -> Day \cup {0}] /\ \A r \in DOMAIN Every : mark[r] = 0
    BY DEF Init
  <2>5. job \in [Proc -> Jobs]
    BY <2>2 DEF Init
  <2>6. run \in [Claimed -> Row] /\ acts \in [DOMAIN acts -> 0..MaxCount] /\ left \in [DOMAIN left -> 0..MaxCount]
    BY <2>1 DEF Init
  <2>7. TypeOK
    BY <2>1, <2>3, <2>4, <2>5, <2>6 DEF Init, TypeOK
  <2>8. JobsFit
    BY <2>2 DEF Init, JobsFit, JobFits
  <2>9. RowsFit /\ StuckByFault
    BY <2>1 DEF RowsFit, QuietEmpty, EmptySilent, ActsOnce, OkActed, CauseStands, NestedSettled, ChainsEnd,
                StuckByFault
  <2>10. MarkAccounted
    BY <2>4 DEF MarkAccounted
  <2> QED BY <2>7, <2>8, <2>9, <2>10 DEF IInv
<1>2. IInv /\ [Next]_vars => IInv'
  <2> SUFFICES ASSUME IInv, [Next]_vars
               PROVE  IInv'
    OBVIOUS
  <2>1. day \in Day /\ enabled \subseteq Rule
    BY DEF IInv, TypeOK
  <2>2. CASE Tomorrow
    <3>1. day' \in Day
      BY <2>1, <2>2, AutomationAssumptions DEF Tomorrow, Day
    <3> QED BY <2>1, <2>2, <3>1, StandStill DEF Tomorrow
  <2>3. CASE \E r \in Switched : Switch(r)
    <3>1. PICK r \in Switched : Switch(r)
      BY <2>3
    <3>2. r \in Rule
      BY AutomationAssumptions
    <3> QED BY <2>1, <3>1, <3>2, StandStill DEF Switch
  <2>4. CASE UNCHANGED vars
    BY <2>1, <2>4, StandStill DEF vars
  <2>5. ASSUME NEW p \in Proc,
               \/ Works(p) \/ Abandon(p) \/ DieActing(p)
               \/ \E e \in Event : Call(p, e)
               \/ \E asOf \in Day : Tick(p, asOf)
               \/ \E o \in Claimed : Retry(p, o) \/ RetryWhole(p, o)
        PROVE  IInv'
    <3>1. CASE Works(p)
      BY <3>1, DispatchStep, EvaluateStep, InvokeStep, SettleStep, MarkStep DEF Works
    <3>2. CASE Abandon(p) \/ DieActing(p)
      BY <3>2, FaultStep
    <3>3. CASE \E e \in Event : Call(p, e)
      BY <3>3, CallStep
    <3>4. CASE \E asOf \in Day : Tick(p, asOf)
      BY <3>4, TickStep
    <3>5. CASE \E o \in Claimed : Retry(p, o) \/ RetryWhole(p, o)
      BY <3>5, RetryStep, RetryWholeStep
    <3> QED BY <2>5, <3>1, <3>2, <3>3, <3>4, <3>5
  <2> QED BY <2>2, <2>3, <2>4, <2>5 DEF Next
<1> QED BY <1>1, <1>2, PTL DEF Spec

-----------------------------------------------------------------------------
(* Theorems *)

\* Every variable keeps its type.  (the columns of automation_run and automation_rule)
THEOREM TypeCorrect == Spec => []TypeOK
<1>1. IInv => TypeOK
  BY DEF IInv
<1> QED BY <1>1, Invariant, PTL

\* An occurrence acts once per rule, however often its event is delivered and however many processes finish
\* its row, under any interleaving and any number of deaths.  (automation_run_once, and the derived key)
THEOREM OnceAnOccurrence == Spec => []ActsOnce
<1>1. IInv => ActsOnce
  BY DEF IInv, RowsFit
<1> QED BY <1>1, Invariant, PTL

\* A row that says ok acted; a row still open is somebody's, or somebody died; and a row that says skipped
\* or suppressed did not act, but for a first one whose verb accepts the empty input it was claimed with.
\* (claimRun, evaluateAndFire, settleRun)
THEOREM RowsTrue ==
    Spec => [](/\ OkActed /\ StuckByFault
               /\ \A o \in Claimed : /\ run[o].status \in Quiet
                                     /\ Ending(o) \in Bare => Len(o[2]) > 1
                                     => Count(acts, o) = 0)
<1> DEFINE P == /\ OkActed /\ StuckByFault
                /\ \A o \in Claimed : /\ run[o].status \in Quiet
                                      /\ Ending(o) \in Bare => Len(o[2]) > 1
                                      => Count(acts, o) = 0
<1>1. IInv => P
  BY DEF IInv, RowsFit, QuietEmpty, EmptySilent
<1>2. Spec => []P
  <2> HIDE DEF P
  <2> QED BY <1>1, Invariant, PTL
<1> QED BY <1>2

\* A cascade stands and falls with its cause, settles before its root, and ends, for every wiring of the
\* rules and every depth.  (automationInvokerFor's savepoints, the cascade frame)
THEOREM CascadesHold == Spec => []CascadeHolds
<1>1. IInv => CascadeHolds
  BY DEF IInv, RowsFit, CascadeHolds
<1> QED BY <1>1, Invariant, PTL

\* The bookmark of a schedule rule stands on an occurrence that the log has.  (last_fired_at)
THEOREM MarksAreAccounted == Spec => []MarkAccounted
<1>1. IInv => MarkAccounted
  BY DEF IInv
<1> QED BY <1>1, Invariant, PTL

\* The run log is history: no row goes away and no terminal status is rewritten.  (settleRun)
THEOREM HistoryStands == Spec => SettledStands
<1> DEFINE Stands == \A o \in Claimed : /\ o \in DOMAIN run'
                                        /\ run[o].status # "running" => run'[o].status = run[o].status
<1>1. IInv /\ [Next]_vars => [Stands]_run
  <2> SUFFICES ASSUME IInv, [Next]_vars, run' # run
               PROVE  Stands
    OBVIOUS
  <2>1. ASSUME NEW p \in Proc, Evaluate(p)
        PROVE  Stands
    <3>1. \E o, v : /\ o \notin Claimed
                    /\ run' = [x \in Claimed \cup {o} |-> IF x = o THEN Claim(v) ELSE run[x]]
      BY <2>1 DEF Evaluate, Taken
    <3> QED BY <3>1
  <2>2. ASSUME NEW p \in Proc, Invoke(p)
        PROVE  Stands
    <3>1. job[p].at = "invoke" /\ job[p] \in Jobs /\ JobFits(job[p])
      BY <2>2, JobIs DEF Invoke, At
    <3>2. PICK root \in Claimed : root = Root(p)
      BY <3>1 DEF JobFits, Root
    <3>3. Len(root[2]) = 1
      BY <3>2 DEF Root
    <3>4. PICK verdict \in Verdicts, judge \in Judges(root) : run' = Effect(root, Base(p), verdict, judge).run
      BY <2>2, <3>2 DEF Invoke
    <3>5. PICK s \in 1..2 : s = Base(p)
      BY DEF Base
    <3>6. PICK e : e = Effect(root, s, verdict, judge)
      OBVIOUS
    <3>7. TypeOK
      BY DEF IInv
    <3>8. \A o \in Claimed : o \in DOMAIN e.run /\ e.run[o] = run[o]
      BY <3>3, <3>6, <3>7, EffectKeeps
    <3> QED BY <3>4, <3>5, <3>6, <3>8
  <2>3. ASSUME NEW p \in Proc, Settle(p)
        PROVE  Stands
    <3>1. run' = [run EXCEPT ![Root(p)].status = job[p].verdict] /\ run[Root(p)].status = "running"
      BY <2>3 DEF Settle, Settles
    <3>2. DOMAIN run' = Claimed /\ \A o \in Claimed : o # Root(p) => run'[o] = run[o]
      BY <3>1 DEF Claimed
    <3> QED BY <3>1, <3>2
  <2>4. ASSUME NEW p \in Proc, NEW root \in Claimed, RetryWhole(p, root)
        PROVE  Stands
    <3>1. Len(root[2]) = 1 /\ run[root].status = "running"
      BY <2>4, StuckIs DEF RetryWhole, Stuck
    <3>2. PICK verdict \in Verdicts, judge \in Judges(root) :
              run' = [Effect(root, 2, verdict, judge).run EXCEPT ![root].status = Settled(verdict)]
      BY <2>4 DEF RetryWhole
    <3>3. PICK s \in 1..2 : s = 2
      OBVIOUS
    <3>4. PICK e : e = Effect(root, s, verdict, judge)
      OBVIOUS
    <3>5. TypeOK
      BY DEF IInv
    <3>6. \A o \in Claimed : o \in DOMAIN e.run /\ e.run[o] = run[o]
      BY <3>1, <3>4, <3>5, EffectKeeps
    <3>7. run' = [e.run EXCEPT ![root].status = Settled(verdict)]
      BY <3>2, <3>3, <3>4
    <3>8. DOMAIN run' = DOMAIN e.run /\ \A o \in DOMAIN e.run : o # root => run'[o] = e.run[o]
      BY <3>7
    <3> QED BY <3>1, <3>6, <3>8
  <2>5. \E p \in Proc : \/ Evaluate(p) \/ Invoke(p) \/ Settle(p)
                        \/ \E o \in Claimed : RetryWhole(p, o)
    BY DEF Next, vars, Works, Tomorrow, Switch, Dispatch, Mark, Abandon, DieActing, Call, Tick, Retry
  <2> QED BY <2>1, <2>2, <2>3, <2>4, <2>5
<1> QED BY <1>1, Invariant, PTL DEF Spec, SettledStands

-----------------------------------------------------------------------------
(* The run log, with the retries that met a skipped row *)

\* A first row that is quiet, or about to be.
Hushed(o) == run[o].status \in Quiet \/ Skipping(o)
\* Nobody acted for it, nor is anybody about to.
Unacted(o) == Count(acts, o) = 0 /\ \A p \in Proc : ~(At(p, "invoke") /\ Root(p) = o)

\* Unless a retry hurried, a quiet row did not act, and nobody is about to act for it.
HInv == \A o \in Claimed : Len(o[2]) = 1 /\ o \notin hurried /\ Hushed(o) => Unacted(o)

\* Where no job newly invokes or skips, and no row becomes quiet, nothing changes.
LEMMA HushStays ==
    ASSUME HInv, hurried \subseteq hurried', NEW o \in Claimed, Len(o[2]) = 1, o \notin hurried', Hushed(o)',
           NEW p \in Proc, \A q \in Proc \ {p} : job'[q] = job[q],
           run'[o].status \in Quiet => Hushed(o),
           job'[p] = job[p] \/ job'[p].at \notin {"invoke", "settle"} \/ Root(p)' # o,
           Unacted(o) => Count(acts, o)' = 0
    PROVE  Unacted(o)'
<1>1. ASSUME NEW q \in Proc, At(q, "settle")', job'[q].verdict = "skipped_condition", Root(q)' = o
      PROVE  Skipping(o)
  <2>1. job'[q] = job[q]
    BY <1>1 DEF At
  <2> QED BY <1>1, <2>1 DEF Skipping, At, Root
<1>2. Hushed(o)
  BY <1>1 DEF Hushed, Skipping
<1>3. Unacted(o)
  BY <1>2 DEF HInv
<1>4. ASSUME NEW q \in Proc, At(q, "invoke")', Root(q)' = o
      PROVE  FALSE
  <2>1. job'[q] = job[q]
    BY <1>4 DEF At
  <2> QED BY <1>3, <1>4, <2>1 DEF Unacted, At, Root
<1> QED BY <1>3, <1>4 DEF Unacted

\* A job's next stage, once a rule is done with.
LEMMA RestAt ==
    ASSUME NEW j \in Jobs
    PROVE  /\ Rest(j) \in Jobs
           /\ \/ Rest(j) = Idle /\ Idle.at = "idle" /\ Idle.kind = "event"
              \/ /\ Rest(j).at = "list" /\ Rest(j).kind = j.kind /\ Rest(j).src = j.src
                 /\ Rest(j).todo = j.todo
BY DEF Rest, Idle, Jobs, Stages

\* The same where a tick still has a bookmark to write.
LEMMA AccountedAt ==
    ASSUME NEW j \in Jobs
    PROVE  /\ Accounted(j) \in Jobs /\ Accounted(j).at \notin {"invoke", "settle", "called"}
           /\ j.kind = "tick" => Accounted(j) = [j EXCEPT !.at = "mark"]
           /\ j.kind # "tick" => Accounted(j).kind # "tick"
<1>1. CASE j.kind = "tick"
  BY <1>1 DEF Accounted, Jobs, Stages
<1>2. CASE j.kind # "tick"
  BY <1>2, RestAt DEF Accounted
<1> QED BY <1>1, <1>2

\* Every variable but the jobs stays, and the job that moves does not invoke or settle after.
LEMMA HushMove ==
    ASSUME IInv, HInv, hurried \subseteq hurried', run' = run, acts' = acts, NEW p \in Proc, NEW j, Goes(p, j),
           j.at \notin {"invoke", "settle"}
    PROVE  HInv'
<1>1. job'[p] = j /\ \A q \in Proc \ {p} : job'[q] = job[q]
  BY DEF Goes, IInv, TypeOK
<1>2. Claimed' = Claimed /\ \A o : Count(acts, o)' = Count(acts, o)
  BY DEF Claimed, Count
<1>3. \A o \in Claimed : Len(o[2]) = 1 /\ o \notin hurried' /\ Hushed(o)' => Unacted(o)'
  BY <1>1, <1>2, HushStays DEF Hushed, Unacted
<1> QED BY <1>2, <1>3 DEF HInv

\* A claim acts for nobody.
LEMMA HushClaim ==
    ASSUME IInv, HInv, hurried \subseteq hurried', NEW p \in Proc, Evaluate(p)
    PROVE  HInv'
<1>1. job[p].at = "list" /\ job[p] \in Jobs /\ JobFits(job[p])
  BY JobIs DEF Evaluate, At
<1>2. PICK r : r = First(job[p].todo)
  OBVIOUS
<1>3. r \in Rule
  BY <1>1, <1>2, FirstIn DEF JobFits, Jobs
<1> DEFINE m == Evaluated(p, r)
<1>4. m \in Jobs /\ m.src = job[p].src /\ m.rule = r /\ m.kind = job[p].kind /\ m.at = "list"
  BY <1>1, <1>3 DEF Evaluated, Jobs
<1>5. PICK o : o = <<job[p].src, <<r>>>>
  OBVIOUS
<1> HIDE DEF m
<1>6. acts' = acts
  BY DEF Evaluate
<1>7. CASE run' = run /\ Goes(p, Accounted(m))
  BY <1>4, <1>6, <1>7, AccountedAt, HushMove
<1>8. ASSUME NEW v \in {"ok", "failed", "skipped_condition"}, o \notin Claimed,
             run' = [x \in Claimed \cup {o} |-> IF x = o THEN Claim(v) ELSE run[x]],
             Goes(p, [m EXCEPT !.at = IF v = "ok" THEN "invoke" ELSE "settle", !.verdict = v])
      PROVE  HInv'
  <2> DEFINE k == [m EXCEPT !.at = IF v = "ok" THEN "invoke" ELSE "settle", !.verdict = v]
  <2>1. /\ k.at = (IF v = "ok" THEN "invoke" ELSE "settle") /\ k.verdict = v
        /\ k.src = job[p].src /\ k.rule = r
    BY <1>4 DEF Jobs
  <2> HIDE DEF k
  <2>2. job'[p] = k /\ \A q \in Proc \ {p} : job'[q] = job[q]
    BY <1>8 DEF Goes, IInv, TypeOK, k
  <2>3. Claimed' = Claimed \cup {o} /\ \A x \in Claimed : run'[x] = run[x]
    BY <1>8 DEF Claimed
  <2>4. run'[o].status = "running" /\ Root(p)' = o
    BY <1>5, <1>8, <2>1, <2>2 DEF Claim, Root
  <2>5. Count(acts, o)' = 0
    BY <1>6, <1>8 DEF IInv, RowsFit, ActsOnce, Count
  <2>6. ASSUME NEW q \in Proc \ {p}, At(q, "invoke")' \/ At(q, "settle")'
        PROVE  Root(q)' \in Claimed
    <3>1. job'[q] = job[q] /\ job[q].at \in {"invoke", "settle"}
      BY <2>2, <2>6 DEF At
    <3>2. JobFits(job[q])
      BY <3>1, JobIs
    <3> QED BY <3>1, <3>2 DEF JobFits, Root
  <2>7. Hushed(o)' => Unacted(o)'
    <3>1. Hushed(o)' => v = "skipped_condition"
      BY <1>8, <2>1, <2>2, <2>4, <2>6 DEF Hushed, Skipping, Quiet
    <3>2. ASSUME NEW q \in Proc, At(q, "invoke")', Root(q)' = o
          PROVE  v = "ok"
      BY <1>8, <2>1, <2>2, <2>6, <3>2 DEF At
    <3> QED BY <2>5, <3>1, <3>2 DEF Unacted
  <2>8. ASSUME NEW x \in Claimed, Len(x[2]) = 1, x \notin hurried', Hushed(x)'
        PROVE  Unacted(x)'
    <3>1. x # o /\ run'[x] = run[x]
      BY <1>8, <2>3
    <3>2. Unacted(x) => Count(acts, x)' = 0
      BY <1>6 DEF Unacted, Count
    <3> QED BY <2>2, <2>4, <2>8, <3>1, <3>2, HushStays DEF Hushed
  <2> QED BY <2>3, <2>7, <2>8 DEF HInv
<1> QED BY <1>2, <1>5, <1>7, <1>8 DEF Evaluate, Taken, m

\* An invocation acts for the row it works on and for nested ones.
LEMMA HushCommit ==
    ASSUME IInv, HInv, hurried \subseteq hurried', NEW p \in Proc, NEW root \in Claimed, Len(root[2]) = 1,
           NEW s \in 1..2, NEW judge \in Judges(root), NEW verdict \in Verdicts, MayAnswer(root, verdict),
           NEW e, e = Effect(root, s, verdict, judge), Commits(root, verdict, e),
           \A q \in Proc \ {p} : job'[q] = job[q],
           job'[p] = job[p] \/ (job'[p].at # "invoke" /\ job'[p].verdict # "skipped_condition"),
           \A o : o = root => ~Hushed(o)' \/ o \in hurried'
    PROVE  HInv'
<1>1. TypeOK /\ RowsFit /\ ActsOnce
  BY DEF IInv, RowsFit
<1>2. /\ \A o \in Claimed : o # root => run'[o] = run[o]
      /\ \A o \in Claimed' \ Claimed : Len(o[2]) > 1
  BY <1>1, CommitRows
<1>3. \A o \in Claimed \ {root} : Count(acts', o) = Count(acts, o)
  BY <1>1, CountsHold DEF Commits
<1>4. ASSUME NEW o \in Claimed', Len(o[2]) = 1, o \notin hurried', Hushed(o)'
      PROVE  Unacted(o)'
  <2>1. o \in Claimed /\ o # root
    <3>1. ~(Len(o[2]) > 1)
      BY <1>4
    <3> QED BY <1>2, <1>4, <3>1, Zenon
  <2>2. Count(acts, o)' = Count(acts, o)
    BY <1>3, <2>1 DEF Count
  <2>3. run'[o].status \in Quiet => Hushed(o)
    BY <1>2, <2>1 DEF Hushed
  <2>4. ASSUME NEW q \in Proc, At(q, "settle")', job'[q].verdict = "skipped_condition", Root(q)' = o
        PROVE  Skipping(o)
    <3>1. job'[q] = job[q]
      BY <2>4
    <3> QED BY <2>4, <3>1 DEF Skipping, At, Root
  <2>5. Hushed(o)
    BY <1>4, <2>3, <2>4 DEF Hushed, Skipping
  <2>6. Unacted(o)
    BY <1>4, <2>1, <2>5 DEF HInv
  <2>7. ASSUME NEW q \in Proc, At(q, "invoke")', Root(q)' = o
        PROVE  FALSE
    <3>1. job'[q] = job[q]
      BY <2>7 DEF At
    <3> QED BY <2>6, <2>7, <3>1 DEF Unacted, At, Root
  <2> QED BY <2>2, <2>6, <2>7 DEF Unacted
<1> QED BY <1>4 DEF HInv

\* What becomes of a skipped row is settled on the verdict that its claimer held.
LEMMA HushSettle ==
    ASSUME IInv, HInv, hurried \subseteq hurried', NEW p \in Proc, Settle(p)
    PROVE  HInv'
<1>1. job[p].at = "settle" /\ job[p] \in Jobs /\ JobFits(job[p])
  BY JobIs DEF Settle, At
<1>2. PICK j : j = Accounted(job[p])
  OBVIOUS
<1>3. Goes(p, j) /\ j.at \notin {"invoke", "settle"}
  BY <1>1, <1>2, AccountedAt DEF Settle
<1>4. job'[p] = j /\ \A q \in Proc \ {p} : job'[q] = job[q]
  BY <1>3 DEF Goes, IInv, TypeOK
<1>5. Claimed' = Claimed /\ \A o : Count(acts, o)' = Count(acts, o)
  BY DEF Settle, Claimed, Count
<1>6. ASSUME NEW o \in Claimed, Len(o[2]) = 1, o \notin hurried', Hushed(o)'
      PROVE  Unacted(o)'
  <2>1. run'[o].status \in Quiet => Hushed(o)
    <3>1. CASE o = Root(p) /\ Settles(run[o])
      <4>1. run'[o] = [run[o] EXCEPT !.status = job[p].verdict] /\ run[o] \in Row
        BY <3>1 DEF Settle, IInv, TypeOK
      <4>2. run'[o].status = job[p].verdict
        BY <4>1 DEF Row
      <4>3. run'[o].status \in Quiet => job[p].verdict = "skipped_condition"
        BY <1>1, <4>2 DEF Jobs, Quiet
      <4> QED BY <1>1, <3>1, <4>3 DEF Hushed, Skipping, At
    <3>2. CASE ~(o = Root(p) /\ Settles(run[o]))
      <4>1. run'[o] = run[o]
        BY <3>2 DEF Settle, Claimed
      <4> QED BY <4>1 DEF Hushed
    <3> QED BY <3>1, <3>2
  <2> QED BY <1>3, <1>4, <1>5, <1>6, <2>1, HushStays DEF Unacted
<1> QED BY <1>5, <1>6 DEF HInv

\* A retry of a row that is about to be skipped is in the history; of a quiet one there is none.
LEMMA HushRetry ==
    ASSUME IInv, HInv, WNext, NEW p \in Proc, NEW root \in Claimed, Retry(p, root)
    PROVE  HInv'
<1>1. job[p].at = "idle" /\ Stuck(root) /\ hurried \subseteq hurried'
  BY DEF Retry, At, WNext
<1>2. Len(root[2]) = 1 /\ Ending(root) \in Rule /\ root = <<root[1], <<Ending(root)>>>> /\ root[1] \in Source
  BY <1>1, StuckIs
<1> DEFINE j == [Idle EXCEPT !.at = IF Ending(root) \in Denied THEN "settle" ELSE "invoke",
                             !.kind = "retry", !.src = root[1], !.rule = Ending(root), !.verdict = "failed"]
<1>3. j.kind = "retry" /\ j.src = root[1] /\ j.rule = Ending(root) /\ j.verdict = "failed"
  BY DEF Idle
<1>4. Goes(p, j)
  BY DEF Retry
<1> HIDE DEF j
<1>5. job'[p] = j /\ \A q \in Proc \ {p} : job'[q] = job[q]
  BY <1>4 DEF Goes, IInv, TypeOK
<1>6. Root(p)' = root /\ job'[p].kind = "retry" /\ Retried(root)
  BY <1>1, <1>2, <1>3, <1>5 DEF Root, Retried, At
<1>7. run' = run /\ acts' = acts /\ Claimed' = Claimed /\ \A o : Count(acts, o)' = Count(acts, o)
  BY DEF Retry, Claimed, Count
<1>8. ASSUME NEW q \in Proc, At(q, "settle")', job'[q].verdict = "skipped_condition", Root(q)' = root
      PROVE  root \in hurried'
  <2>1. job'[q] = job[q]
    BY <1>3, <1>5, <1>8
  <2>2. Skipping(root)
    BY <1>8, <2>1 DEF Skipping, At, Root
  <2> QED BY <1>6, <2>2 DEF WNext
<1>9. \A o : o = root => ~Hushed(o)' \/ o \in hurried'
  BY <1>1, <1>7, <1>8 DEF Hushed, Skipping, Stuck, Quiet
<1>10. ASSUME NEW o \in Claimed, Len(o[2]) = 1, o \notin hurried', Hushed(o)'
       PROVE  Unacted(o)'
  <2>1. o # root
    BY <1>9, <1>10
  <2>2. run'[o].status \in Quiet => Hushed(o)
    BY <1>7 DEF Hushed
  <2>3. Unacted(o) => Count(acts, o)' = 0
    BY <1>7 DEF Unacted
  <2> QED BY <1>1, <1>5, <1>6, <1>10, <2>1, <2>2, <2>3, HushStays
<1> QED BY <1>7, <1>10 DEF HInv

\* Whoever invokes works on a row that is not quiet.
LEMMA HushInvoke ==
    ASSUME IInv, HInv, hurried \subseteq hurried', NEW p \in Proc, Invoke(p)
    PROVE  HInv'
<1>1. job[p].at = "invoke" /\ job[p] \in Jobs /\ JobFits(job[p])
  BY JobIs DEF Invoke, At
<1>2. PICK root \in Claimed : root = Root(p)
  BY <1>1 DEF JobFits, Root
<1>3. Len(root[2]) = 1
  BY <1>2 DEF Root
<1>4. PICK verdict \in Verdicts, judge \in Judges(root) :
          /\ MayAnswer(root, verdict)
          /\ run' = Effect(root, Base(p), verdict, judge).run
          /\ acts' = Effect(root, Base(p), verdict, judge).acts
          /\ Goes(p, Answered(job[p], Settled(verdict)))
  BY <1>2 DEF Invoke
<1>5. PICK s \in 1..2 : s = Base(p)
  BY DEF Base
<1>6. PICK e : e = Effect(root, s, verdict, judge)
  OBVIOUS
<1>7. run' = e.run /\ acts' = e.acts /\ happened' = happened
  BY <1>4, <1>5, <1>6 DEF Invoke
<1>8. Claimed \subseteq DOMAIN e.run /\ e.run[root] = run[root] /\ e.run = [o \in DOMAIN e.run |-> e.run[o]]
  BY <1>3, <1>6, EffectRun DEF IInv
<1>9. Commits(root, verdict, e)
  <2>1. run[root] \in Row
    BY DEF IInv, TypeOK
  <2> QED BY <1>7, <1>8, <2>1 DEF Commits
<1>10. PICK j : j = Answered(job[p], Settled(verdict))
  OBVIOUS
<1>11. j.at = "settle" /\ j.verdict = Settled(verdict) /\ Settled(verdict) # "skipped_condition"
  BY <1>1, <1>10 DEF Answered, Jobs, Settled, Verdicts
<1>12. job'[p] = j /\ \A q \in Proc \ {p} : job'[q] = job[q]
  BY <1>4, <1>10 DEF Goes, IInv, TypeOK
<1>13. ASSUME Hushed(root)', root \notin hurried'
       PROVE  FALSE
  <2>1. run'[root] = run[root]
    BY <1>7, <1>8
  <2>2. ASSUME NEW q \in Proc, At(q, "settle")', job'[q].verdict = "skipped_condition", Root(q)' = root
        PROVE  Skipping(root)
    <3>1. job'[q] = job[q]
      BY <1>11, <1>12, <2>2
    <3> QED BY <2>2, <3>1 DEF Skipping, At, Root
  <2>3. Hushed(root)
    BY <1>13, <2>1, <2>2 DEF Hushed, Skipping
  <2>4. Unacted(root)
    BY <1>3, <1>13, <2>3 DEF HInv
  <2> QED BY <1>1, <1>2, <2>4 DEF Unacted, At
<1>14. \A o : o = root => ~Hushed(o)' \/ o \in hurried'
  BY <1>13
<1>15. job'[p] = job[p] \/ (job'[p].at # "invoke" /\ job'[p].verdict # "skipped_condition")
  BY <1>11, <1>12
<1> QED BY <1>3, <1>4, <1>6, <1>9, <1>12, <1>14, <1>15, HushCommit

\* A retry in one commit leaves a row that is not quiet, or is in the history.
LEMMA HushRetryWhole ==
    ASSUME IInv, HInv, WNext, NEW p \in Proc, NEW root \in Claimed, RetryWhole(p, root)
    PROVE  HInv'
<1>1. Stuck(root) /\ hurried \subseteq hurried' /\ job' = job
  BY DEF RetryWhole, WNext
<1>2. Len(root[2]) = 1
  BY <1>1, StuckIs
<1>3. PICK verdict \in Verdicts, judge \in Judges(root) :
          /\ MayAnswer(root, verdict)
          /\ run' = [Effect(root, 2, verdict, judge).run EXCEPT ![root].status = Settled(verdict)]
          /\ acts' = Effect(root, 2, verdict, judge).acts
  BY DEF RetryWhole
<1>4. PICK s \in 1..2 : s = 2
  OBVIOUS
<1>5. PICK e : e = Effect(root, s, verdict, judge)
  OBVIOUS
<1>6. run' = [e.run EXCEPT ![root].status = Settled(verdict)] /\ acts' = e.acts /\ happened' = happened
  BY <1>3, <1>4, <1>5 DEF RetryWhole
<1>7. Claimed \subseteq DOMAIN e.run /\ e.run[root] = run[root] /\ e.run = [o \in DOMAIN e.run |-> e.run[o]]
  BY <1>2, <1>5, EffectRun DEF IInv
<1>8. Settled(verdict) \in {"ok", "failed"}
  BY DEF Settled, Verdicts
<1>9. /\ DOMAIN run' = DOMAIN e.run /\ run' = [o \in DOMAIN run' |-> run'[o]]
      /\ \A o \in DOMAIN run' \ {root} : run'[o] = e.run[o]
      /\ run'[root] = [run[root] EXCEPT !.status = Settled(verdict)]
  BY <1>6, <1>7
<1>10. run'[root] \in Row /\ run'[root].input = run[root].input /\ run'[root].status = Settled(verdict)
  <2>1. run[root] \in Row
    BY DEF IInv, TypeOK
  <2> QED BY <1>8, <1>9, <2>1 DEF Row, Statuses
<1>11. Commits(root, verdict, e)
  BY <1>6, <1>9, <1>10 DEF Commits
<1>12. Retried(root)
  BY <1>1, <1>8, <1>10 DEF Retried, Stuck
<1>13. ASSUME Hushed(root)'
       PROVE  root \in hurried'
  <2>1. Skipping(root)'
    BY <1>8, <1>10, <1>13 DEF Hushed, Quiet
  <2>2. Skipping(root)
    BY <1>1, <2>1 DEF Skipping, At, Root
  <2> QED BY <1>12, <2>2 DEF WNext
<1>14. \A o : o = root => ~Hushed(o)' \/ o \in hurried'
  BY <1>13
<1>15. job'[p] = job[p] /\ \A q \in Proc \ {p} : job'[q] = job[q]
  BY <1>1
<1> QED BY <1>1, <1>2, <1>3, <1>5, <1>11, <1>14, <1>15, HushCommit

\* Every step keeps it.
LEMMA HushStep ==
    ASSUME IInv, HInv, [WNext]_watched
    PROVE  HInv'
<1>1. CASE UNCHANGED <<job, run, acts>> /\ hurried \subseteq hurried'
  <2>1. Claimed' = Claimed /\ \A o : Count(acts, o)' = Count(acts, o)
    BY <1>1 DEF Claimed, Count
  <2>2. \A o : (Hushed(o)' => Hushed(o)) /\ (Unacted(o) => Unacted(o)')
    BY <1>1, <2>1 DEF Hushed, Skipping, Unacted, At, Root
  <2> QED BY <1>1, <2>1, <2>2 DEF HInv
<1>2. CASE UNCHANGED watched
  BY <1>1, <1>2 DEF watched, vars
<1>3. CASE WNext
  <2>1. hurried \subseteq hurried' /\ Next
    BY <1>3 DEF WNext
  <2>2. CASE Tomorrow \/ \E r \in Switched : Switch(r)
    BY <1>1, <2>1, <2>2 DEF Tomorrow, Switch
  <2>3. ASSUME NEW p \in Proc,
               \/ Works(p) \/ Abandon(p) \/ DieActing(p)
               \/ \E e \in Event : Call(p, e)
               \/ \E asOf \in Day : Tick(p, asOf)
               \/ \E o \in Claimed : Retry(p, o) \/ RetryWhole(p, o)
        PROVE  HInv'
    <3>1. Idle.at = "idle" /\ Idle \in Jobs
      BY DEF Idle, Jobs, Stages
    <3>2. CASE Abandon(p) \/ DieActing(p)
      BY <2>1, <3>1, <3>2, HushMove DEF Abandon, DieActing
    <3>3. ASSUME NEW e \in Event, Call(p, e)
          PROVE  HInv'
      <4>1. PICK j : j = [Idle EXCEPT !.at = "called", !.src = e]
        OBVIOUS
      <4>2. j.at = "called"
        BY <4>1 DEF Idle
      <4> QED BY <2>1, <3>3, <4>1, <4>2, HushMove DEF Call
    <3>4. ASSUME NEW asOf \in Day, Tick(p, asOf)
          PROVE  HInv'
      <4>1. PICK j : j = [Idle EXCEPT !.kind = "tick", !.src = asOf,
                                      !.todo = {r \in DOMAIN Every \cap enabled : Due(r, asOf)}]
        OBVIOUS
      <4>2. j \in Jobs
        BY <4>1, AutomationAssumptions DEF Idle, Jobs, Stages, Source
      <4>3. Goes(p, Rest(j)) /\ Rest(j).at \notin {"invoke", "settle"}
        BY <3>4, <4>1, <4>2, RestAt DEF Tick
      <4> QED BY <2>1, <3>4, <4>3, HushMove DEF Tick
    <3>5. CASE Dispatch(p)
      <4>1. job[p].at = "called" /\ job[p] \in Jobs /\ JobFits(job[p])
        BY <3>5, JobIs DEF Dispatch, At
      <4>2. PICK j : j = [job[p] EXCEPT !.todo = Listens[job[p].src] \cap enabled]
        OBVIOUS
      <4>3. enabled \subseteq Rule
        BY DEF IInv, TypeOK
      <4>4. j \in Jobs
        BY <4>1, <4>2, <4>3 DEF Jobs
      <4>5. Goes(p, Rest(j)) /\ Rest(j).at \notin {"invoke", "settle"}
        BY <3>5, <4>2, <4>4, RestAt DEF Dispatch
      <4> QED BY <2>1, <3>5, <4>5, HushMove DEF Dispatch
    <3>6. CASE Mark(p)
      <4>1. job[p] \in Jobs
        BY <3>6, JobIs DEF Mark, At
      <4>2. Goes(p, Rest(job[p])) /\ Rest(job[p]).at \notin {"invoke", "settle"}
        BY <3>6, <4>1, RestAt DEF Mark
      <4> QED BY <2>1, <3>6, <4>2, HushMove DEF Mark
    <3>7. CASE Evaluate(p) \/ Settle(p) \/ Invoke(p)
      BY <2>1, <3>7, HushClaim, HushSettle, HushInvoke
    <3>8. CASE \E o \in Claimed : Retry(p, o) \/ RetryWhole(p, o)
      BY <1>3, <3>8, HushRetry, HushRetryWhole
    <3> QED BY <2>3, <3>2, <3>3, <3>4, <3>5, <3>6, <3>7, <3>8 DEF Works
  <2> QED BY <2>1, <2>2, <2>3 DEF Next
<1> QED BY <1>2, <1>3

\* What is watched is Automation.
LEMMA WatchedInvariant == Watched => []IInv
<1>1. WInit => Init
  BY DEF WInit
<1>2. [WNext]_watched => [Next]_vars
  BY DEF WNext, watched
<1>3. Watched => Spec
  BY <1>1, <1>2, PTL DEF Watched, Spec
<1> QED BY <1>3, Invariant, PTL

\* The run log tells the truth: ok acted, quiet did not but for a bare verb that a retry called into the
\* gap before the settlement, and running means somebody works or somebody died.
\* (claimRun, evaluateAndFire, settleRun)
THEOREM LogTellsTruth == Watched => []RunLogTrue
<1>1. WInit => HInv
  BY DEF WInit, Init, HInv, Claimed
<1>2. IInv /\ HInv => RunLogTrue
  <2> SUFFICES ASSUME IInv, HInv, NEW o \in Claimed, run[o].status \in Quiet
               PROVE  Count(acts, o) = 0 \/ (o \in hurried /\ Ending(o) \in Bare)
    BY DEF RunLogTrue, QuietDidNothing, IInv, RowsFit
  <2>1. CASE Ending(o) \in Bare => Len(o[2]) > 1
    BY <2>1 DEF IInv, RowsFit, QuietEmpty, EmptySilent
  <2>2. CASE Ending(o) \in Bare /\ ~(Len(o[2]) > 1)
    <3>1. o \in Occurrence
      BY DEF IInv, TypeOK
    <3>2. o[2] \in Chains
      BY <3>1 DEF Occurrence
    <3>3. Len(o[2]) = 1
      <4>1. Len(o[2]) \in 1..(MaxDepth + 2) /\ MaxDepth \in Nat
        BY <3>2, ChainShape
      <4>2. PICK n \in 1..(MaxDepth + 2) : n = Len(o[2])
        BY <4>1
      <4>3. ~(n > 1)
        BY <2>2, <4>2
      <4>4. MaxDepth \in Nat
        BY ChainShape
      <4>5. n = 1
        BY <4>3, <4>4
      <4> QED BY <4>2, <4>5
    <3> QED BY <2>2, <3>3 DEF HInv, Hushed, Unacted
  <2> QED BY <2>1, <2>2
<1>3. IInv /\ HInv /\ [WNext]_watched => HInv'
  BY HushStep
<1> QED BY <1>1, <1>2, <1>3, WatchedInvariant, PTL DEF Watched

-----------------------------------------------------------------------------
(* The schedules, with the ticks that died or met each other *)

\* The days a rule fired on, as the log has them.
Sched(r, d) == <<d, <<r>>>>
\* One tick, alone, fired the rule for this day and has its bookmark to write.
InHand(r, d) == \E p \in Proc : /\ Fired(job[p], r) /\ job[p].src = d
                                /\ \A q \in Proc \ {p} : ~Holds(job[q], r)
\* The bookmark passed this day, and every tick that has the rule in hand is a cadence later.
Booked(r, d) == mark[r] >= d /\ \A q \in Proc : Holds(job[q], r) => job[q].src >= d + Every[r]

SInv ==
    /\ CadenceKept
    /\ \A p \in Proc, r \in DOMAIN Every : Fired(job[p], r) => r \notin job[p].todo
    /\ \A r \in DOMAIN Every : \A d \in Day : Sched(r, d) \in Claimed \ astray => InHand(r, d) \/ Booked(r, d)

\* Every rule of a schedule has a cadence of at least a day, and days are numbers.
LEMMA Cadences ==
    /\ \A r \in DOMAIN Every : Every[r] \in Nat \ {0} /\ r \in Rule
    /\ \A d \in Day : d \in Nat \ {0}
BY AutomationAssumptions DEF Day

\* What a step adds to the astray: the firings of a tick that died, and those of one that meets another.
LEMMA Strays ==
    ASSUME WNext
    PROVE  /\ astray \subseteq astray'
           /\ \A p \in Proc, r \in DOMAIN Every :
                  /\ Fired(job[p], r) /\ faults' # faults /\ job'[p] # job[p] => Sched(r, job[p].src) \in astray'
                  /\ \A q \in Proc \ {p} : Fired(job'[p], r) /\ Holds(job'[q], r) => Sched(r, job'[p].src) \in astray'
<1>1. astray' = astray \cup UNION {Dropped(p) \cup Shared(p) : p \in Proc}
  BY DEF WNext
<1>2. ASSUME NEW p \in Proc, NEW r \in DOMAIN Every, Fired(job[p], r), faults' # faults, job'[p] # job[p]
      PROVE  Sched(r, job[p].src) \in astray'
  <2>1. Sched(r, job[p].src) \in Dropped(p)
    BY <1>2 DEF Dropped, Firings, Sched
  <2> QED BY <1>1, <2>1
<1>3. ASSUME NEW p \in Proc, NEW r \in DOMAIN Every, NEW q \in Proc \ {p}, Fired(job'[p], r), Holds(job'[q], r)
      PROVE  Sched(r, job'[p].src) \in astray'
  <2>1. Sched(r, job'[p].src) \in Firings(job'[p])
    BY <1>3 DEF Firings, Sched
  <2>2. Ending(Sched(r, job'[p].src)) = r
    BY DEF Ending, Sched
  <2>3. Sched(r, job'[p].src) \in Shared(p)
    BY <1>3, <2>1, <2>2 DEF Shared
  <2> QED BY <1>1, <2>3
<1> QED BY <1>1, <1>2, <1>3

\* A step by which a process at most lets go of rules, or fires one without a claim.
LEMMA LetGo ==
    ASSUME IInv, SInv, WNext, mark' = mark, NEW p \in Proc, \A q \in Proc \ {p} : job'[q] = job[q],
           \A r \in DOMAIN Every : \A d \in Day : Sched(r, d) \in Claimed' <=> Sched(r, d) \in Claimed,
           \A r \in DOMAIN Every :
               /\ Holds(job'[p], r) => Holds(job[p], r) /\ job'[p].src = job[p].src
               /\ Fired(job[p], r) => \/ Fired(job'[p], r) /\ job'[p].src = job[p].src
                                      \/ faults' # faults /\ job'[p] # job[p]
               /\ Fired(job'[p], r) => r \notin job'[p].todo
    PROVE  SInv'
<1>1. astray \subseteq astray'
  BY Strays
<1>2. CadenceKept'
  BY <1>1 DEF SInv, CadenceKept, Sched
<1>3. \A q \in Proc, r \in DOMAIN Every : Fired(job'[q], r) => r \notin job'[q].todo
  BY DEF SInv
<1>4. ASSUME NEW r \in DOMAIN Every, NEW d \in Day, Sched(r, d) \in Claimed' \ astray'
      PROVE  InHand(r, d)' \/ Booked(r, d)'
  <2>1. Sched(r, d) \in Claimed \ astray
    BY <1>1, <1>4
  <2>2. CASE Booked(r, d)
    BY <2>2 DEF Booked
  <2>3. ASSUME NEW z \in Proc, Fired(job[z], r), job[z].src = d, \A q \in Proc \ {z} : ~Holds(job[q], r)
        PROVE  InHand(r, d)'
    <3>1. \A q \in Proc \ {z} : ~Holds(job'[q], r)
      BY <2>3
    <3>2. Fired(job'[z], r) /\ job'[z].src = d
      <4>1. CASE z # p
        BY <2>3, <4>1
      <4>2. CASE z = p
        BY <1>4, <2>3, <4>2, Strays
      <4> QED BY <4>1, <4>2
    <3> QED BY <3>1, <3>2 DEF InHand
  <2> QED BY <2>1, <2>2, <2>3 DEF SInv, InHand
<1> QED BY <1>2, <1>3, <1>4 DEF SInv

\* A tick claims a day for a rule: a cadence after every one that is booked, and alone or astray.
LEMMA DayClaimed ==
    ASSUME IInv, SInv, WNext, mark' = mark, NEW p \in Proc, \A q \in Proc \ {p} : job'[q] = job[q],
           NEW r \in DOMAIN Every, NEW day0 \in Day, job[p].src = day0, job'[p].src = day0,
           Holds(job[p], r), ~Fired(job[p], r), Fired(job'[p], r),
           Claimed' = Claimed \cup {Sched(r, day0)},
           \A t \in DOMAIN Every : /\ Holds(job'[p], t) => Holds(job[p], t)
                                   /\ ~Fired(job[p], t)
                                   /\ Fired(job'[p], t) => t \notin job'[p].todo
    PROVE  SInv'
<1>1. astray \subseteq astray'
  BY Strays
<1>2. \A q \in Proc, t \in DOMAIN Every : Fired(job'[q], t) => t \notin job'[q].todo
  BY DEF SInv
<1>3. \A d \in Day : Sched(r, d) \in Claimed \ astray => d + Every[r] <= day0 /\ Booked(r, d)
  <2> SUFFICES ASSUME NEW d \in Day, Sched(r, d) \in Claimed \ astray
               PROVE  d + Every[r] <= day0 /\ Booked(r, d)
    OBVIOUS
  <2>1. ~InHand(r, d)
    BY DEF InHand
  <2>2. Booked(r, d)
    BY <2>1 DEF SInv
  <2>3. d \in Nat /\ day0 \in Nat /\ Every[r] \in Nat
    BY Cadences
  <2> QED BY <2>2, <2>3 DEF Booked
<1>4. CadenceKept'
  <2> SUFFICES ASSUME NEW t \in DOMAIN Every, NEW a \in Day, NEW b \in Day, a < b,
                      Sched(t, a) \in Claimed' \ astray', Sched(t, b) \in Claimed' \ astray'
               PROVE  b - a >= Every[t]
    BY DEF CadenceKept, Sched
  <2>1. \A d \in Day : Sched(t, d) \in Claimed \/ (t = r /\ d = day0)
      \/ Sched(t, d) \notin Claimed'
    BY DEF Sched
  <2>2. a \in Nat /\ b \in Nat /\ Every[t] \in Nat /\ Every[r] \in Nat \ {0}
    BY Cadences
  <2>3. CASE Sched(t, a) \in Claimed /\ Sched(t, b) \in Claimed
    BY <1>1, <2>3 DEF SInv, CadenceKept, Sched
  <2>4. CASE t = r /\ b = day0 /\ Sched(t, a) \in Claimed
    BY <1>1, <1>3, <2>2, <2>4
  <2>5. CASE t = r /\ a = day0 /\ Sched(t, b) \in Claimed
    <3>1. b + Every[r] <= day0
      BY <1>1, <1>3, <2>5
    <3> QED BY <2>2, <2>5, <3>1
  <2> QED BY <2>1, <2>2, <2>3, <2>4, <2>5
<1>5. ASSUME NEW t \in DOMAIN Every, NEW d \in Day, Sched(t, d) \in Claimed' \ astray'
      PROVE  InHand(t, d)' \/ Booked(t, d)'
  <2>1. CASE t = r /\ d = day0
    <3>1. \A q \in Proc \ {p} : ~Holds(job'[q], r)
      BY <1>5, <2>1, Strays
    <3> QED BY <2>1, <3>1 DEF InHand
  <2>2. CASE ~(t = r /\ d = day0)
    <3>1. Sched(t, d) \in Claimed \ astray
      BY <1>1, <1>5, <2>2 DEF Sched
    <3>2. CASE Booked(t, d)
      BY <3>2 DEF Booked
    <3>3. ASSUME NEW z \in Proc, Fired(job[z], t), job[z].src = d, \A q \in Proc \ {z} : ~Holds(job[q], t)
          PROVE  InHand(t, d)'
      <4>1. z # p
        BY <3>3
      <4>2. \A q \in Proc \ {z} : ~Holds(job'[q], t)
        BY <3>3
      <4> QED BY <3>3, <4>1, <4>2 DEF InHand
    <3> QED BY <3>1, <3>2, <3>3 DEF SInv, InHand
  <2> QED BY <2>1, <2>2
<1> QED BY <1>2, <1>4, <1>5 DEF SInv

\* A tick takes the rules in hand that are due by their bookmarks.
LEMMA DueTaken ==
    ASSUME IInv, SInv, WNext, mark' = mark, NEW p \in Proc, \A q \in Proc \ {p} : job'[q] = job[q],
           Claimed' = Claimed, NEW asOf \in Day,
           \A r \in DOMAIN Every :
               /\ Holds(job'[p], r) => Due(r, asOf) /\ job'[p].src = asOf
               /\ ~Fired(job[p], r) /\ ~Fired(job'[p], r)
    PROVE  SInv'
<1>1. astray \subseteq astray'
  BY Strays
<1>2. CadenceKept'
  BY <1>1 DEF SInv, CadenceKept, Sched
<1>3. \A q \in Proc, r \in DOMAIN Every : Fired(job'[q], r) => r \notin job'[q].todo
  BY DEF SInv
<1>4. ASSUME NEW r \in DOMAIN Every, NEW d \in Day, Sched(r, d) \in Claimed' \ astray'
      PROVE  InHand(r, d)' \/ Booked(r, d)'
  <2>1. Sched(r, d) \in Claimed \ astray
    BY <1>1, <1>4
  <2>2. CASE Booked(r, d)
    <3>1. mark[r] \in Int /\ asOf \in Int /\ d \in Int /\ d > 0 /\ Every[r] \in Int
      BY Cadences DEF IInv, TypeOK
    <3>2. mark[r] >= d
      BY <2>2 DEF Booked
    <3>3. ASSUME NEW q \in Proc, Holds(job'[q], r)
          PROVE  job'[q].src >= d + Every[r]
      <4>1. CASE q = p
        <5>1. job'[p].src = asOf /\ asOf - mark[r] >= Every[r]
          BY <3>1, <3>2, <3>3, <4>1 DEF Due
        <5> QED BY <3>1, <3>2, <4>1, <5>1
      <4>2. CASE q # p
        BY <2>2, <3>3, <4>2 DEF Booked
      <4> QED BY <4>1, <4>2
    <3> QED BY <3>2, <3>3 DEF Booked
  <2>3. ASSUME NEW z \in Proc, Fired(job[z], r), job[z].src = d, \A q \in Proc \ {z} : ~Holds(job[q], r)
        PROVE  InHand(r, d)'
    <3>1. z # p /\ job'[z] = job[z]
      BY <2>3
    <3>2. ~Holds(job'[p], r)
      BY <1>4, <2>3, <3>1, Strays
    <3>3. \A q \in Proc \ {z} : ~Holds(job'[q], r)
      BY <2>3, <3>2
    <3> QED BY <2>3, <3>1, <3>3 DEF InHand
  <2> QED BY <2>1, <2>2, <2>3 DEF SInv, InHand
<1> QED BY <1>2, <1>3, <1>4 DEF SInv

\* A tick writes the bookmark of the rule it fired.
LEMMA BookmarkWritten ==
    ASSUME IInv, SInv, WNext, NEW p \in Proc, \A q \in Proc \ {p} : job'[q] = job[q], Claimed' = Claimed,
           NEW r \in DOMAIN Every, Fired(job[p], r), job[p].src \in Day, mark' = [mark EXCEPT ![r] = job[p].src],
           \A t \in DOMAIN Every :
               /\ Holds(job'[p], t) => t \in job[p].todo /\ Holds(job[p], t) /\ job'[p].src = job[p].src
               /\ ~Fired(job'[p], t)
               /\ Fired(job[p], t) => t = r
    PROVE  SInv'
<1>1. astray \subseteq astray'
  BY Strays
<1>2. CadenceKept'
  BY <1>1 DEF SInv, CadenceKept, Sched
<1>3. \A q \in Proc, t \in DOMAIN Every : Fired(job'[q], t) => t \notin job'[q].todo
  BY DEF SInv
<1>4. /\ mark'[r] = job[p].src
      /\ \A t \in DOMAIN Every : t # r => mark'[t] = mark[t]
  BY DEF IInv, TypeOK
<1>5. ASSUME NEW t \in DOMAIN Every, NEW d \in Day, Sched(t, d) \in Claimed' \ astray'
      PROVE  InHand(t, d)' \/ Booked(t, d)'
  <2>1. Sched(t, d) \in Claimed \ astray
    BY <1>1, <1>5
  <2>2. d \in Int /\ Every[t] \in Int /\ Every[t] > 0 /\ job[p].src \in Int
    BY Cadences
  <2>3. CASE Booked(t, d)
    <3>1. \A q \in Proc : Holds(job'[q], t) => job'[q].src >= d + Every[t]
      BY <2>3 DEF Booked
    <3>2. mark'[t] >= d
      <4>1. CASE t # r
        BY <1>4, <2>3, <4>1 DEF Booked
      <4>2. CASE t = r
        <5>1. Holds(job[p], r)
          BY DEF Holds, Fired
        <5>2. job[p].src >= d + Every[t]
          BY <2>3, <4>2, <5>1 DEF Booked
        <5> QED BY <1>4, <2>2, <4>2, <5>2
      <4> QED BY <4>1, <4>2
    <3> QED BY <3>1, <3>2 DEF Booked
  <2>4. ASSUME NEW z \in Proc, Fired(job[z], t), job[z].src = d, \A q \in Proc \ {z} : ~Holds(job[q], t)
        PROVE  InHand(t, d)' \/ Booked(t, d)'
    <3>1. CASE z # p
      <4>1. \A q \in Proc \ {z} : ~Holds(job'[q], t)
        BY <2>4
      <4> QED BY <2>4, <3>1, <4>1 DEF InHand
    <3>2. CASE z = p
      <4>1. t = r /\ mark'[t] >= d
        BY <1>4, <2>2, <2>4, <3>2
      <4>2. ~Holds(job'[p], t)
        BY <2>4, <3>2 DEF SInv
      <4>3. \A q \in Proc : ~Holds(job'[q], t)
        BY <2>4, <3>2, <4>2
      <4> QED BY <4>1, <4>3 DEF Booked
    <3> QED BY <3>1, <3>2
  <2> QED BY <2>1, <2>3, <2>4 DEF SInv, InHand
<1> QED BY <1>2, <1>3, <1>5 DEF SInv

\* No step but a tick's claim adds a scheduled row.
LEMMA NestedAside ==
    ASSUME IInv, NEW root \in Claimed, Len(root[2]) = 1, NEW s \in 1..2, NEW judge \in Judges(root),
           NEW verdict \in Verdicts, MayAnswer(root, verdict), NEW e, e = Effect(root, s, verdict, judge),
           Commits(root, verdict, e)
    PROVE  \A r \in DOMAIN Every : \A d \in Day : Sched(r, d) \in Claimed' <=> Sched(r, d) \in Claimed
<1>1. TypeOK /\ RowsFit
  BY DEF IInv
<1>2. Claimed \subseteq Claimed' /\ \A o \in Claimed' \ Claimed : Len(o[2]) > 1
  BY <1>1, CommitRows
<1>3. \A r, d : ~(Len(Sched(r, d)[2]) > 1)
  BY DEF Sched
<1> QED BY <1>2, <1>3

\* A step that moves no process.
LEMMA NoneMoves ==
    ASSUME SInv, job' = job, mark' = mark, astray \subseteq astray',
           \A r \in DOMAIN Every : \A d \in Day : Sched(r, d) \in Claimed' <=> Sched(r, d) \in Claimed
    PROVE  SInv'
<1>1. CadenceKept'
  BY DEF SInv, CadenceKept, Sched
<1>2. \A q \in Proc, r \in DOMAIN Every : Fired(job'[q], r) => r \notin job'[q].todo
  BY DEF SInv
<1>3. ASSUME NEW r \in DOMAIN Every, NEW d \in Day, Sched(r, d) \in Claimed' \ astray'
      PROVE  InHand(r, d)' \/ Booked(r, d)'
  BY <1>3 DEF SInv, InHand, Booked
<1> QED BY <1>1, <1>2, <1>3 DEF SInv

\* A process that works for a call, or retries, is no tick, and stays none.
LEMMA NoTick ==
    ASSUME IInv, SInv, WNext, mark' = mark, NEW p \in Proc, \A q \in Proc \ {p} : job'[q] = job[q],
           \A r \in DOMAIN Every : \A d \in Day : Sched(r, d) \in Claimed' <=> Sched(r, d) \in Claimed,
           job[p].kind # "tick" \/ job[p].at = "idle" \/ (faults' # faults /\ job'[p] # job[p]),
           job'[p].kind # "tick"
    PROVE  SInv'
<1>1. \A r : ~Holds(job'[p], r) /\ ~Fired(job'[p], r)
  BY DEF Holds, Fired
<1>2. \A r : Fired(job[p], r) => faults' # faults /\ job'[p] # job[p]
  BY DEF Fired
<1> QED BY <1>1, <1>2, LetGo

\* A tick that fired a rule works on: the same rule, for the same day.
LEMMA WorksOn ==
    ASSUME IInv, SInv, WNext, mark' = mark, NEW p \in Proc, \A q \in Proc \ {p} : job'[q] = job[q],
           \A r \in DOMAIN Every : \A d \in Day : Sched(r, d) \in Claimed' <=> Sched(r, d) \in Claimed,
           job[p].at \in {"invoke", "settle"}, job'[p].at \in {"settle", "mark"},
           job'[p].kind = job[p].kind, job'[p].src = job[p].src, job'[p].rule = job[p].rule,
           job'[p].todo = job[p].todo
    PROVE  SInv'
<1>1. \A r : (Fired(job'[p], r) <=> Fired(job[p], r)) /\ (Holds(job'[p], r) <=> Holds(job[p], r))
  BY DEF Holds, Fired
<1>2. \A r \in DOMAIN Every : Fired(job[p], r) => r \notin job[p].todo
  BY DEF SInv
<1> QED BY <1>1, <1>2, LetGo

\* A tick comes to a rule it has in hand.
LEMMA ScheduleEvaluate ==
    ASSUME IInv, SInv, WNext, NEW p \in Proc, Evaluate(p)
    PROVE  SInv'
<1>1. /\ job[p].at = "list" /\ job[p] \in Jobs /\ JobFits(job[p]) /\ job[p].todo # {} /\ job[p].kind # "retry"
      /\ job[p].kind = "tick" => job[p].src \in Day /\ job[p].todo \subseteq DOMAIN Every
      /\ mark' = mark
  BY JobIs DEF Evaluate, At, JobFits
<1>2. PICK r : r = First(job[p].todo)
  OBVIOUS
<1>3. r \in Rule /\ r \in job[p].todo
  BY <1>1, <1>2, FirstIn DEF Jobs
<1> DEFINE m == Evaluated(p, r)
<1>4. /\ m \in Jobs /\ m.src = job[p].src /\ m.rule = r /\ m.kind = job[p].kind /\ m.at = "list"
      /\ m.todo = job[p].todo \ {r}
  BY <1>1, <1>3 DEF Evaluated, Jobs
<1>5. PICK o : o = <<job[p].src, <<r>>>>
  OBVIOUS
<1> HIDE DEF m
<1>6. CASE run' = run /\ Goes(p, Accounted(m))
  <2>1. job'[p] = Accounted(m) /\ \A q \in Proc \ {p} : job'[q] = job[q]
    BY <1>6 DEF Goes, IInv, TypeOK
  <2>2. Claimed' = Claimed
    BY <1>6 DEF Claimed
  <2>3. CASE job[p].kind # "tick"
    <3>1. job'[p].kind # "tick"
      BY <1>4, <2>1, <2>3, AccountedAt
    <3> QED BY <1>1, <2>1, <2>2, <2>3, <3>1, NoTick
  <2>4. CASE job[p].kind = "tick"
    <3>1. /\ job'[p].at = "mark" /\ job'[p].kind = "tick" /\ job'[p].src = job[p].src
          /\ job'[p].rule = r /\ job'[p].todo = job[p].todo \ {r}
      BY <1>4, <2>1, <2>4, AccountedAt DEF Jobs
    <3>2. \A t \in DOMAIN Every : /\ Holds(job'[p], t) => Holds(job[p], t)
                                  /\ ~Fired(job[p], t)
                                  /\ Fired(job'[p], t) => t \notin job'[p].todo
      BY <1>1, <1>3, <2>4, <3>1 DEF Holds, Fired
    <3> QED BY <1>1, <2>1, <2>2, <3>1, <3>2, LetGo
  <2> QED BY <2>3, <2>4
<1>7. ASSUME NEW v \in {"ok", "failed", "skipped_condition"}, o \notin Claimed,
             run' = [x \in Claimed \cup {o} |-> IF x = o THEN Claim(v) ELSE run[x]],
             Goes(p, [m EXCEPT !.at = IF v = "ok" THEN "invoke" ELSE "settle", !.verdict = v])
      PROVE  SInv'
  <2> DEFINE k == [m EXCEPT !.at = IF v = "ok" THEN "invoke" ELSE "settle", !.verdict = v]
  <2>1. /\ k.at \in {"invoke", "settle"} /\ k.kind = job[p].kind
        /\ k.src = job[p].src /\ k.rule = r /\ k.todo = job[p].todo \ {r}
    BY <1>4 DEF Jobs
  <2> HIDE DEF k
  <2>2. job'[p] = k /\ \A q \in Proc \ {p} : job'[q] = job[q]
    BY <1>7 DEF Goes, IInv, TypeOK, k
  <2>3. Claimed' = Claimed \cup {o}
    BY <1>7 DEF Claimed
  <2>4. CASE job[p].kind # "tick"
    <3>1. job[p].src \in Event
      BY <1>1, <2>4 DEF JobFits, Jobs
    <3>2. \A t, d : d \in Day => Sched(t, d) # o
      BY <1>5, <3>1, AutomationAssumptions DEF Sched
    <3> QED BY <1>1, <2>1, <2>2, <2>3, <2>4, <3>2, NoTick
  <2>5. CASE job[p].kind = "tick"
    <3>1. r \in DOMAIN Every
      BY <1>1, <1>3, <2>5
    <3>2. \A t \in DOMAIN Every : /\ Holds(job'[p], t) => Holds(job[p], t)
                                  /\ ~Fired(job[p], t)
                                  /\ Fired(job'[p], t) => t \notin job'[p].todo
      BY <1>1, <1>3, <2>1, <2>2, <2>5 DEF Holds, Fired
    <3>3. Holds(job[p], r) /\ ~Fired(job[p], r) /\ Fired(job'[p], r)
      BY <1>1, <1>3, <2>1, <2>2, <2>5 DEF Holds, Fired
    <3>4. PICK d \in Day : d = job[p].src
      BY <1>1, <2>5
    <3>5. Claimed' = Claimed \cup {Sched(r, d)} /\ job[p].src = d /\ job'[p].src = d
      BY <1>5, <2>1, <2>2, <2>3, <3>4 DEF Sched
    <3> QED BY <1>1, <2>2, <3>1, <3>2, <3>3, <3>5, DayClaimed
  <2> QED BY <2>4, <2>5
<1> QED BY <1>2, <1>5, <1>6, <1>7 DEF Evaluate, Taken, m

\* Every step keeps it.
LEMMA ScheduleStep ==
    ASSUME IInv, SInv, [WNext]_watched
    PROVE  SInv'
<1>1. CASE UNCHANGED watched
  BY <1>1, NoneMoves DEF watched, vars, Claimed
<1>2. CASE WNext
  <2>1. Next /\ astray \subseteq astray'
    BY <1>2, Strays DEF WNext
  <2>2. CASE Tomorrow \/ \E r \in Switched : Switch(r)
    BY <2>1, <2>2, NoneMoves DEF Tomorrow, Switch, Claimed
  <2>3. ASSUME NEW p \in Proc,
               \/ Works(p) \/ Abandon(p) \/ DieActing(p)
               \/ \E e \in Event : Call(p, e)
               \/ \E asOf \in Day : Tick(p, asOf)
               \/ \E o \in Claimed : Retry(p, o) \/ RetryWhole(p, o)
        PROVE  SInv'
    <3>1. \A j : Goes(p, j) => job'[p] = j /\ \A q \in Proc \ {p} : job'[q] = job[q]
      BY DEF Goes, IInv, TypeOK
    <3>2. run' = run => Claimed' = Claimed
      BY DEF Claimed
    <3>3. CASE Abandon(p) \/ DieActing(p)
      <4>1. Goes(p, Idle) /\ Idle.kind = "event" /\ Idle.at = "idle"
        BY <3>3 DEF Abandon, DieActing, Idle
      <4>2. job[p].at # "idle" /\ faults' = faults + 1 /\ faults \in Nat /\ run' = run /\ mark' = mark
        BY <3>3 DEF Abandon, DieActing, At, IInv, TypeOK
      <4> QED BY <1>2, <3>1, <3>2, <4>1, <4>2, NoTick
    <3>4. ASSUME NEW e \in Event, Call(p, e)
          PROVE  SInv'
      <4>1. PICK j : j = [Idle EXCEPT !.at = "called", !.src = e]
        OBVIOUS
      <4>2. j.kind = "event" /\ Goes(p, j) /\ job[p].at = "idle" /\ run' = run /\ mark' = mark
        BY <3>4, <4>1 DEF Idle, Call, At
      <4> QED BY <1>2, <3>1, <3>2, <4>2, NoTick
    <3>5. ASSUME NEW asOf \in Day, Tick(p, asOf)
          PROVE  SInv'
      <4>1. PICK j : j = [Idle EXCEPT !.kind = "tick", !.src = asOf,
                                      !.todo = {r \in DOMAIN Every \cap enabled : Due(r, asOf)}]
        OBVIOUS
      <4>2. /\ j \in Jobs /\ j.kind = "tick" /\ j.src = asOf
            /\ j.todo = {r \in DOMAIN Every \cap enabled : Due(r, asOf)}
        BY <4>1, AutomationAssumptions DEF Idle, Jobs, Stages, Source
      <4>3. Goes(p, Rest(j)) /\ job[p].at = "idle" /\ run' = run /\ mark' = mark
        BY <3>5, <4>1 DEF Tick, At
      <4>4. \A r \in DOMAIN Every : /\ Holds(job'[p], r) => Due(r, asOf) /\ job'[p].src = asOf
                                    /\ ~Fired(job[p], r) /\ ~Fired(job'[p], r)
        BY <3>1, <4>2, <4>3, RestAt DEF Holds, Fired
      <4> QED BY <1>2, <3>1, <3>2, <4>3, <4>4, DueTaken
    <3>6. CASE Dispatch(p)
      <4>1. job[p].at = "called" /\ job[p] \in Jobs /\ job[p].kind = "event"
        BY <3>6, JobIs DEF Dispatch, At, JobFits
      <4>2. PICK j : j = [job[p] EXCEPT !.todo = Listens[job[p].src] \cap enabled]
        OBVIOUS
      <4>3. enabled \subseteq Rule
        BY DEF IInv, TypeOK
      <4>4. j \in Jobs /\ j.kind = "event"
        BY <4>1, <4>2, <4>3 DEF Jobs
      <4>5. Goes(p, Rest(j)) /\ Rest(j).kind = "event" /\ run' = run /\ mark' = mark
        BY <3>6, <4>2, <4>4, RestAt DEF Dispatch
      <4> QED BY <1>2, <3>1, <3>2, <4>1, <4>5, NoTick
    <3>7. CASE Mark(p)
      <4>1. /\ job[p].at = "mark" /\ job[p] \in Jobs /\ JobFits(job[p]) /\ job[p].kind = "tick"
            /\ job[p].src \in Day /\ job[p].todo \subseteq DOMAIN Every
        BY <3>7, JobIs DEF Mark, At, JobFits
      <4>2. PICK r \in DOMAIN Every : r = job[p].rule
        BY <4>1 DEF JobFits
      <4>3. /\ Goes(p, Rest(job[p])) /\ run' = run
            /\ mark' = [mark EXCEPT ![r] = job[p].src]
        BY <3>7, <4>2 DEF Mark, Bookmark
      <4>4. \A t \in DOMAIN Every :
               /\ Holds(job'[p], t) => t \in job[p].todo /\ Holds(job[p], t) /\ job'[p].src = job[p].src
               /\ ~Fired(job'[p], t)
               /\ Fired(job[p], t) => t = r
        BY <3>1, <4>1, <4>2, <4>3, RestAt DEF Holds, Fired
      <4>5. Fired(job[p], r)
        BY <4>1, <4>2 DEF Fired
      <4> QED BY <1>2, <3>1, <3>2, <4>1, <4>3, <4>4, <4>5, BookmarkWritten
    <3>8. CASE Settle(p)
      <4>1. job[p].at = "settle" /\ job[p] \in Jobs
        BY <3>8, JobIs DEF Settle, At
      <4>2. Goes(p, Accounted(job[p])) /\ mark' = mark /\ Claimed' = Claimed
        BY <3>8 DEF Settle, Claimed
      <4>3. CASE job[p].kind = "tick"
        <5>1. PICK j : j = Accounted(job[p])
          OBVIOUS
        <5>2. /\ j.at = "mark" /\ j.kind = job[p].kind /\ j.src = job[p].src /\ j.rule = job[p].rule
              /\ j.todo = job[p].todo
          BY <4>1, <4>3, <5>1, AccountedAt DEF Jobs
        <5> QED BY <1>2, <3>1, <4>1, <4>2, <5>1, <5>2, WorksOn
      <4>4. CASE job[p].kind # "tick"
        BY <1>2, <3>1, <4>1, <4>2, <4>4, AccountedAt, NoTick
      <4> QED BY <4>3, <4>4
    <3>9. CASE Invoke(p)
      <4>1. job[p].at = "invoke" /\ job[p] \in Jobs /\ JobFits(job[p])
        BY <3>9, JobIs DEF Invoke, At
      <4>2. PICK root \in Claimed : root = Root(p)
        BY <4>1 DEF JobFits, Root
      <4>3. PICK verdict \in Verdicts, judge \in Judges(root) :
                /\ MayAnswer(root, verdict)
                /\ run' = Effect(root, Base(p), verdict, judge).run
                /\ acts' = Effect(root, Base(p), verdict, judge).acts
                /\ Goes(p, Answered(job[p], Settled(verdict)))
        BY <3>9, <4>2 DEF Invoke
      <4>4. PICK s \in 1..2 : s = Base(p)
        BY DEF Base
      <4>5. PICK e : e = Effect(root, s, verdict, judge)
        OBVIOUS
      <4>6. run' = e.run /\ acts' = e.acts /\ happened' = happened /\ mark' = mark /\ Len(root[2]) = 1
        BY <3>9, <4>2, <4>3, <4>4, <4>5 DEF Invoke, Root
      <4>7. Claimed \subseteq DOMAIN e.run /\ e.run[root] = run[root] /\ e.run = [o \in DOMAIN e.run |-> e.run[o]]
        BY <4>5, <4>6, EffectRun DEF IInv
      <4>8. run[root] \in Row
        BY DEF IInv, TypeOK
      <4>9. Commits(root, verdict, e)
        BY <4>6, <4>7, <4>8 DEF Commits
      <4>10. \A r \in DOMAIN Every : \A d \in Day : Sched(r, d) \in Claimed' <=> Sched(r, d) \in Claimed
        BY <4>3, <4>5, <4>6, <4>9, NestedAside
      <4>11. PICK j : j = Answered(job[p], Settled(verdict))
        OBVIOUS
      <4>12. /\ j.at = "settle" /\ j.kind = job[p].kind /\ j.src = job[p].src /\ j.rule = job[p].rule
             /\ j.todo = job[p].todo
        BY <4>1, <4>11 DEF Answered, Jobs
      <4> QED BY <1>2, <3>1, <4>1, <4>3, <4>6, <4>10, <4>11, <4>12, WorksOn
    <3>10. ASSUME NEW root \in Claimed, Retry(p, root)
           PROVE  SInv'
      <4>1. PICK j : j = [Idle EXCEPT !.at = IF Ending(root) \in Denied THEN "settle" ELSE "invoke",
                             !.kind = "retry", !.src = root[1], !.rule = Ending(root), !.verdict = "failed"]
        OBVIOUS
      <4>2. j.kind = "retry" /\ Goes(p, j) /\ job[p].at = "idle" /\ run' = run /\ mark' = mark
        BY <3>10, <4>1 DEF Idle, Retry, At
      <4> QED BY <1>2, <3>1, <3>2, <4>2, NoTick
    <3>11. ASSUME NEW root \in Claimed, RetryWhole(p, root)
           PROVE  SInv'
      <4>1. Stuck(root) /\ job' = job /\ mark' = mark /\ happened' = happened /\ Len(root[2]) = 1
        BY <3>11, StuckIs DEF RetryWhole
      <4>2. PICK verdict \in Verdicts, judge \in Judges(root) :
                /\ MayAnswer(root, verdict)
                /\ run' = [Effect(root, 2, verdict, judge).run EXCEPT ![root].status = Settled(verdict)]
                /\ acts' = Effect(root, 2, verdict, judge).acts
        BY <3>11 DEF RetryWhole
      <4>3. PICK s \in 1..2 : s = 2
        OBVIOUS
      <4>4. PICK e : e = Effect(root, s, verdict, judge)
        OBVIOUS
      <4>5. run' = [e.run EXCEPT ![root].status = Settled(verdict)] /\ acts' = e.acts
        BY <4>2, <4>3, <4>4
      <4>6. Claimed \subseteq DOMAIN e.run /\ e.run[root] = run[root] /\ e.run = [o \in DOMAIN e.run |-> e.run[o]]
        BY <4>1, <4>4, EffectRun DEF IInv
      <4>7. /\ DOMAIN run' = DOMAIN e.run /\ run' = [o \in DOMAIN run' |-> run'[o]]
            /\ \A o \in DOMAIN run' \ {root} : run'[o] = e.run[o]
            /\ run'[root] = [run[root] EXCEPT !.status = Settled(verdict)]
        BY <4>5, <4>6
      <4>8. run'[root] \in Row /\ run'[root].input = run[root].input /\ run'[root].status = Settled(verdict)
        <5>1. run[root] \in Row
          BY DEF IInv, TypeOK
        <5>2. Settled(verdict) \in {"ok", "failed"}
          BY DEF Settled, Verdicts
        <5> QED BY <4>7, <5>1, <5>2 DEF Row, Statuses
      <4>9. Commits(root, verdict, e)
        BY <4>1, <4>5, <4>7, <4>8 DEF Commits
      <4>10. \A r \in DOMAIN Every : \A d \in Day : Sched(r, d) \in Claimed' <=> Sched(r, d) \in Claimed
        BY <4>1, <4>2, <4>4, <4>9, NestedAside
      <4> QED BY <2>1, <4>1, <4>10, NoneMoves
    <3> QED BY <1>2, <2>3, <3>3, <3>4, <3>5, <3>6, <3>7, <3>8, <3>9, <3>10, <3>11, ScheduleEvaluate DEF Works
  <2> QED BY <2>1, <2>2, <2>3 DEF Next
<1> QED BY <1>1, <1>2

\* A schedule reminds once a cadence whatever days its ticks name and in whatever order, but for the
\* firings of a tick that died before its bookmark or met another tick; and the bookmark stands on a firing
\* that the log has.  (runDueAutomations)
THEOREM SchedulesAreKept == Watched => []SchedulesKept
<1>1. WInit => SInv
  <2> SUFFICES ASSUME WInit
               PROVE  SInv
    OBVIOUS
  <2>1. Claimed = {} /\ \A p \in Proc : job[p] = Idle
    BY DEF WInit, Init, Claimed
  <2>2. Idle.at = "idle"
    BY DEF Idle
  <2> QED BY <2>1, <2>2 DEF SInv, CadenceKept, Fired
<1>2. IInv /\ SInv => SchedulesKept
  BY DEF IInv, SInv, SchedulesKept
<1>3. IInv /\ SInv /\ [WNext]_watched => SInv'
  BY ScheduleStep
<1> QED BY <1>1, <1>2, <1>3, WatchedInvariant, PTL DEF Watched

=============================================================================
