--------------------------- MODULE WireBondProofs ---------------------------
(***************************************************************************)
(* Proofs about ST-03: the inductive invariant of WireBond, and with it    *)
(* that no record vanishes below a committed position, that a replay       *)
(* cannot loop, and that `consumed` counts each bond of a process once,    *)
(* for every number of partitions, bonders and records.                    *)
(***************************************************************************)
EXTENDS WireBond, TLAPS, FiniteSetTheorems, WellFoundedInduction

(***************************************************************************)
(* Sets and sequences.                                                     *)
(***************************************************************************)

\* A finite, nonempty set of naturals has a greatest element: Max finds one.
LEMMA FiniteMax ==
  ASSUME NEW S \in SUBSET Nat, IsFiniteSet(S), S # {}
  PROVE  Max(S) \in S
<1>. DEFINE Top(U) == \E x \in U : \A y \in U : x >= y
            Bad == {n \in Nat : \E U \in SUBSET Nat :
                      IsFiniteSet(U) /\ U # {} /\ Cardinality(U) = n /\ ~Top(U)}
<1>1. Bad = {}
  <2>. SUFFICES ASSUME Bad # {} PROVE FALSE
    OBVIOUS
  <2>1. \E n \in Bad : \A m \in Bad : ~(<<m, n>> \in OpToRel(<, Nat))
    <3>. Bad \subseteq Nat
      OBVIOUS
    <3>. HIDE DEF Bad
    <3>. QED  BY NatLessThanWellFounded, WFMin
  <2>2. PICK n \in Bad : \A m \in Bad : ~(m < n)
    <3>. Bad \subseteq Nat
      OBVIOUS
    <3>. HIDE DEF Bad
    <3>. QED  BY <2>1 DEF OpToRel
  <2>3. PICK U \in SUBSET Nat : IsFiniteSet(U) /\ U # {} /\ Cardinality(U) = n /\ ~Top(U)
    OBVIOUS
  <2>4. PICK x \in U : TRUE
    BY <2>3
  <2>. DEFINE V == U \ {x}
  <2>5. IsFiniteSet(V) /\ Cardinality(V) = n - 1 /\ n - 1 \in Nat
    <3>1. IsFiniteSet(V) /\ Cardinality(V) = Cardinality(U) - 1
      BY <2>3, <2>4, FS_RemoveElement
    <3>2. Cardinality(V) \in Nat
      BY <3>1, FS_CardinalityType
    <3>. QED  BY <3>1, <3>2, <2>3
  <2>6. V # {}
    <3>. SUFFICES ASSUME V = {} PROVE FALSE
      OBVIOUS
    <3>1. \A y \in U : x >= y
      BY <2>4
    <3>. QED  BY <3>1, <2>3, <2>4
  <2>7. Top(V)
    <3>. SUFFICES ASSUME ~Top(V) PROVE FALSE
      OBVIOUS
    <3>1. V \in SUBSET Nat
      OBVIOUS
    <3>2. n - 1 \in Bad
      <4>. HIDE DEF V, Top
      <4>. QED  BY <3>1, <2>5, <2>6
    <3>3. n \in Nat /\ n - 1 < n
      BY <2>5
    <3>. QED  BY <3>2, <3>3, <2>2
  <2>8. PICK z \in V : \A y \in V : z >= y
    BY <2>7
  <2>9. CASE z >= x
    <3>1. \A y \in U : z >= y
      BY <2>8, <2>9
    <3>. QED  BY <3>1, <2>3, <2>8
  <2>10. CASE ~(z >= x)
    <3>1. \A y \in U : x >= y
      BY <2>8, <2>10, <2>4
    <3>. QED  BY <3>1, <2>3, <2>4
  <2>. QED  BY <2>9, <2>10
<1>2. Top(S)
  <2>1. Cardinality(S) \in Nat
    BY FS_CardinalityType
  <2>2. ~Top(S) => Cardinality(S) \in Bad
    <3>. HIDE DEF Top
    <3>. QED  BY <2>1
  <2>. QED  BY <1>1, <2>2
<1>. QED  BY <1>2 DEF Max

\* SetToSeq lists exactly the elements of a finite set.
LEMMA SetToSeqWhole ==
  ASSUME NEW S, IsFiniteSet(S)
  PROVE  SetToSeq(S) \in Seq(S) /\ ToSet(SetToSeq(S)) = S
<1>. DEFINE n == Cardinality(S)
            f == SetToSeq(S)
<1>1. n \in Nat /\ ExistsBijection(1 .. n, S)
  BY FS_CardinalityType
<1>2. \E g \in [1 .. n -> S] : IsInjective(g)
  BY <1>1 DEF ExistsBijection, Bijection, Injection
<1>3. f \in [1 .. n -> S] /\ IsInjective(f)
  BY <1>2 DEF SetToSeq
<1>4. f \in Injection(1 .. n, S)
  BY <1>3 DEF Injection
<1>5. Cardinality(1 .. n) = n
  BY <1>1, FS_Interval
<1>6. f \in Surjection(1 .. n, S)
  <2>. HIDE DEF f, n
  <2>. QED  BY <1>4, <1>5, FS_Injection DEF n
<1>7. \A x \in S : \E i \in 1 .. n : f[i] = x
  BY <1>6 DEF Surjection
<1>8. DOMAIN f = 1 .. n /\ \A i \in 1 .. n : f[i] \in S
  <2>. HIDE DEF f, n
  <2>. QED  BY <1>3
<1>9. f \in Seq(S)
  <2>. HIDE DEF f, n
  <2>. QED  BY <1>3, <1>1
<1>10. ToSet(f) = S
  <2>. HIDE DEF f, n
  <2>. QED  BY <1>7, <1>8 DEF ToSet
<1>. QED  BY <1>9, <1>10

\* What a list of windows holds: of none, of two lists, of a set as a list.
LEMMA ContentsNone == Contents(<<>>) = {}
BY DEF Contents, ToSet

\* The records in two queues of windows.
LEMMA ContentsConcat ==
  ASSUME NEW s \in Seq(Closed), NEW t \in Seq(Closed)
  PROVE  Contents(s \o t) = Contents(s) \cup Contents(t)
<1>. DEFINE u == s \o t
<1>1. /\ Len(s) \in Nat /\ Len(t) \in Nat /\ u \in Seq(Closed)
      /\ DOMAIN s = 1 .. Len(s) /\ DOMAIN t = 1 .. Len(t) /\ DOMAIN u = 1 .. Len(s) + Len(t)
  OBVIOUS
<1>2. \A i \in 1 .. Len(s) : u[i] = s[i] /\ i \in 1 .. Len(s) + Len(t)
  OBVIOUS
<1>3. \A i \in 1 .. Len(t) : u[Len(s) + i] = t[i] /\ Len(s) + i \in 1 .. Len(s) + Len(t)
  OBVIOUS
<1>4. \A i \in 1 .. Len(s) + Len(t) :
        i \in 1 .. Len(s) \/ (i - Len(s) \in 1 .. Len(t) /\ u[i] = t[i - Len(s)])
  OBVIOUS
<1>. HIDE DEF u
<1>5. ToSet(u) = ToSet(s) \cup ToSet(t)
  <2>1. \A x \in ToSet(u) : x \in ToSet(s) \cup ToSet(t)
    BY <1>1, <1>2, <1>4 DEF ToSet
  <2>2. \A x \in ToSet(s) : x \in ToSet(u)
    BY <1>1, <1>2 DEF ToSet
  <2>3. \A x \in ToSet(t) : x \in ToSet(u)
    BY <1>1, <1>3 DEF ToSet
  <2>. QED  BY <2>1, <2>2, <2>3
<1>6. Contents(u) = Contents(s) \cup Contents(t)
  BY <1>5 DEF Contents
<1>. QED  BY <1>6 DEF u

\* The records in a queue made of a set of windows.
LEMMA ContentsOfSet ==
  ASSUME NEW S \in SUBSET Closed, IsFiniteSet(S)
  PROVE  SetToSeq(S) \in Seq(Closed) /\ Contents(SetToSeq(S)) = UNION {w.records : w \in S}
<1>1. SetToSeq(S) \in Seq(S) /\ ToSet(SetToSeq(S)) = S
  BY SetToSeqWhole
<1>2. SetToSeq(S) \in Seq(Closed)
  BY <1>1
<1>. QED  BY <1>1, <1>2 DEF Contents

(***************************************************************************)
(* Windows: what closing them and taking a record in does to the State.    *)
(***************************************************************************)

InWindows(s) == UNION {s.window[b].records : b \in Bonders}
Kept(s) == Contents(s.pending) \cup InWindows(s)

\* An open window is on its bonder's partition.
Keyed(s) ==
  \A b \in Bonders : IsOpen(s, b) =>
    /\ s.window[b].partition \in Partitions
    /\ \A r \in Records : log[r] = b => r[1] = s.window[b].partition

\* The list of windows a Close queues, and what they hold.
LEMMA ClosedWindows ==
  ASSUME NEW s \in States, NEW bs \in SUBSET Bonders
  PROVE  LET S == {[bonder |-> b, records |-> s.window[b].records] : b \in bs} IN
           /\ SetToSeq(S) \in Seq(Closed)
           /\ Contents(SetToSeq(S)) = UNION {s.window[b].records : b \in bs}
<1>. DEFINE S == {[bonder |-> b, records |-> s.window[b].records] : b \in bs}
            f == [b \in bs |-> [bonder |-> b, records |-> s.window[b].records]]
<1>1. \A b \in Bonders : s.window[b].records \in SUBSET Records
  BY DEF States, Windows
<1>2. S \in SUBSET Closed
  BY <1>1 DEF Closed
<1>3. IsFiniteSet(bs)
  BY SettingsAssumption, FS_Subset
<1>4. f \in Surjection(bs, S)
  BY DEF Surjection
<1>5. IsFiniteSet(S)
  <2>. HIDE DEF f, S
  <2>. QED  BY <1>3, <1>4, FS_Surjection
<1>6. UNION {w.records : w \in S} = UNION {s.window[b].records : b \in bs}
  <2>1. \A w \in S : \E b \in bs : w.records = s.window[b].records
    OBVIOUS
  <2>2. \A b \in bs : \E w \in S : w.records = s.window[b].records
    <3>. TAKE b \in bs
    <3>1. [bonder |-> b, records |-> s.window[b].records] \in S
      OBVIOUS
    <3>. QED  BY <3>1
  <2>. HIDE DEF S
  <2>. QED  BY <2>1, <2>2
<1>. QED  BY <1>2, <1>5, <1>6, ContentsOfSet

Signs == {"healthy", "off", "nsop"}

\* Windows that can close, with the partition a replay would need; an alarm
\* needs a trailing mean.
CanClose(s, bs, verdict) ==
  \A b \in bs : s.window[b].partition \in Partitions /\ (verdict[b] = "nsop" => b \in s.known)

\* c is s with the windows of bs closed: their records are in the queue, and
\* only a first alarm of a bonder asked for a replay.
IsClosed(c, s, bs, end) ==
  /\ c \in States
  /\ c.window = [b \in Bonders |-> IF b \in bs THEN NoWindow ELSE s.window[b]]
  /\ c.highWater = s.highWater /\ c.consumed = s.consumed /\ Kept(c) = Kept(s)
  /\ s.known \subseteq c.known
  /\ \/ c.replayed = s.replayed /\ c.seek = s.seek
     \/ \E b \in bs :
          /\ b \notin s.replayed /\ b \in s.known /\ b \in c.replayed
          /\ s.replayed \subseteq c.replayed /\ c.replayed \subseteq s.replayed \cup s.known
          /\ c.seek = [bonder |-> b, partition |-> s.window[b].partition,
                       from |-> end[b] - ReplayMs]

\* close_window does what IsClosed says.
LEMMA CloseEffect ==
  ASSUME NEW s \in States, NEW bs \in SUBSET Bonders, NEW end \in [bs -> Int],
         NEW verdict \in [bs -> Signs], CanClose(s, bs, verdict)
  PROVE  IsClosed(Close(s, bs, end, verdict), s, bs, end)
<1>. USE SettingsAssumption DEF CanClose
<1>. DEFINE alarms == {b \in bs : verdict[b] = "nsop" /\ b \notin s.replayed}
            last == Max(alarms)
            S == {[bonder |-> b, records |-> s.window[b].records] : b \in bs}
            win == [b \in Bonders |-> IF b \in bs THEN NoWindow ELSE s.window[b]]
            sk == IF alarms = {} THEN s.seek
                  ELSE [bonder |-> last, partition |-> s.window[last].partition,
                        from |-> end[last] - ReplayMs]
            new == s.known \cup {b \in bs : verdict[b] = "healthy"}
            c == Close(s, bs, end, verdict)
<1>1. /\ s.window \in [Bonders -> Windows] /\ s.known \in SUBSET Bonders
      /\ s.replayed \in SUBSET Bonders /\ s.highWater \in [Partitions -> -1 .. LogLen - 1]
      /\ s.pending \in Seq(Closed) /\ s.consumed \in Nat /\ s.seek \in Seeks
  BY DEF States
<1>2. /\ c.window = win /\ c.pending = s.pending \o SetToSeq(S) /\ c.known = new
      /\ c.replayed = s.replayed \cup alarms /\ c.seek = sk
      /\ c.highWater = s.highWater /\ c.consumed = s.consumed
  BY <1>1 DEF Close, States
<1>3. c = [window |-> win, known |-> new, replayed |-> s.replayed \cup alarms,
           highWater |-> s.highWater, pending |-> s.pending \o SetToSeq(S),
           consumed |-> s.consumed, seek |-> sk]
  <2>1. s = [window |-> s.window, known |-> s.known, replayed |-> s.replayed,
             highWater |-> s.highWater, pending |-> s.pending, consumed |-> s.consumed,
             seek |-> s.seek]
    BY DEF States
  <2>2. c = [s EXCEPT !.window = win, !.pending = s.pending \o SetToSeq(S), !.known = new,
                      !.replayed = s.replayed \cup alarms, !.seek = sk]
    BY DEF Close
  <2>. HIDE DEF alarms, last, win, sk, new, S, c
  <2>. QED  BY <2>1, <2>2
<1>4. alarms # {} => last \in alarms
  <2>. SUFFICES ASSUME alarms # {} PROVE last \in alarms
    OBVIOUS
  <2>1. alarms \in SUBSET Nat /\ alarms \in SUBSET Bonders
    OBVIOUS
  <2>2. IsFiniteSet(alarms)
    <3>. HIDE DEF alarms
    <3>. QED  BY <2>1, FS_Subset
  <2>. HIDE DEF alarms
  <2>. QED  BY <2>1, <2>2, FiniteMax
<1>5. SetToSeq(S) \in Seq(Closed) /\ Contents(SetToSeq(S)) = UNION {s.window[b].records : b \in bs}
  BY ClosedWindows
<1>6. win \in [Bonders -> Windows]
  BY <1>1 DEF NoWindow, Windows
<1>7. sk \in Seeks
  <2>1. CASE alarms = {}
    BY <2>1, <1>1
  <2>2. CASE alarms # {}
    <3>1. last \in bs /\ last \in Bonders /\ s.window[last].partition \in Partitions
      BY <2>2, <1>4
    <3>2. end[last] - ReplayMs \in Int
      <4>. HIDE DEF last
      <4>. QED  BY <3>1
    <3>. HIDE DEF last, alarms
    <3>. QED  BY <2>2, <3>1, <3>2 DEF Seeks
  <2>. QED  BY <2>1, <2>2
<1>8. s.pending \o SetToSeq(S) \in Seq(Closed)
  <2>. HIDE DEF S
  <2>. QED  BY <1>1, <1>5
<1>9. c \in States
  <2>1. new \in SUBSET Bonders /\ s.replayed \cup alarms \in SUBSET Bonders
    BY <1>1
  <2>. HIDE DEF new, alarms, win, sk, S, c
  <2>. QED  BY <1>1, <1>3, <1>6, <1>7, <1>8, <2>1 DEF States
<1>10. Kept(c) = Kept(s)
  <2>1. Contents(c.pending) = Contents(s.pending) \cup UNION {s.window[b].records : b \in bs}
    <3>. HIDE DEF S, c
    <3>. QED  BY <1>1, <1>2, <1>5, ContentsConcat
  <2>2. \A b \in Bonders : c.window[b].records = IF b \in bs THEN {} ELSE s.window[b].records
    <3>. HIDE DEF c
    <3>. QED  BY <1>2 DEF NoWindow
  <2>. DEFINE shut == UNION {s.window[b].records : b \in bs}
  <2>3. shut \cup InWindows(c) = InWindows(s)
    <3>1. \A r : r \in InWindows(c) <=> \E b \in Bonders : b \notin bs /\ r \in s.window[b].records
      <4>. HIDE DEF c
      <4>. QED  BY <2>2 DEF InWindows
    <3>2. \A r : r \in InWindows(s) <=> \E b \in Bonders : r \in s.window[b].records
      BY DEF InWindows
    <3>3. \A r : r \in shut <=> \E b \in bs : r \in s.window[b].records
      OBVIOUS
    <3>4. \A r : r \in shut \/ r \in InWindows(c) <=> r \in InWindows(s)
      <4>. HIDE DEF c, shut
      <4>. QED  BY <3>1, <3>2, <3>3
    <3>. HIDE DEF c, shut
    <3>. QED  BY <3>4
  <2>. DEFINE old == Contents(s.pending)
  <2>4. Contents(c.pending) = old \cup shut /\ shut \cup InWindows(c) = InWindows(s)
    BY <2>1, <2>3
  <2>. HIDE DEF c, old, shut
  <2>. QED  BY <2>4 DEF Kept, old
<1>11. \/ c.replayed = s.replayed /\ c.seek = s.seek
       \/ \E b \in bs :
            /\ b \notin s.replayed /\ b \in s.known /\ b \in c.replayed
            /\ s.replayed \subseteq c.replayed /\ c.replayed \subseteq s.replayed \cup s.known
            /\ c.seek = [bonder |-> b, partition |-> s.window[b].partition,
                         from |-> end[b] - ReplayMs]
  <2>1. CASE alarms = {}
    <3>. HIDE DEF c, alarms
    <3>. QED  BY <2>1, <1>2
  <2>2. CASE alarms # {}
    <3>1. last \in bs /\ last \notin s.replayed /\ last \in s.known
      BY <2>2, <1>4
    <3>2. alarms \subseteq s.known /\ last \in alarms
      BY <2>2, <1>4
    <3>3. c.seek = [bonder |-> last, partition |-> s.window[last].partition,
                    from |-> end[last] - ReplayMs]
      <4>. HIDE DEF c, alarms, last
      <4>. QED  BY <2>2, <1>2
    <3>. HIDE DEF c, alarms, last
    <3>. QED  BY <1>2, <3>1, <3>2, <3>3
  <2>. QED  BY <2>1, <2>2
<1>. HIDE DEF c
<1>12. s.known \subseteq c.known
  BY <1>2
<1>13. c.window = win
  BY <1>2
<1>. QED  BY <1>2, <1>9, <1>10, <1>11, <1>12, <1>13 DEF c, IsClosed

\* Count moves the mark and the metric, and nothing else.
LEMMA CountEffect ==
  ASSUME NEW s \in States, NEW p \in Partitions, NEW o \in Offsets
  PROVE  LET c == Count(s, p, o) IN
           /\ c \in States
           /\ c.window = s.window /\ c.known = s.known /\ c.replayed = s.replayed
           /\ c.pending = s.pending /\ c.seek = s.seek
           /\ c.highWater = [s.highWater EXCEPT ![p] = IF o <= @ THEN @ ELSE o]
           /\ c.consumed = s.consumed + (IF o <= s.highWater[p] THEN 0 ELSE 1)
<1>. DEFINE c == Count(s, p, o)
<1>1. /\ s.highWater \in [Partitions -> -1 .. LogLen - 1] /\ s.consumed \in Nat
      /\ o \in -1 .. LogLen - 1
  BY SettingsAssumption DEF States, Offsets
<1>2. CASE o <= s.highWater[p]
  <2>1. c = s
    BY <1>2 DEF Count
  <2>2. s.highWater = [s.highWater EXCEPT ![p] = IF o <= @ THEN @ ELSE o]
    BY <1>1, <1>2
  <2>3. s.consumed = s.consumed + 0
    BY <1>1
  <2>. HIDE DEF c
  <2>. QED  BY <1>2, <2>1, <2>2, <2>3 DEF c
<1>3. CASE ~(o <= s.highWater[p])
  <2>. DEFINE hw == [s.highWater EXCEPT ![p] = o]
  <2>1. c = [s EXCEPT !.highWater = hw, !.consumed = s.consumed + 1]
    BY <1>1, <1>3 DEF Count, States
  <2>2. hw \in [Partitions -> -1 .. LogLen - 1] /\ s.consumed + 1 \in Nat
    BY <1>1
  <2>3. hw = [s.highWater EXCEPT ![p] = IF o <= @ THEN @ ELSE o]
    BY <1>1, <1>3
  <2>4. /\ c \in States /\ c.highWater = hw /\ c.consumed = s.consumed + 1
        /\ c.window = s.window /\ c.known = s.known /\ c.replayed = s.replayed
        /\ c.pending = s.pending /\ c.seek = s.seek
    <3>. HIDE DEF c, hw
    <3>. QED  BY <2>1, <2>2 DEF States
  <2>. HIDE DEF c, hw
  <2>. QED  BY <1>3, <2>3, <2>4 DEF c
<1>. QED  BY <1>2, <1>3

\* i is s with a record of b taken in: the record is kept, opened a window at
\* its own offset or none, and asked at most for a replay from before itself.
\* i is s with a bond taken up: its record kept, counted once, and a replay asked
\* for only by a first alarm.
IsIngested(i, s, p, ts, b) ==
  /\ i \in States /\ Keyed(i)
  /\ Kept(i) = Kept(s) \cup {<<p, ts>>}
  /\ i.highWater = [s.highWater EXCEPT ![p] = IF ts <= @ THEN @ ELSE ts]
  /\ i.consumed = s.consumed + (IF ts <= s.highWater[p] THEN 0 ELSE 1)
  /\ s.known \subseteq i.known
  /\ \A x \in Bonders :
       \/ i.window[x].start = s.window[x].start /\ i.window[x].partition = s.window[x].partition
       \/ i.window[x].start = ts /\ i.window[x].partition = p
  /\ \/ i.replayed = s.replayed /\ i.seek = s.seek
     \/ /\ b \notin s.replayed /\ b \in s.known /\ b \in i.replayed
        /\ s.replayed \subseteq i.replayed /\ i.replayed \subseteq s.replayed \cup s.known
        /\ i.seek = [bonder |-> b, partition |-> p, from |-> ts - ReplayMs]

\* ingest does what IsIngested says.
LEMMA IngestEffect ==
  ASSUME log \in Logs, NEW s \in States, Keyed(s), NEW p \in Partitions, NEW ts \in Offsets,
         NEW b \in Bonders, b = log[<<p, ts>>], NEW v \in Verdicts(s, b)
  PROVE  IsIngested(Ingest(s, p, ts, v), s, p, ts, b)
<1>. USE SettingsAssumption
<1>. DEFINE r  == <<p, ts>>
            s1 == Count(s, p, ts)
            cl == Close(s1, {b}, [x \in {b} |-> ts], [x \in {b} |-> v])
            s2 == IF Over(s.window[b], ts) THEN cl ELSE s1
            w  == AddTo(s2.window[b], p, ts)
            i  == Ingest(s, p, ts, v)
            Lead(t) == \/ t.replayed = s.replayed /\ t.seek = s.seek
                       \/ /\ b \notin s.replayed /\ b \in s.known /\ b \in t.replayed
                          /\ s.replayed \subseteq t.replayed
                          /\ t.replayed \subseteq s.replayed \cup s.known
                          /\ t.seek = [bonder |-> b, partition |-> p, from |-> ts - ReplayMs]
<1>0. r \in Records /\ r[1] = p /\ r[2] = ts /\ ts \in Nat /\ ts \in Int
  BY DEF Records, Offsets
<1>1. /\ s1 \in States
      /\ s1.window = s.window /\ s1.known = s.known /\ s1.replayed = s.replayed
      /\ s1.pending = s.pending /\ s1.seek = s.seek
      /\ s1.highWater = [s.highWater EXCEPT ![p] = IF ts <= @ THEN @ ELSE ts]
      /\ s1.consumed = s.consumed + (IF ts <= s.highWater[p] THEN 0 ELSE 1)
  BY CountEffect
<1>2. Kept(s1) = Kept(s)
  <2>. HIDE DEF s1
  <2>. QED  BY <1>1 DEF Kept, InWindows
<1>3. IsOpen(s, b) => s.window[b].partition = p
  BY <1>0 DEF Keyed
<1>4. /\ s2 \in States /\ s2.highWater = s1.highWater /\ s2.consumed = s1.consumed
      /\ Kept(s2) = Kept(s) /\ s.known \subseteq s2.known /\ Lead(s2)
      /\ \A x \in Bonders : s2.window[x] = s.window[x] \/ (x = b /\ s2.window[x] = NoWindow)
  <2>1. CASE Over(s.window[b], ts)
    <3>1. IsOpen(s, b)
      BY <2>1 DEF Over, IsOpen
    <3>2. v \in Signs /\ (v = "nsop" => b \in s.known)
      BY DEF Verdicts, Signs
    <3>. DEFINE en == [x \in {b} |-> ts]
                ve == [x \in {b} |-> v]
    <3>3. /\ {b} \in SUBSET Bonders /\ en \in [{b} -> Int] /\ ve \in [{b} -> Signs]
          /\ \A x \in {b} : s1.window[x].partition \in Partitions /\ (ve[x] = "nsop" => x \in s1.known)
          /\ en[b] = ts
      <4>. HIDE DEF s1
      <4>. QED  BY <1>0, <1>1, <1>3, <3>1, <3>2
    <3>4. /\ cl \in States
          /\ cl.window = [x \in Bonders |-> IF x \in {b} THEN NoWindow ELSE s1.window[x]]
          /\ cl.highWater = s1.highWater /\ cl.consumed = s1.consumed /\ Kept(cl) = Kept(s1)
          /\ s1.known \subseteq cl.known
          /\ \/ cl.replayed = s1.replayed /\ cl.seek = s1.seek
             \/ \E x \in {b} :
                  /\ x \notin s1.replayed /\ x \in s1.known /\ x \in cl.replayed
                  /\ s1.replayed \subseteq cl.replayed /\ cl.replayed \subseteq s1.replayed \cup s1.known
                  /\ cl.seek = [bonder |-> x, partition |-> s1.window[x].partition,
                                from |-> en[x] - ReplayMs]
      <4>1. cl = Close(s1, {b}, en, ve)
        OBVIOUS
      <4>. DEFINE bs == {b}
      <4>2. bs \in SUBSET Bonders /\ en \in [bs -> Int] /\ ve \in [bs -> Signs] /\ s1 \in States
        BY <1>1, <3>3
      <4>3. CanClose(s1, bs, ve)
        BY <3>3 DEF CanClose
      <4>. HIDE DEF s1, en, ve, cl, bs
      <4>4. IsClosed(cl, s1, bs, en)
        BY <4>1, <4>2, <4>3, CloseEffect DEF bs
      <4>. QED  BY <4>4 DEF bs, IsClosed
    <3>5. s2 = cl
      BY <2>1
    <3>6. /\ s2 \in States /\ s2.highWater = s1.highWater /\ s2.consumed = s1.consumed
          /\ Kept(s2) = Kept(s) /\ s.known \subseteq s2.known
          /\ \A x \in Bonders : s2.window[x] = IF x = b THEN NoWindow ELSE s.window[x]
      <4>. HIDE DEF s1, s2, cl
      <4>. QED  BY <1>1, <1>2, <3>4, <3>5
    <3>7. Lead(s2)
      <4>. HIDE DEF s1, s2, cl, en
      <4>. QED  BY <1>1, <1>3, <3>1, <3>3, <3>4, <3>5
    <3>. QED  BY <3>6, <3>7
  <2>2. CASE ~Over(s.window[b], ts)
    <3>1. s2 = s1
      BY <2>2
    <3>. HIDE DEF s1, s2
    <3>. QED  BY <1>1, <1>2, <3>1
  <2>. QED  BY <2>1, <2>2
<1>5. /\ s2.window \in [Bonders -> Windows] /\ w \in Windows
      /\ w.records = s2.window[b].records \cup {r}
      /\ \/ w.start = s.window[b].start /\ w.partition = s.window[b].partition
         \/ w.start = ts /\ w.partition = p
      /\ w.start # None
  <2>1. s2.window \in [Bonders -> Windows] /\ s2.window[b] \in Windows
    <3>. HIDE DEF s2
    <3>. QED  BY <1>4 DEF States
  <2>2. s2.window[b] = s.window[b] \/ s2.window[b] = NoWindow
    <3>. HIDE DEF s2
    <3>. QED  BY <1>4
  <2>. DEFINE a == s2.window[b]
  <2>3. /\ a \in Windows /\ (a = s.window[b] \/ (a.start = None /\ a.partition = None))
        /\ w = [start |-> IF a.start = None THEN ts ELSE a.start,
                partition |-> IF a.start = None THEN p ELSE a.partition,
                records |-> a.records \cup {r}]
    <3>1. w = AddTo(a, p, ts)
      OBVIOUS
    <3>2. a = s.window[b] \/ (a.start = None /\ a.partition = None)
      <4>. HIDE DEF s2
      <4>. QED  BY <2>2 DEF NoWindow
    <3>. HIDE DEF a, w
    <3>. QED  BY <2>1, <3>1, <3>2 DEF AddTo, r, a
  <2>4. ts # None
    BY <1>0 DEF None
  <2>. HIDE DEF s2, a, r, w
  <2>5. /\ a.start \in {None} \cup Offsets /\ a.partition \in {None} \cup Partitions
        /\ a.records \in SUBSET Records
    BY <2>3 DEF Windows
  <2>6. w \in Windows /\ w.records = a.records \cup {r} /\ w.start # None
    BY <1>0, <2>3, <2>4, <2>5 DEF Windows
  <2>7. \/ w.start = s.window[b].start /\ w.partition = s.window[b].partition
        \/ w.start = ts /\ w.partition = p
    BY <2>3
  <2>. QED  BY <2>1, <2>6, <2>7 DEF a
<1>6. /\ i \in States /\ i.window = [s2.window EXCEPT ![b] = w]
      /\ i.highWater = s2.highWater /\ i.consumed = s2.consumed /\ i.pending = s2.pending
      /\ i.known = s2.known /\ i.replayed = s2.replayed /\ i.seek = s2.seek
  <2>1. i = [s2 EXCEPT !.window[b] = AddTo(@, p, ts)]
    BY DEF Ingest
  <2>. HIDE DEF s2, i
  <2>2. i = [s2 EXCEPT !.window = [s2.window EXCEPT ![b] = w]]
    BY <1>4, <2>1 DEF States
  <2>. HIDE DEF w
  <2>. QED  BY <1>4, <1>5, <2>2 DEF States
<1>. HIDE DEF s1, s2, w, i, r
<1>7. \A x \in Bonders : i.window[x] = IF x = b THEN w ELSE s2.window[x]
  BY <1>5, <1>6
<1>8. Kept(i) = Kept(s2) \cup {r}
  <2>1. InWindows(i) = InWindows(s2) \cup {r}
    <3>1. \A q : q \in InWindows(i) <=> \E x \in Bonders : q \in i.window[x].records
      BY DEF InWindows
    <3>2. \A q : q \in InWindows(s2) <=> \E x \in Bonders : q \in s2.window[x].records
      BY DEF InWindows
    <3>3. \A q : q \in w.records <=> q \in s2.window[b].records \/ q = r
      BY <1>5
    <3>4. \A q : q \in InWindows(i) <=> q \in InWindows(s2) \/ q = r
      BY <1>7, <3>1, <3>2, <3>3
    <3>. QED  BY <3>4
  <2>. QED  BY <1>6, <2>1 DEF Kept
<1>9. \A x \in Bonders :
        \/ i.window[x].start = s.window[x].start /\ i.window[x].partition = s.window[x].partition
        \/ i.window[x].start = ts /\ i.window[x].partition = p /\ x = b
        \/ ~IsOpen(i, x) /\ x = b
  BY <1>4, <1>5, <1>7 DEF NoWindow, IsOpen
<1>10. IsOpen(i, b)
  BY <1>5, <1>7 DEF IsOpen
<1>11. Keyed(i)
  <2>. SUFFICES ASSUME NEW x \in Bonders, IsOpen(i, x)
                PROVE  /\ i.window[x].partition \in Partitions
                       /\ \A q \in Records : log[q] = x => q[1] = i.window[x].partition
    BY DEF Keyed
  <2>1. CASE i.window[x].start = s.window[x].start /\ i.window[x].partition = s.window[x].partition
    BY <2>1 DEF Keyed, IsOpen
  <2>2. CASE i.window[x].partition = p /\ x = b
    <3>1. \A q \in Records : log[q] = b => q[1] = p
      BY <1>0 DEF Logs, r
    <3>. QED  BY <2>2, <3>1
  <2>. QED  BY <1>9, <1>10, <2>1, <2>2
<1>12. Lead(i)
  BY <1>4, <1>6
<1>. QED  BY <1>1, <1>4, <1>6, <1>8, <1>9, <1>10, <1>11, <1>12 DEF i, r, IsIngested

(***************************************************************************)
(* The end of an iteration of the record loop.                             *)
(***************************************************************************)

Flights == [windows : Seq(Closed), consumed : Nat, letter : {{}} \cup {{r} : r \in Records}]

\* The step leaves s in the State and in flight, between them, and loses
\* nothing of it.
HandsOn(s) ==
  /\ st' \in States /\ flight' \in Flights /\ since' \in 0 .. BatchSize
  /\ st'.window = s.window /\ st'.known = s.known /\ st'.replayed = s.replayed
  /\ st'.highWater = s.highWater
  /\ InMemory' = Kept(s)
  /\ st'.consumed + flight'.consumed = s.consumed /\ flight'.letter = {}
  /\ pc' \in {"read", "seek", "send", "metrics"}
  /\ (pc' # "send" => flight'.windows = <<>>)
  /\ (pc' \notin {"send", "metrics"} => flight'.consumed = 0)
  /\ (pc' # "seek" => since' < BatchSize)

\* flush() hands all that is pending to flight.
LEMMA TakeWindowsEffect ==
  \A s \in States, n \in Nat :
    TakeWindows(s) /\ since' = n /\ n < BatchSize =>
      HandsOn(s) /\ pc' # "seek" /\ st'.seek = s.seek
<1>. TAKE s \in States, n \in Nat
<1>. HAVE TakeWindows(s) /\ since' = n /\ n < BatchSize
<1>1. /\ flight'.windows = s.pending /\ flight'.consumed = s.consumed /\ flight'.letter = {}
      /\ flight' = [windows |-> s.pending, consumed |-> s.consumed, letter |-> {}]
  BY DEF TakeWindows, NoFlight
<1>2. /\ s.pending \in Seq(Closed) /\ s.consumed \in Nat
  BY DEF States
<1>3. /\ st'.pending = <<>> /\ st'.consumed = 0 /\ st'.window = s.window /\ st'.known = s.known
      /\ st'.replayed = s.replayed /\ st'.highWater = s.highWater /\ st'.seek = s.seek
  BY DEF TakeWindows, States
<1>4. st' \in States
  <2>1. <<>> \in Seq(Closed) /\ 0 \in Nat
    OBVIOUS
  <2>. QED  BY <2>1 DEF TakeWindows, States
<1>5. flight' \in Flights
  BY <1>1, <1>2 DEF Flights
<1>6. InMemory' = Kept(s)
  <2>1. Contents(st'.pending) = {}
    BY <1>3, ContentsNone
  <2>2. InMemory' = Contents(st'.pending) \cup Contents(s.pending) \cup InWindows(s)
    BY <1>1, <1>3 DEF InMemory, InWindows, Contents
  <2>. QED  BY <2>1, <2>2 DEF Kept
<1>7. /\ pc' \in {"send", "metrics"} /\ (pc' # "send" => s.pending = <<>>)
  BY DEF TakeWindows
<1>8. since' \in 0 .. BatchSize /\ st'.consumed + flight'.consumed = s.consumed
  BY <1>1, <1>2, <1>3, SettingsAssumption
<1>. QED  BY <1>1, <1>3, <1>4, <1>5, <1>6, <1>7, <1>8 DEF HandsOn

\* The end of an iteration, with or without a flush, loses nothing.
LEMMA FlushEffect ==
  \A s \in States, n \in 0 .. BatchSize :
    FlushIfReady(s, n) => HandsOn(s) /\ pc' # "seek" /\ st'.seek = s.seek
<1>. TAKE s \in States, n \in 0 .. BatchSize
<1>. HAVE FlushIfReady(s, n)
<1>1. CASE n >= BatchSize \/ Len(s.pending) >= BatchSize
  <2>1. TakeWindows(s) /\ since' = 0 /\ 0 \in Nat /\ 0 < BatchSize
    BY <1>1, SettingsAssumption DEF FlushIfReady
  <2>. QED  BY <2>1, TakeWindowsEffect
<1>2. CASE ~(n >= BatchSize \/ Len(s.pending) >= BatchSize)
  <2>1. pc' = "read" /\ st' = s /\ since' = n /\ flight' = NoFlight /\ n < BatchSize
    BY <1>2, SettingsAssumption DEF FlushIfReady
  <2>2. /\ flight'.windows = <<>> /\ flight'.consumed = 0 /\ flight'.letter = {}
        /\ flight' \in Flights
    BY <2>1 DEF NoFlight, Flights
  <2>3. InMemory' = Kept(s)
    <3>1. InMemory' = Contents(s.pending) \cup Contents(<<>>) \cup InWindows(s)
      BY <2>1, <2>2 DEF InMemory, InWindows, Contents
    <3>. QED  BY <3>1, ContentsNone DEF Kept
  <2>4. s.consumed + 0 = s.consumed
    BY DEF States
  <2>. QED  BY <2>1, <2>2, <2>3, <2>4 DEF HandsOn
<1>. QED  BY <1>1, <1>2

\* The same with the seek a close asked for.
LEMMA AfterRecordEffect ==
  \A s \in States, n \in 0 .. BatchSize :
    AfterRecord(s, n) /\ seeking = NoSeek =>
      HandsOn(s) /\ st'.seek = NoSeek /\ seeking' = s.seek
        /\ ((pc' = "seek") <=> (seeking' # NoSeek))
<1>. TAKE s \in States, n \in 0 .. BatchSize
<1>. HAVE AfterRecord(s, n) /\ seeking = NoSeek
<1>1. CASE s.seek = NoSeek
  <2>1. FlushIfReady(s, n) /\ seeking' = seeking
    BY <1>1 DEF AfterRecord
  <2>2. HandsOn(s) /\ pc' # "seek" /\ st'.seek = s.seek
    BY <2>1, FlushEffect
  <2>. QED  BY <1>1, <2>1, <2>2
<1>2. CASE s.seek # NoSeek
  <2>1. /\ pc' = "seek" /\ seeking' = s.seek /\ st' = [s EXCEPT !.seek = NoSeek]
        /\ since' = n /\ flight' = NoFlight
    BY <1>2 DEF AfterRecord
  <2>2. /\ flight'.windows = <<>> /\ flight'.consumed = 0 /\ flight'.letter = {}
        /\ flight' \in Flights
    BY <2>1 DEF NoFlight, Flights
  <2>3. /\ st'.pending = s.pending /\ st'.consumed = s.consumed /\ st'.window = s.window
        /\ st'.known = s.known /\ st'.replayed = s.replayed /\ st'.highWater = s.highWater
        /\ st'.seek = NoSeek /\ st' \in States
    BY <2>1 DEF States, Seeks
  <2>4. InMemory' = Kept(s)
    <3>1. InMemory' = Contents(s.pending) \cup Contents(<<>>) \cup InWindows(s)
      BY <2>2, <2>3 DEF InMemory, InWindows, Contents
    <3>. QED  BY <3>1, ContentsNone DEF Kept
  <2>5. s.consumed + 0 = s.consumed
    BY DEF States
  <2>. QED  BY <1>2, <2>1, <2>2, <2>3, <2>4, <2>5 DEF HandsOn
<1>. QED  BY <1>1, <1>2

(***************************************************************************)
(* Types, the loops and the windows.                                       *)
(***************************************************************************)

\* What the other parts of the invariant all rest on.
Base == TypeOK /\ LoopInv /\ WindowInv

\* Base by what a step can leave alone: the record loop, the rebalances, the
\* client, the topics, the histories.
LoopOK ==
  /\ pc \in {"down", "read", "dead_letter", "seek", "send", "metrics", "commit"}
  /\ st \in States /\ seeking \in Seeks /\ flight \in Flights /\ since \in 0 .. BatchSize
  /\ (pc = "dead_letter") <=> (flight.letter # {})
  /\ \A r \in flight.letter : log[r] = Malformed
  /\ (pc = "seek") <=> (seeking # NoSeek)
  /\ pc # "send" => flight.windows = <<>>
  /\ pc \notin {"send", "metrics"} => flight.consumed = 0
  /\ pc # "seek" => since < BatchSize
  /\ st.replayed \subseteq st.known /\ Keyed(st)
  /\ \A s \in {st.seek, seeking} : s.from < LogLen \/ s = NoSeek

EventOK ==
  /\ log \in Logs /\ ended \in BOOLEAN
  /\ rb \in [kind : {"none", "assign", "revoke"}, parts : SUBSET Partitions]
  /\ granted \subseteq Partitions /\ answerer \in {"loop", "client", "nobody"}

ClientOK ==
  /\ assigned \subseteq Partitions
  /\ pos \in [Partitions -> 0 .. LogLen] /\ stored \in [Partitions -> {None} \cup 0 .. LogLen]
  /\ \A p \in Partitions : stored[p] # None => stored[p] = pos[p]

TopicsOK ==
  /\ committed \in [Partitions -> 0 .. LogLen]
  /\ outputs \subseteq Records /\ dlq \subseteq Records /\ counted \in Nat

HistoryOK ==
  /\ gone \subseteq Records /\ uncounted \in BOOLEAN
  /\ seeks \in [Bonders -> Nat] /\ faults \in 0 .. MaxFaults

\* Base is its parts.
LEMMA BaseParts == Base <=> LoopOK /\ EventOK /\ ClientOK /\ TopicsOK /\ HistoryOK
<1>. USE DEF Base, TypeOK, LoopInv, WindowInv
<1>1. Base => LoopOK
  BY DEF LoopOK, Flights, Keyed
<1>2. Base => EventOK /\ ClientOK /\ TopicsOK /\ HistoryOK
  BY DEF EventOK, ClientOK, TopicsOK, HistoryOK
<1>3. LoopOK /\ EventOK /\ ClientOK /\ TopicsOK /\ HistoryOK => TypeOK
  BY DEF LoopOK, EventOK, ClientOK, TopicsOK, HistoryOK, Flights
<1>4. LoopOK /\ ClientOK => LoopInv
  BY DEF LoopOK, ClientOK
<1>5. LoopOK => WindowInv
  BY DEF LoopOK, Keyed
<1>. QED  BY <1>1, <1>2, <1>3, <1>4, <1>5

\* The parts after a step make up Base after it.
LEMMA BasePrimed == (LoopOK /\ EventOK /\ ClientOK /\ TopicsOK /\ HistoryOK)' => Base'
<1>1. (LoopOK /\ EventOK /\ ClientOK /\ TopicsOK /\ HistoryOK)' => TypeOK'
  BY DEF TypeOK, LoopOK, EventOK, ClientOK, TopicsOK, HistoryOK, Flights
<1>2. (LoopOK /\ ClientOK)' => LoopInv'
  BY DEF LoopInv, LoopOK, ClientOK
<1>3. LoopOK' => WindowInv'
  BY DEF WindowInv, LoopOK, Keyed
<1>. QED  BY <1>1, <1>2, <1>3 DEF Base

\* The base at the start.
LEMMA InitBase == Init => Base
<1>. USE SettingsAssumption DEF Init
<1>1. Init => LoopOK
  <2>. SUFFICES ASSUME Init PROVE LoopOK
    OBVIOUS
  <2>1. Fresh \in States
    BY DEF Fresh, States, Windows, NoWindow, Seeks
  <2>2. NoFlight \in Flights /\ NoSeek \in Seeks
    BY DEF NoFlight, Flights, Seeks
  <2>3. Keyed(Fresh) /\ Fresh.seek = NoSeek /\ Fresh.replayed = {}
    BY DEF Keyed, Fresh, IsOpen, NoWindow
  <2>. QED  BY <2>1, <2>2, <2>3 DEF LoopOK, NoFlight
<1>2. Init => EventOK /\ ClientOK /\ TopicsOK /\ HistoryOK
  <2>1. Init => EventOK
    <3>1. NoEvent \in [kind : {"none", "assign", "revoke"}, parts : SUBSET Partitions]
      BY DEF NoEvent
    <3>2. Init => /\ log \in Logs /\ ended = FALSE /\ rb = NoEvent
                  /\ granted = {} /\ answerer = "nobody"
      OBVIOUS
    <3>. QED  BY ONLY <3>1, <3>2 DEF EventOK
  <2>2. Init => ClientOK
    BY DEF ClientOK
  <2>3. Init => TopicsOK
    BY DEF TopicsOK
  <2>4. Init => HistoryOK
    <3>1. [b \in Bonders |-> 0] \in [Bonders -> Nat] /\ 0 \in 0 .. MaxFaults
      OBVIOUS
    <3>2. Init => gone = {} /\ uncounted = FALSE /\ seeks = [b \in Bonders |-> 0] /\ faults = 0
      OBVIOUS
    <3>. QED  BY ONLY <3>1, <3>2 DEF HistoryOK
  <2>. QED  BY <2>1, <2>2, <2>3, <2>4
<1>. QED  BY <1>1, <1>2, BaseParts

\* After the end of an iteration the loop is as it should be.
LEMMA HandedOn ==
  \A s \in States :
    /\ HandsOn(s) /\ log' = log /\ Keyed(s) /\ s.replayed \subseteq s.known
    /\ seeking' \in Seeks /\ ((pc' = "seek") <=> (seeking' # NoSeek))
    /\ \A k \in {st'.seek, seeking'} : k.from < LogLen \/ k = NoSeek
    => LoopOK'
<1>. TAKE s \in States
<1>. HAVE /\ HandsOn(s) /\ log' = log /\ Keyed(s) /\ s.replayed \subseteq s.known
          /\ seeking' \in Seeks /\ ((pc' = "seek") <=> (seeking' # NoSeek))
          /\ \A k \in {st'.seek, seeking'} : k.from < LogLen \/ k = NoSeek
<1>1. Keyed(st)'
  BY DEF HandsOn, Keyed, IsOpen
<1>. QED  BY <1>1 DEF HandsOn, LoopOK

(***************************************************************************)
(* The record loop, action by action.                                      *)
(***************************************************************************)

\* s is t with one more record counted that is no bond.
\* s is t with a record counted.
IsTallied(s, t) ==
  /\ s \in States /\ Keyed(s) /\ Kept(s) = Kept(t)
  /\ s.window = t.window /\ s.known = t.known /\ s.replayed = t.replayed
  /\ s.highWater = t.highWater /\ s.seek = t.seek /\ s.consumed = t.consumed + 1

\* A record that is no bond only counts.
LEMMA TallyEffect ==
  ASSUME NEW t \in States, Keyed(t)
  PROVE  IsTallied([t EXCEPT !.consumed = @ + 1], t)
<1>. DEFINE s == [t EXCEPT !.consumed = @ + 1]
<1>1. t.consumed \in Nat
  BY DEF States
<1>2. /\ s \in States /\ s.window = t.window /\ s.known = t.known /\ s.replayed = t.replayed
      /\ s.highWater = t.highWater /\ s.seek = t.seek /\ s.consumed = t.consumed + 1
      /\ s.pending = t.pending
  BY <1>1 DEF States
<1>. HIDE DEF s
<1>3. Keyed(s) /\ Kept(s) = Kept(t)
  BY <1>2 DEF Keyed, IsOpen, Kept, InWindows
<1>. QED  BY <1>2, <1>3 DEF IsTallied, s

\* The loop's part of a step that ends an iteration with State s.
\* An iteration of the record loop ends with State s.
EndsWith(s) ==
  /\ s \in States /\ HandsOn(s) /\ st'.seek = NoSeek /\ seeking' = s.seek
  /\ (pc' = "seek") <=> (seeking' # NoSeek)

\* A record handed out moves the position over it.
MovesOver(p) ==
  /\ p \in assigned /\ pos[p] < LogLen /\ pos[p] \in Offsets /\ <<p, pos[p]>> \in Records
  /\ pos' = [pos EXCEPT ![p] = pos[p] + 1]
  /\ stored' = [stored EXCEPT ![p] = pos[p] + 1]
  /\ assigned' = assigned

\* Handing a record out moves the position over it.
LEMMA Moves ==
  Base => \A p \in Partitions :
    (Deliver(p) \/ DeliverMalformed(p)) => MovesOver(p) /\ pc = "read"
<1>. HAVE Base
<1>. TAKE p \in Partitions
<1>. HAVE Deliver(p) \/ DeliverMalformed(p)
<1>1. /\ p \in assigned /\ pos[p] < LogLen /\ pc = "read"
      /\ pos' = [pos EXCEPT ![p] = pos[p] + 1]
      /\ stored' = [stored EXCEPT ![p] = pos[p] + 1]
      /\ assigned' = assigned
  BY DEF Deliver, DeliverMalformed
<1>2. pos[p] \in 0 .. LogLen
  BY DEF Base, TypeOK
<1>3. pos[p] \in Offsets
  BY <1>1, <1>2, SettingsAssumption DEF Offsets
<1>. QED  BY <1>1, <1>3 DEF MovesOver, Records

\* The iteration of a bond or a tombstone.
LEMMA DeliverEffect ==
  Base => \A p \in Partitions : Deliver(p) =>
    /\ MovesOver(p) /\ UNCHANGED <<log, rebalancing, ended, topics, history>>
    /\ \E s \in States :
         /\ EndsWith(s)
         /\ \/ log[<<p, pos[p]>>] = Tombstone /\ IsTallied(s, st)
            \/ log[<<p, pos[p]>>] \in Bonders /\ IsIngested(s, st, p, pos[p], log[<<p, pos[p]>>])
<1>. HAVE Base
<1>. TAKE p \in Partitions
<1>. HAVE Deliver(p)
<1>. USE SettingsAssumption
<1>0. MovesOver(p) /\ pc = "read"
  BY Moves
<1>1. LoopOK /\ log \in Logs
  BY BaseParts DEF EventOK
<1>2. /\ st \in States /\ Keyed(st) /\ seeking = NoSeek /\ since + 1 \in 0 .. BatchSize
      /\ pos[p] \in Offsets
  BY <1>0, <1>1 DEF LoopOK, MovesOver
<1>3. \A s \in States : AfterRecord(s, since + 1) => EndsWith(s)
  BY <1>2, AfterRecordEffect DEF EndsWith
<1>. DEFINE kind == log[<<p, pos[p]>>]
<1>4. \/ kind = Tombstone /\ AfterRecord([st EXCEPT !.consumed = @ + 1], since + 1)
      \/ kind \in Bonders /\ \E v \in Verdicts(st, kind) : AfterRecord(Ingest(st, p, pos[p], v), since + 1)
  BY DEF Deliver
<1>5. UNCHANGED <<log, rebalancing, ended, topics, history>>
  BY DEF Deliver
<1>6. CASE kind = Tombstone /\ AfterRecord([st EXCEPT !.consumed = @ + 1], since + 1)
  <2>. DEFINE s == [st EXCEPT !.consumed = @ + 1]
  <2>1. IsTallied(s, st) /\ AfterRecord(s, since + 1)
    BY <1>2, <1>6, TallyEffect
  <2>2. s \in States
    BY <2>1 DEF IsTallied
  <2>. HIDE DEF s
  <2>. QED  BY <1>0, <1>3, <1>5, <1>6, <2>1, <2>2
<1>7. CASE kind \in Bonders /\ \E v \in Verdicts(st, kind) :
                                 AfterRecord(Ingest(st, p, pos[p], v), since + 1)
  <2>1. PICK v \in Verdicts(st, kind) : AfterRecord(Ingest(st, p, pos[p], v), since + 1)
    BY <1>7
  <2>. DEFINE s == Ingest(st, p, pos[p], v)
              o == pos[p]
  <2>2. IsIngested(s, st, p, o, kind)
    <3>1. kind \in Bonders /\ v \in Verdicts(st, kind) /\ kind = log[<<p, o>>] /\ o \in Offsets
      BY <1>2, <1>7
    <3>2. s = Ingest(st, p, o, v)
      OBVIOUS
    <3>. HIDE DEF s, o, kind
    <3>. QED  BY <1>1, <1>2, <3>1, <3>2, IngestEffect
  <2>3. s \in States
    BY <2>2 DEF IsIngested
  <2>4. EndsWith(s)
    <3>. HIDE DEF s
    <3>. QED  BY <1>3, <2>1, <2>3 DEF s
  <2>. HIDE DEF s
  <2>. QED  BY <1>0, <1>5, <1>7, <2>2, <2>3, <2>4
<1>. QED  BY <1>4, <1>6, <1>7

\* The iteration of a dead letter, once it is acknowledged.
LEMMA DeadLetteredEffect ==
  Base /\ DeadLettered =>
    /\ pc = "dead_letter" /\ dlq' = dlq \cup flight.letter
    /\ UNCHANGED <<log, rebalancing, ended, client, committed, outputs, counted, history>>
    /\ \E s \in States : EndsWith(s) /\ IsTallied(s, st)
<1>. HAVE Base /\ DeadLettered
<1>. USE SettingsAssumption
<1>1. /\ pc = "dead_letter" /\ dlq' = dlq \cup flight.letter
      /\ UNCHANGED <<log, rebalancing, ended, client, committed, outputs, counted, history>>
      /\ AfterRecord([st EXCEPT !.consumed = @ + 1], since + 1)
  BY DEF DeadLettered
<1>2. LoopOK
  BY BaseParts
<1>3. st \in States /\ Keyed(st) /\ seeking = NoSeek /\ since + 1 \in 0 .. BatchSize
  <2>1. st \in States /\ Keyed(st) /\ seeking = NoSeek /\ since \in 0 .. BatchSize /\ since < BatchSize
    BY <1>1, <1>2 DEF LoopOK
  <2>. QED  BY <2>1
<1>. DEFINE s == [st EXCEPT !.consumed = @ + 1]
<1>4. IsTallied(s, st) /\ AfterRecord(s, since + 1)
  BY <1>1, <1>3, TallyEffect
<1>. HIDE DEF s
<1>5. s \in States
  BY <1>4 DEF IsTallied
<1>6. EndsWith(s)
  BY <1>3, <1>4, <1>5, AfterRecordEffect DEF EndsWith
<1>. QED  BY <1>1, <1>4, <1>5, <1>6

\* A seek, done or failed, and the flush after it.
LEMMA SeekEffect ==
  Base /\ (Seek \/ SeekFails) =>
    /\ pc = "seek" /\ seeking # NoSeek /\ seeking' = NoSeek
    /\ HandsOn(st) /\ pc' # "seek" /\ st'.seek = st.seek
    /\ UNCHANGED <<log, rebalancing, ended, assigned, topics, gone, uncounted>>
<1>. HAVE Base /\ (Seek \/ SeekFails)
<1>1. LoopOK
  BY BaseParts
<1>2. /\ pc = "seek" /\ seeking' = NoSeek /\ FlushIfReady(st, since)
      /\ UNCHANGED <<log, rebalancing, ended, assigned, topics, gone, uncounted>>
  BY DEF Seek, SeekFails, client, topics
<1>3. st \in States /\ since \in 0 .. BatchSize /\ seeking # NoSeek
  BY <1>1, <1>2 DEF LoopOK
<1>. QED  BY <1>2, <1>3, FlushEffect

(***************************************************************************)
(* The exit of the process, and a revocation.                              *)
(***************************************************************************)

\* The memory of a new process is empty.
LEMMA FreshOK ==
  /\ Fresh \in States /\ NoFlight \in Flights /\ NoSeek \in Seeks
  /\ Kept(Fresh) = {} /\ Contents(NoFlight.windows) = {}
  /\ \A b \in Bonders : ~IsOpen(Fresh, b)
<1>. USE SettingsAssumption
<1>1. Fresh \in States /\ NoFlight \in Flights /\ NoSeek \in Seeks
  BY DEF Fresh, States, Windows, NoWindow, Seeks, NoFlight, Flights
<1>2. \A b \in Bonders : ~IsOpen(Fresh, b) /\ Fresh.window[b].records = {}
  BY DEF Fresh, IsOpen, NoWindow
<1>3. Fresh.pending = <<>> /\ NoFlight.windows = <<>>
  BY DEF Fresh, NoFlight
<1>4. InWindows(Fresh) = {}
  BY <1>2 DEF InWindows
<1>. QED  BY <1>1, <1>2, <1>3, <1>4, ContentsNone DEF Kept

\* Memory is what the State keeps and what is in flight.
LEMMA MemoryParts == InMemory = Kept(st) \cup Contents(flight.windows)
BY DEF InMemory, Kept, InWindows

\* Memory holds records.
LEMMA MemoryType == Base => InMemory \subseteq Records
<1>. HAVE Base
<1>1. /\ st.pending \in Seq(Closed) /\ flight.windows \in Seq(Closed)
      /\ st.window \in [Bonders -> Windows]
  BY BaseParts DEF LoopOK, States, Flights
<1>2. \A s \in Seq(Closed) : Contents(s) \subseteq Records
  <2>. TAKE s \in Seq(Closed)
  <2>1. \A i \in DOMAIN s : s[i] \in Closed
    OBVIOUS
  <2>. QED  BY <2>1 DEF Contents, ToSet, Closed
<1>3. InWindows(st) \subseteq Records
  BY <1>1 DEF InWindows, Windows
<1>4. Contents(st.pending) \subseteq Records /\ Contents(flight.windows) \subseteq Records
  BY <1>1, <1>2
<1>. QED  BY <1>3, <1>4, MemoryParts DEF Kept

\* An exit leaves a process that has not started, and nothing in memory.
LEMMA ExitEffect ==
  Base /\ Exit =>
    /\ LoopOK' /\ EventOK' /\ ClientOK' /\ gone' \subseteq Records /\ seeks' \in [Bonders -> Nat]
    /\ log' = log /\ uncounted' = TRUE /\ st' = Fresh /\ flight' = NoFlight /\ seeking' = NoSeek
    /\ InMemory' = {} /\ seeks' = [b \in Bonders |-> 0]
    /\ \A p \in Partitions : pos'[p] = 0
    /\ gone' = gone \cup {r \in InMemory : r[2] < committed'[r[1]]}
<1>. HAVE Base /\ Exit
<1>. USE SettingsAssumption
<1>1. /\ pc' = "down" /\ rb' = NoEvent /\ st' = Fresh /\ since' = 0 /\ seeking' = NoSeek
      /\ flight' = NoFlight /\ ended' = FALSE /\ assigned' = {} /\ log' = log /\ uncounted' = TRUE
      /\ granted' = {} /\ answerer' = "nobody"
  BY DEF Exit
<1>2. /\ stored' = [p \in Partitions |-> None] /\ pos' = [p \in Partitions |-> 0]
  BY DEF Exit
<1>3. gone' = gone \cup {r \in InMemory : r[2] < committed'[r[1]]}
  BY DEF Exit
<1>4. seeks' = [b \in Bonders |-> 0]
  BY DEF Exit
<1>5. LoopOK'
  <2>1. /\ Fresh.replayed = {} /\ Fresh.seek = NoSeek /\ NoFlight.windows = <<>>
        /\ NoFlight.consumed = 0 /\ NoFlight.letter = {}
    BY DEF Fresh, NoFlight
  <2>2. Keyed(st)'
    BY <1>1, FreshOK DEF Keyed, IsOpen
  <2>3. 0 \in 0 .. BatchSize /\ 0 < BatchSize
    OBVIOUS
  <2>. QED  BY <1>1, <2>1, <2>2, <2>3, FreshOK DEF LoopOK
<1>6. EventOK'
  <2>1. NoEvent \in [kind : {"none", "assign", "revoke"}, parts : SUBSET Partitions]
    BY DEF NoEvent
  <2>2. log \in Logs
    BY BaseParts DEF EventOK
  <2>. QED  BY <1>1, <2>1, <2>2 DEF EventOK
<1>7. ClientOK'
  <2>1. \A p \in Partitions : stored'[p] = None
    BY <1>2
  <2>2. stored' \in [Partitions -> {None} \cup 0 .. LogLen] /\ pos' \in [Partitions -> 0 .. LogLen]
    BY <1>2
  <2>. QED  BY <1>1, <2>1, <2>2 DEF ClientOK
<1>8. gone' \subseteq Records
  BY <1>3, MemoryType DEF Base, TypeOK
<1>9. InMemory' = {}
  <2>1. InMemory' = Kept(st') \cup Contents(flight'.windows)
    BY DEF InMemory, Kept, InWindows
  <2>. QED  BY <1>1, <2>1, FreshOK
<1>10. (\A p \in Partitions : pos'[p] = 0) /\ seeks' \in [Bonders -> Nat]
  BY <1>2, <1>4
<1>. QED  BY <1>1, <1>3, <1>4, <1>5, <1>6, <1>7, <1>8, <1>9, <1>10

\* A revocation closes windows at their full length.
LEMMA RevokeEffect ==
  Base /\ RevokeEvent =>
    /\ rb = NoEvent /\ rb'.kind = "revoke" /\ rb' \in [kind : {"revoke"}, parts : SUBSET Partitions]
    /\ faults < MaxFaults /\ faults' = faults + 1
    /\ granted' \subseteq granted
    /\ UNCHANGED <<log, pc, answerer, since, seeking, flight, ended, client, topics>>
    /\ UNCHANGED <<seeks, gone, uncounted>>
    /\ \E bs \in SUBSET Bonders :
         /\ \A b \in bs : IsOpen(st, b) /\ st.window[b].start \in Offsets
         /\ IsClosed(st', st, bs, [b \in bs |-> st.window[b].start + WindowMs])
<1>. HAVE Base /\ RevokeEvent
<1>. USE SettingsAssumption
<1>1. PICK parts \in SUBSET granted \ {{}} :
        LET bs == {b \in Bonders : IsOpen(st, b) /\ st.window[b].partition \in parts} IN
        /\ rb' = [kind |-> "revoke", parts |-> parts] /\ granted' = granted \ parts
        /\ \E v \in [bs -> {"healthy", "off", "nsop"}] :
             /\ \A b \in bs : v[b] \in Verdicts(st, b)
             /\ st' = Close(st, bs, [b \in bs |-> st.window[b].start + WindowMs], v)
  BY DEF RevokeEvent
<1>. DEFINE bs == {b \in Bonders : IsOpen(st, b) /\ st.window[b].partition \in parts}
            end == [b \in bs |-> st.window[b].start + WindowMs]
<1>2. PICK v \in [bs -> Signs] :
        (\A b \in bs : v[b] \in Verdicts(st, b)) /\ st' = Close(st, bs, end, v)
  BY <1>1 DEF Signs
<1>3. LoopOK /\ EventOK
  BY BaseParts
<1>4. st \in States /\ Keyed(st) /\ granted \subseteq Partitions /\ bs \in SUBSET Bonders
  BY <1>3 DEF LoopOK, EventOK
<1>5. \A b \in bs : st.window[b] \in Windows /\ IsOpen(st, b) /\ st.window[b].partition \in Partitions
  BY <1>4 DEF States, Keyed
<1>6. \A b \in bs : st.window[b].start \in Offsets
  BY <1>5 DEF Windows, IsOpen
<1>7. end \in [bs -> Int]
  <2>1. \A b \in bs : st.window[b].start + WindowMs \in Int
    <3>. HIDE DEF bs
    <3>. QED  BY <1>6 DEF Offsets
  <2>. HIDE DEF bs
  <2>. QED  BY <2>1
<1>8. CanClose(st, bs, v)
  BY <1>2, <1>5 DEF CanClose, Verdicts
<1>9. IsClosed(st', st, bs, end)
  <2>. HIDE DEF bs, end
  <2>. QED  BY <1>2, <1>4, <1>7, <1>8, CloseEffect
<1>10. /\ rb = NoEvent /\ faults < MaxFaults /\ faults' = faults + 1
       /\ UNCHANGED <<log, pc, answerer, since, seeking, flight, ended, client, topics>>
       /\ UNCHANGED <<seeks, gone, uncounted>>
  BY DEF RevokeEvent, Fault
<1>11. /\ rb' = [kind |-> "revoke", parts |-> parts] /\ parts \in SUBSET Partitions
       /\ granted' \subseteq granted
  BY <1>1, <1>4
<1>. QED  BY <1>4, <1>5, <1>6, <1>9, <1>10, <1>11

(***************************************************************************)
(* Every step keeps Base.                                                  *)
(***************************************************************************)

\* The actions that end the process.
Exits == (Commit /\ Exit) \/ CommitFails \/ SendFails \/ Crash \/ DeadLetterFails

\* The group's events and their answers, but for revocations taken by the loop.
GroupSteps ==
  AssignEvent \/ Assign \/ Unassign \/ AnswerFails \/ ClientAssigns \/ ClientRevokes

\* The actions that leave the loop where it is or move only its pc.
Calls ==
  \/ Open \/ OpenUnanswered \/ GroupSteps \/ CommitDeferred
  \/ Commit /\ ~Exit

\* The cases of a step.
LEMMA Cases ==
  [Next]_vars =>
    \/ \E p \in Partitions : Deliver(p) \/ DeliverMalformed(p)
    \/ DeadLettered \/ Seek \/ SeekFails \/ SendOutputs \/ SendMetrics \/ StreamEnds \/ RevokeEvent
    \/ Calls \/ Exits \/ UNCHANGED vars
BY DEF Next, RecordLoop, RebalanceLoop, Calls, GroupSteps, Exits

\* The client takes partitions up, or gives them up.
LEMMA TakeEffect == Base /\ (\E parts \in SUBSET Partitions : Take(parts)) => ClientOK'
<1>. HAVE Base /\ (\E parts \in SUBSET Partitions : Take(parts))
<1>1. PICK parts \in SUBSET Partitions : Take(parts)
  OBVIOUS
<1>2. ClientOK /\ TopicsOK
  BY BaseParts
<1>3. /\ assigned' = assigned \cup parts
      /\ pos' = [p \in Partitions |-> IF p \in parts THEN committed[p] ELSE pos[p]]
      /\ stored' = [p \in Partitions |-> IF p \in parts THEN None ELSE stored[p]]
  BY <1>1 DEF Take
<1>4. pos' \in [Partitions -> 0 .. LogLen] /\ stored' \in [Partitions -> {None} \cup 0 .. LogLen]
  BY <1>2, <1>3 DEF ClientOK, TopicsOK
<1>5. \A p \in Partitions : stored'[p] # None => stored'[p] = pos'[p]
  BY <1>2, <1>3 DEF ClientOK
<1>. QED  BY <1>2, <1>3, <1>4, <1>5 DEF ClientOK

\* Giving up moves no position.
LEMMA GiveUpEffect == Base /\ (\E parts \in SUBSET Partitions : GiveUp(parts)) => ClientOK'
<1>. HAVE Base /\ (\E parts \in SUBSET Partitions : GiveUp(parts))
<1>1. PICK parts \in SUBSET Partitions : GiveUp(parts)
  OBVIOUS
<1>2. ClientOK
  BY BaseParts
<1>3. /\ assigned' = assigned \ parts /\ pos' = pos
      /\ stored' = [p \in Partitions |-> IF p \in parts THEN None ELSE stored[p]]
  BY <1>1 DEF GiveUp
<1>4. stored' \in [Partitions -> {None} \cup 0 .. LogLen]
  BY <1>2, <1>3 DEF ClientOK
<1>5. \A p \in Partitions : stored'[p] # None => stored'[p] = pos'[p]
  BY <1>2, <1>3 DEF ClientOK
<1>. QED  BY <1>2, <1>3, <1>4, <1>5 DEF ClientOK

\* A flush's call: the windows are in outputs, or the metric is out.
LEMMA SendEffect ==
  Base /\ (SendOutputs \/ SendMetrics) =>
    /\ LoopOK' /\ st' = st /\ seeking' = seeking /\ flight'.letter = {} /\ flight.letter = {}
    /\ UNCHANGED <<log, rebalancing, ended, client, committed, dlq, seeks, gone>>
<1>. HAVE Base /\ (SendOutputs \/ SendMetrics)
<1>1. LoopOK
  BY BaseParts
<1>2. /\ st' = st /\ seeking' = seeking /\ since' = since
      /\ UNCHANGED <<log, rebalancing, ended, client, committed, dlq, seeks, gone>>
  BY DEF SendOutputs, SendMetrics, history
<1>3. pc \in {"send", "metrics"} /\ pc' \in {"metrics", "commit"}
  BY DEF SendOutputs, SendMetrics
<1>4. flight.letter = {} /\ flight \in Flights
  BY <1>1, <1>3 DEF LoopOK
<1>5. /\ flight' \in Flights /\ flight'.letter = {} /\ flight'.windows = <<>>
      /\ (pc' = "commit" => flight'.consumed = 0)
  <2>1. CASE SendOutputs
    <3>1. flight' = [flight EXCEPT !.windows = <<>>] /\ pc' = "metrics"
      BY <2>1 DEF SendOutputs
    <3>2. <<>> \in Seq(Closed)
      OBVIOUS
    <3>3. flight' \in Flights
      BY <1>4, <3>1, <3>2 DEF Flights
    <3>4. flight'.letter = {} /\ flight'.windows = <<>>
      BY <1>4, <3>1 DEF Flights
    <3>. QED  BY <3>1, <3>3, <3>4
  <2>2. CASE SendMetrics
    <3>1. flight' = NoFlight
      BY <2>2 DEF SendMetrics
    <3>. QED  BY <3>1 DEF NoFlight, Flights
  <2>. QED  BY <2>1, <2>2
<1>6. Keyed(st)' 
  BY <1>1, <1>2 DEF LoopOK, Keyed, IsOpen
<1>7. LoopOK'
  BY <1>1, <1>2, <1>3, <1>5, <1>6 DEF LoopOK
<1>. QED  BY <1>2, <1>4, <1>5, <1>7

\* A position moved over a record.
LEMMA MovesClient ==
  Base => \A p \in Partitions : MovesOver(p) => ClientOK'
<1>. HAVE Base
<1>. TAKE p \in Partitions
<1>. HAVE MovesOver(p)
<1>. USE SettingsAssumption
<1>1. ClientOK
  BY BaseParts
<1>2. pos[p] + 1 \in 0 .. LogLen
  BY <1>1 DEF ClientOK, MovesOver
<1>3. \A q \in Partitions : /\ pos'[q] = IF q = p THEN pos[p] + 1 ELSE pos[q]
                            /\ stored'[q] = IF q = p THEN pos[p] + 1 ELSE stored[q]
  BY <1>1 DEF ClientOK, MovesOver
<1>4. pos' \in [Partitions -> 0 .. LogLen] /\ stored' \in [Partitions -> {None} \cup 0 .. LogLen]
  BY <1>1, <1>2 DEF ClientOK, MovesOver
<1>. QED  BY <1>1, <1>3, <1>4 DEF ClientOK, MovesOver

\* An iteration that ends with State s keeps the loop in order.
LEMMA EndsWithLoop ==
  Base => \A s \in States :
    /\ EndsWith(s) /\ log' = log /\ Keyed(s) /\ s.replayed \subseteq s.known
    /\ s.seek.from < LogLen \/ s.seek = NoSeek
    => LoopOK'
<1>. HAVE Base
<1>. TAKE s \in States
<1>. HAVE /\ EndsWith(s) /\ log' = log /\ Keyed(s) /\ s.replayed \subseteq s.known
          /\ s.seek.from < LogLen \/ s.seek = NoSeek
<1>1. s.seek \in Seeks
  BY DEF States
<1>2. /\ HandsOn(s) /\ seeking' = s.seek /\ st'.seek = NoSeek
      /\ ((pc' = "seek") <=> (seeking' # NoSeek))
  BY DEF EndsWith
<1>3. \A k \in {st'.seek, seeking'} : k.from < LogLen \/ k = NoSeek
  BY <1>2
<1>. QED  BY <1>1, <1>2, <1>3, HandedOn

\* What a commit commits is a position.
LEMMA CommitType == Base => StoredPositions \in [Partitions -> 0 .. LogLen]
<1>. HAVE Base
<1>1. ClientOK /\ TopicsOK
  BY BaseParts
<1>2. \A p \in Partitions : stored[p] # None => stored[p] \in 0 .. LogLen
  BY <1>1 DEF ClientOK
<1>. QED  BY <1>1, <1>2 DEF TopicsOK, StoredPositions

\* A step keeps the base.
LEMMA StepBase == Base /\ [Next]_vars => Base'
<1>. SUFFICES ASSUME Base, [Next]_vars PROVE Base'
  OBVIOUS
<1>. USE SettingsAssumption
<1>0. LoopOK /\ EventOK /\ ClientOK /\ TopicsOK /\ HistoryOK
  BY BaseParts
<1>1. ASSUME NEW p \in Partitions, Deliver(p) PROVE Base'
  <2>1. MovesOver(p) /\ UNCHANGED <<log, rebalancing, ended, topics, history>>
    BY <1>1, DeliverEffect
  <2>2. PICK s \in States :
          /\ EndsWith(s)
          /\ \/ log[<<p, pos[p]>>] = Tombstone /\ IsTallied(s, st)
             \/ log[<<p, pos[p]>>] \in Bonders
                  /\ IsIngested(s, st, p, pos[p], log[<<p, pos[p]>>])
    BY <1>1, DeliverEffect
  <2>3. Keyed(s) /\ s.replayed \subseteq s.known /\ (s.seek.from < LogLen \/ s.seek = NoSeek)
    <3>1. CASE IsTallied(s, st)
      BY <1>0, <3>1 DEF IsTallied, LoopOK
    <3>2. CASE IsIngested(s, st, p, pos[p], log[<<p, pos[p]>>])
      <4>1. pos[p] - ReplayMs < LogLen
        BY <2>1 DEF MovesOver, Offsets
      <4>2. Keyed(s) /\ s.replayed \subseteq s.known
        BY <1>0, <3>2 DEF IsIngested, LoopOK
      <4>3. s.seek = st.seek \/ s.seek.from = pos[p] - ReplayMs
        BY <3>2 DEF IsIngested
      <4>. QED  BY <1>0, <4>1, <4>2, <4>3 DEF LoopOK
    <3>. QED  BY <2>2, <3>1, <3>2
  <2>4. LoopOK'
    BY <2>1, <2>2, <2>3, EndsWithLoop
  <2>5. ClientOK'
    BY <2>1, MovesClient
  <2>6. (EventOK /\ TopicsOK /\ HistoryOK)'
    BY <1>0, <2>1 DEF EventOK, rebalancing, TopicsOK, HistoryOK, topics, history
  <2>. QED  BY <2>4, <2>5, <2>6, BasePrimed
<1>2. ASSUME NEW p \in Partitions, DeliverMalformed(p) PROVE Base'
  <2>1. MovesOver(p) /\ pc = "read"
    BY <1>2, Moves
  <2>2. /\ flight' = [flight EXCEPT !.letter = {<<p, pos[p]>>}] /\ pc' = "dead_letter"
        /\ log[<<p, pos[p]>>] = Malformed
        /\ UNCHANGED <<log, rebalancing, st, since, seeking, ended, topics, history>>
    BY <1>2 DEF DeliverMalformed
  <2>3. /\ flight' \in Flights /\ flight'.letter = {<<p, pos[p]>>}
        /\ flight'.windows = flight.windows /\ flight'.consumed = flight.consumed
    BY <1>0, <2>1, <2>2 DEF LoopOK, Flights, MovesOver
  <2>4. Keyed(st)'
    BY <1>0, <2>2 DEF LoopOK, Keyed, IsOpen
  <2>5. LoopOK'
    BY <1>0, <2>1, <2>2, <2>3, <2>4 DEF LoopOK
  <2>6. (EventOK /\ TopicsOK /\ HistoryOK)'
    BY <1>0, <2>2 DEF EventOK, rebalancing, TopicsOK, HistoryOK, topics, history
  <2>. QED  BY <2>1, <2>5, <2>6, MovesClient, BasePrimed
<1>3. CASE DeadLettered
  <2>1. /\ dlq' = dlq \cup flight.letter
        /\ UNCHANGED <<log, rebalancing, ended, client, committed, outputs, counted, history>>
    BY <1>3, DeadLetteredEffect
  <2>2. PICK s \in States : EndsWith(s) /\ IsTallied(s, st)
    BY <1>3, DeadLetteredEffect
  <2>3. Keyed(s) /\ s.replayed \subseteq s.known /\ (s.seek.from < LogLen \/ s.seek = NoSeek)
    BY <1>0, <2>2 DEF IsTallied, LoopOK
  <2>4. LoopOK'
    BY <2>1, <2>2, <2>3, EndsWithLoop
  <2>5. flight.letter \subseteq Records
    BY <1>0 DEF LoopOK, Flights
  <2>6. (EventOK /\ ClientOK /\ TopicsOK /\ HistoryOK)'
    BY <1>0, <2>1, <2>5 DEF EventOK, rebalancing, ClientOK, TopicsOK, HistoryOK, client, topics, history
  <2>. QED  BY <2>4, <2>6, BasePrimed
<1>4. CASE Seek \/ SeekFails
  <2>1. /\ seeking # NoSeek /\ seeking' = NoSeek
        /\ HandsOn(st) /\ pc' # "seek" /\ st'.seek = st.seek
        /\ UNCHANGED <<log, rebalancing, ended, assigned, topics, gone, uncounted>>
    BY <1>4, SeekEffect
  <2>2. LoopOK'
    <3>1. /\ st \in States /\ Keyed(st) /\ st.replayed \subseteq st.known
          /\ (st.seek.from < LogLen \/ st.seek = NoSeek)
      BY <1>0 DEF LoopOK
    <3>2. seeking' \in Seeks
      BY <2>1 DEF Seeks
    <3>3. \A k \in {st'.seek, seeking'} : k.from < LogLen \/ k = NoSeek
      BY <2>1, <3>1
    <3>. QED  BY <2>1, <3>1, <3>2, <3>3, HandedOn
  <2>3. (EventOK /\ TopicsOK)'
    BY <1>0, <2>1 DEF EventOK, rebalancing, TopicsOK, topics
  <2>4. CASE Seek
    <3>. DEFINE p == seeking.partition
                e == EarliestAtLeast(seeking.from)
    <3>1. seeking.bonder \in Bonders /\ seeking.from \in Int /\ seeking.from < LogLen
      BY <1>0, <2>1 DEF LoopOK, Seeks
    <3>2. e \in 0 .. LogLen
      BY <3>1 DEF EarliestAtLeast
    <3>3. CASE p \in assigned
      <4>1. /\ pos' = [pos EXCEPT ![p] = e] /\ stored' = [stored EXCEPT ![p] = None]
            /\ seeks' = [seeks EXCEPT ![seeking.bonder] = @ + 1] /\ faults' = faults
        BY <2>4, <3>3 DEF Seek
      <4>. HIDE DEF p, e
      <4>2. ClientOK'
        <5>1. p \in Partitions
          BY <1>0, <3>3 DEF ClientOK
        <5>2. \A q \in Partitions : q # p => pos'[q] = pos[q] /\ stored'[q] = stored[q]
          BY <1>0, <4>1 DEF ClientOK
        <5>3. stored'[p] = None
          BY <1>0, <4>1, <5>1 DEF ClientOK
        <5>4. pos' \in [Partitions -> 0 .. LogLen] /\ stored' \in [Partitions -> {None} \cup 0 .. LogLen]
          BY <1>0, <3>2, <4>1 DEF ClientOK
        <5>5. \A q \in Partitions : stored'[q] # None => stored'[q] = pos'[q]
          BY <1>0, <5>2, <5>3 DEF ClientOK
        <5>. QED  BY <1>0, <2>1, <5>4, <5>5 DEF ClientOK
      <4>3. seeks' \in [Bonders -> Nat]
        <5>. DEFINE x == seeking.bonder
        <5>1. seeks \in [Bonders -> Nat] /\ x \in Bonders /\ seeks' = [seeks EXCEPT ![x] = @ + 1]
          BY <1>0, <3>1, <4>1 DEF HistoryOK
        <5>. HIDE DEF x
        <5>2. seeks[x] \in Nat
          BY <5>1
        <5>3. seeks[x] + 1 \in Nat
          BY <5>2
        <5>. QED  BY ONLY <5>1, <5>3
      <4>4. HistoryOK'
        BY <1>0, <2>1, <4>1, <4>3 DEF HistoryOK
      <4>. QED  BY <2>2, <2>3, <4>2, <4>4, BasePrimed
    <3>4. CASE p \notin assigned
      <4>1. UNCHANGED <<pos, stored, seeks, faults>>
        BY <2>4, <3>4 DEF Seek
      <4>2. (ClientOK /\ HistoryOK)'
        BY <1>0, <2>1, <4>1 DEF ClientOK, HistoryOK
      <4>. QED  BY <2>2, <2>3, <4>2, BasePrimed
    <3>. QED  BY <3>3, <3>4
  <2>5. CASE SeekFails
    <3>1. UNCHANGED <<pos, stored, seeks>> /\ faults' = faults + 1 /\ faults < MaxFaults
      BY <2>5 DEF SeekFails, Fault, client
    <3>2. ClientOK'
      BY <1>0, <2>1, <3>1 DEF ClientOK
    <3>3. HistoryOK'
      BY <1>0, <2>1, <3>1 DEF HistoryOK
    <3>. QED  BY <2>2, <2>3, <3>2, <3>3, BasePrimed
  <2>. QED  BY <1>4, <2>4, <2>5
<1>5. CASE SendOutputs \/ SendMetrics
  <2>1. LoopOK' /\ UNCHANGED <<log, rebalancing, ended, client, committed, dlq, seeks, gone>>
    BY <1>5, SendEffect
  <2>2. (EventOK /\ ClientOK)'
    BY <1>0, <2>1 DEF EventOK, rebalancing, ClientOK, client
  <2>3. CASE SendOutputs
    <3>1. outputs' = outputs \cup Contents(flight.windows) /\ UNCHANGED <<counted, uncounted, faults>>
      BY <2>3 DEF SendOutputs, history
    <3>2. outputs' \subseteq Records
      BY <1>0, <3>1, MemoryType, MemoryParts DEF TopicsOK
    <3>3. (TopicsOK /\ HistoryOK)'
      BY <1>0, <2>1, <3>1, <3>2 DEF TopicsOK, HistoryOK
    <3>. QED  BY <2>1, <2>2, <3>3, BasePrimed
  <2>4. CASE SendMetrics
    <3>1. /\ outputs' = outputs
          /\ \/ counted' = counted + flight.consumed /\ UNCHANGED <<uncounted, faults>>
             \/ /\ faults < MaxFaults /\ faults' = faults + 1 /\ uncounted' = TRUE
                /\ UNCHANGED counted
      BY <2>4 DEF SendMetrics, Fault
    <3>2. flight.consumed \in Nat
      BY <1>0 DEF LoopOK, Flights
    <3>3. counted' \in Nat /\ faults' \in 0 .. MaxFaults /\ uncounted' \in BOOLEAN
      <4>1. counted \in Nat /\ faults \in 0 .. MaxFaults /\ uncounted \in BOOLEAN
        BY <1>0 DEF TopicsOK, HistoryOK
      <4>2. counted' \in Nat
        BY <3>1, <3>2, <4>1
      <4>3. faults' \in 0 .. MaxFaults
        BY <3>1, <4>1
      <4>4. uncounted' = uncounted \/ uncounted' = TRUE
        BY <3>1
      <4>. QED  BY <4>1, <4>2, <4>3, <4>4, Zenon
    <3>4. (TopicsOK /\ HistoryOK)'
      BY <1>0, <2>1, <3>1, <3>3 DEF TopicsOK, HistoryOK
    <3>. QED  BY <2>1, <2>2, <3>4, BasePrimed
  <2>. QED  BY <1>5, <2>3, <2>4
<1>6. CASE StreamEnds
  <2>1. /\ pc = "read" /\ faults < MaxFaults /\ faults' = faults + 1 /\ ended' = TRUE
        /\ TakeWindows(st) /\ since' = since
        /\ UNCHANGED <<log, rebalancing, seeking, client, topics, seeks, gone, uncounted>>
    BY <1>6 DEF StreamEnds, Fault
  <2>2. st \in States /\ since \in Nat /\ since < BatchSize /\ seeking = NoSeek
    BY <1>0, <2>1 DEF LoopOK
  <2>3. HandsOn(st) /\ pc' # "seek" /\ st'.seek = st.seek
    BY <2>1, <2>2, TakeWindowsEffect
  <2>4. LoopOK'
    <3>1. /\ Keyed(st) /\ st.replayed \subseteq st.known /\ seeking' \in Seeks
          /\ (st.seek.from < LogLen \/ st.seek = NoSeek)
      BY <1>0, <2>1 DEF LoopOK
    <3>2. \A k \in {st'.seek, seeking'} : k.from < LogLen \/ k = NoSeek
      BY <2>1, <2>2, <2>3, <3>1
    <3>. QED  BY <2>1, <2>2, <2>3, <3>1, <3>2, HandedOn
  <2>5. (EventOK /\ ClientOK /\ TopicsOK)'
    BY <1>0, <2>1 DEF EventOK, rebalancing, ClientOK, TopicsOK, client, topics
  <2>6. HistoryOK'
    BY <1>0, <2>1 DEF HistoryOK
  <2>. QED  BY <2>4, <2>5, <2>6, BasePrimed
<1>7. CASE RevokeEvent
  <2>1. /\ rb' \in [kind : {"revoke"}, parts : SUBSET Partitions]
        /\ faults < MaxFaults /\ faults' = faults + 1
        /\ granted' \subseteq granted
        /\ UNCHANGED <<log, pc, answerer, since, seeking, flight, ended, client, topics>>
        /\ UNCHANGED <<seeks, gone, uncounted>>
    BY <1>7, RevokeEffect
  <2>2. PICK bs \in SUBSET Bonders :
          /\ \A b \in bs : IsOpen(st, b) /\ st.window[b].start \in Offsets
          /\ IsClosed(st', st, bs, [b \in bs |-> st.window[b].start + WindowMs])
    BY <1>7, RevokeEffect
  <2>3. /\ st' \in States
        /\ st'.window = [b \in Bonders |-> IF b \in bs THEN NoWindow ELSE st.window[b]]
        /\ st'.replayed \subseteq st'.known
    BY <1>0, <2>2 DEF IsClosed, LoopOK
  <2>4. Keyed(st)'
    <3>1. \A b \in Bonders : IsOpen(st', b) => b \notin bs /\ st'.window[b] = st.window[b] /\ IsOpen(st, b)
      BY <2>3 DEF IsOpen, NoWindow
    <3>2. Keyed(st) /\ log' = log
      BY <1>0, <2>1 DEF LoopOK
    <3>. QED  BY ONLY <3>1, <3>2 DEF Keyed
  <2>5. st'.seek.from < LogLen \/ st'.seek = NoSeek
    <3>1. CASE st'.seek = st.seek
      BY <1>0, <3>1 DEF LoopOK
    <3>2. CASE st'.seek # st.seek
      <4>1. PICK b \in bs :
              st'.seek = [bonder |-> b, partition |-> st.window[b].partition,
                          from |-> [x \in bs |-> st.window[x].start + WindowMs][b] - ReplayMs]
        BY <2>2, <3>2 DEF IsClosed
      <4>. DEFINE e == [x \in bs |-> st.window[x].start + WindowMs][b]
                  k == st.window[b].start
      <4>2. e = k + WindowMs
        OBVIOUS
      <4>3. k \in Offsets
        BY <2>2
      <4>4. st'.seek.from = e - ReplayMs
        BY <4>1
      <4>. HIDE DEF e, k
      <4>. QED  BY <4>2, <4>3, <4>4 DEF Offsets
    <3>. QED  BY <3>1, <3>2
  <2>6. LoopOK'
    BY <1>0, <2>1, <2>3, <2>4, <2>5 DEF LoopOK
  <2>7. (ClientOK /\ TopicsOK)'
    BY <1>0, <2>1 DEF ClientOK, TopicsOK, client, topics
  <2>8. (EventOK /\ HistoryOK)'
    BY <1>0, <2>1 DEF EventOK, HistoryOK
  <2>. QED  BY <2>6, <2>7, <2>8, BasePrimed
<1>8. CASE Calls
  <2>1. /\ UNCHANGED <<log, st, since, seeking, flight, ended, outputs, dlq, counted, seeks, gone, uncounted>>
        /\ \/ pc' = pc
           \/ pc \in {"down", "commit"} /\ pc' = "read"
    BY <1>8 DEF Calls, GroupSteps, Open, OpenUnanswered, AssignEvent, Assign, Unassign, AnswerFails,
                ClientAssigns, ClientRevokes, CommitDeferred, Commit, topics, history
  <2>2. Keyed(st)'
    BY <1>0, <2>1 DEF LoopOK, Keyed, IsOpen
  <2>3. LoopOK'
    BY <1>0, <2>1, <2>2 DEF LoopOK
  <2>4. HistoryOK'
    <3>1. faults' = faults \/ (faults < MaxFaults /\ faults' = faults + 1)
      BY <1>8 DEF Calls, GroupSteps, Open, OpenUnanswered, AssignEvent, Assign, Unassign, AnswerFails,
                  ClientAssigns, ClientRevokes, CommitDeferred, Commit, Fault, history
    <3>2. faults' \in 0 .. MaxFaults
      BY <1>0, <3>1, SettingsAssumption DEF HistoryOK
    <3>. QED  BY <1>0, <2>1, <3>2 DEF HistoryOK
  <2>5. CASE Open \/ OpenUnanswered
    <3>1. UNCHANGED <<rb, granted, client, topics>> /\ answerer' \in {"loop", "client", "nobody"}
      BY <2>5 DEF Open, OpenUnanswered
    <3>. QED  BY <1>0, <2>1, <2>3, <2>4, <3>1, BasePrimed
              DEF EventOK, rebalancing, ClientOK, TopicsOK, client, topics
  <2>6. CASE GroupSteps
    <3>1. TopicsOK'
      <4>1. UNCHANGED topics
        BY <2>6 DEF GroupSteps, AssignEvent, Assign, Unassign, AnswerFails, ClientAssigns, ClientRevokes
      <4>. QED  BY <1>0, <4>1 DEF TopicsOK, topics
    <3>2. EventOK'
      <4>1. \/ rb' = rb \/ rb' = NoEvent
            \/ rb' \in [kind : {"assign"}, parts : SUBSET (Partitions \ granted)]
        BY <2>6 DEF GroupSteps, AssignEvent, Assign, Unassign, AnswerFails, ClientAssigns, ClientRevokes
      <4>2. granted' \subseteq Partitions /\ answerer' = answerer
        BY <1>0, <2>6 DEF EventOK, GroupSteps, AssignEvent, Assign, Unassign, AnswerFails, ClientAssigns,
                          ClientRevokes
      <4>3. rb' \in [kind : {"none", "assign", "revoke"}, parts : SUBSET Partitions]
        BY <1>0, <4>1 DEF EventOK, NoEvent
      <4>. QED  BY <1>0, <2>1, <4>2, <4>3 DEF EventOK
    <3>3. ClientOK'
      <4>1. CASE UNCHANGED client
        BY <1>0, <4>1 DEF ClientOK, client
      <4>2. CASE \E parts \in SUBSET Partitions : Take(parts)
        BY <2>6, <4>2, TakeEffect
      <4>3. CASE \E parts \in SUBSET Partitions : GiveUp(parts)
        BY <4>3, GiveUpEffect
      <4>4. rb.parts \in SUBSET Partitions /\ granted \in SUBSET Partitions
        BY <1>0 DEF EventOK
      <4>. QED  BY <2>6, <4>1, <4>2, <4>3, <4>4
                DEF GroupSteps, AssignEvent, Assign, Unassign, AnswerFails, ClientAssigns, ClientRevokes
    <3>. QED  BY <2>3, <2>4, <3>1, <3>2, <3>3, BasePrimed
  <2>7. CASE CommitDeferred
    <3>1. UNCHANGED <<rebalancing, client, topics>>
      BY <2>7 DEF CommitDeferred
    <3>. QED  BY <1>0, <2>1, <2>3, <2>4, <3>1, BasePrimed
              DEF EventOK, rebalancing, ClientOK, TopicsOK, client, topics
  <2>8. CASE Commit /\ ~Exit
    <3>1. UNCHANGED <<rebalancing, client, faults>> /\ committed' = StoredPositions
      BY <2>8 DEF Commit
    <3>2. committed' \in [Partitions -> 0 .. LogLen]
      BY <1>0, <3>1, CommitType
    <3>3. (TopicsOK /\ HistoryOK)'
      BY <1>0, <2>1, <3>1, <3>2 DEF TopicsOK, HistoryOK
    <3>. QED  BY <1>0, <2>1, <2>3, <3>1, <3>3, BasePrimed DEF EventOK, rebalancing, ClientOK, client
  <2>. QED  BY <1>8, <2>5, <2>6, <2>7, <2>8 DEF Calls
<1>9. CASE Exits
  <2>1. Exit /\ counted' = counted /\ faults' \in 0 .. MaxFaults
    <3>1. Exit /\ counted' = counted /\ (faults' = faults \/ (faults < MaxFaults /\ faults' = faults + 1))
      BY <1>9 DEF Exits, Commit, CommitFails, SendFails, Crash, DeadLetterFails, Fault, topics
    <3>. QED  BY <1>0, <3>1 DEF HistoryOK
  <2>2. /\ LoopOK' /\ EventOK' /\ ClientOK' /\ gone' \subseteq Records /\ seeks' \in [Bonders -> Nat]
        /\ uncounted' = TRUE
    BY <2>1, ExitEffect
  <2>3. /\ committed' \in {committed, StoredPositions}
        /\ outputs' \in {outputs, outputs \cup Contents(flight.windows)}
        /\ dlq' \in {dlq, dlq \cup flight.letter}
    BY <1>9 DEF Exits, Commit, CommitFails, SendFails, Crash, DeadLetterFails, topics
  <2>4. committed' \in [Partitions -> 0 .. LogLen]
    BY <1>0, <2>3, CommitType DEF TopicsOK
  <2>5. outputs' \subseteq Records
    BY <1>0, <2>3, MemoryType, MemoryParts DEF TopicsOK
  <2>6. dlq' \subseteq Records
    <3>1. flight.letter \subseteq Records
      BY <1>0 DEF LoopOK, Flights
    <3>. QED  BY <1>0, <2>3, <3>1 DEF TopicsOK
  <2>7. TopicsOK'
    BY <1>0, <2>1, <2>4, <2>5, <2>6 DEF TopicsOK
  <2>8. HistoryOK'
    BY <2>1, <2>2 DEF HistoryOK
  <2>. QED  BY <2>2, <2>7, <2>8, BasePrimed
<1>10. CASE UNCHANGED vars
  <2>1. UNCHANGED <<log, pc, rebalancing, st, since, seeking, flight, ended, assigned, pos, stored,
                    committed, outputs, dlq, counted, seeks, gone, uncounted, faults>>
    BY <1>10 DEF vars, process, rebalancing, client, topics, history
  <2>2. LoopOK'
    <3>1. Keyed(st)'
      BY <1>0, <2>1 DEF LoopOK, Keyed, IsOpen
    <3>. QED  BY <1>0, <2>1, <3>1 DEF LoopOK
  <2>3. (EventOK /\ ClientOK)'
    BY <1>0, <2>1 DEF EventOK, ClientOK, rebalancing
  <2>4. (TopicsOK /\ HistoryOK)'
    BY <1>0, <2>1 DEF TopicsOK, HistoryOK
  <2>. QED  BY <2>2, <2>3, <2>4, BasePrimed
<1>. QED  BY <1>1, <1>2, <1>3, <1>4, <1>5, <1>6, <1>7, <1>8, <1>9, <1>10, Cases

(***************************************************************************)
(* A bonder's replay happens once in a life of the process.                *)
(***************************************************************************)

\* The replays of a bonder: one being asked for or sought, and one allowed.
Turn(k, b) == IF k.bonder = b THEN 1 ELSE 0
Allowed(replayed, b) == IF b \in replayed THEN 1 ELSE 0

\* The replay invariant in the terms of Turn and Allowed.
LEMMA ReplayTerms ==
  /\ ReplayInv <=> \A b \in Bonders :
       seeks[b] + Turn(st.seek, b) + Turn(seeking, b) <= Allowed(st.replayed, b)
  /\ \A b \in Bonders : Turn(NoSeek, b) = 0
  /\ \A k, b : Turn(k, b) \in {0, 1}
<1>1. \A b \in Bonders : b # None
  BY SettingsAssumption DEF None
<1>2. \A b \in Bonders : Turn(NoSeek, b) = 0
  BY <1>1 DEF Turn, NoSeek
<1>. QED  BY <1>2 DEF ReplayInv, Turn, Allowed

\* A step without a replay keeps the replay invariant.
LEMMA ReplayKept ==
  Base /\ ReplayInv /\ seeks' = seeks /\ st'.seek = st.seek /\ seeking' = seeking
    /\ st'.replayed = st.replayed => ReplayInv'
BY DEF ReplayInv

\* A step keeps the replay invariant.
LEMMA StepReplay == Base /\ ReplayInv /\ [Next]_vars => ReplayInv'
<1>. SUFFICES ASSUME Base, ReplayInv, [Next]_vars PROVE ReplayInv'
  OBVIOUS
<1>0. LoopOK /\ HistoryOK
  BY BaseParts
<1>01. \A b \in Bonders : /\ seeks[b] \in Nat
                          /\ seeks[b] + Turn(st.seek, b) + Turn(seeking, b) <= Allowed(st.replayed, b)
  BY <1>0, ReplayTerms DEF HistoryOK
<1>02. (\A b \in Bonders : seeks'[b] + Turn(st'.seek, b) + Turn(seeking', b) <= Allowed(st'.replayed, b))
       => ReplayInv'
  BY DEF ReplayInv, Turn, Allowed
\* A step that leaves the State s, whose request for a replay is on its way.
<1>03. ASSUME NEW s \in States, EndsWith(s), seeking = NoSeek, seeks' = seeks,
              \/ s.replayed = st.replayed /\ s.seek = st.seek
              \/ \E b \in Bonders : /\ b \notin st.replayed /\ b \in s.replayed
                                    /\ st.replayed \subseteq s.replayed /\ s.seek.bonder = b
       PROVE  ReplayInv'
  <2>1. st'.replayed = s.replayed /\ st'.seek = NoSeek /\ seeking' = s.seek
    BY <1>03 DEF EndsWith, HandsOn
  <2>2. \A b \in Bonders : seeks'[b] + Turn(st'.seek, b) + Turn(seeking', b) <= Allowed(st'.replayed, b)
    <3>. TAKE b \in Bonders
    <3>1. Turn(st'.seek, b) = 0 /\ Turn(seeking, b) = 0 /\ seeks'[b] = seeks[b]
      BY <1>03, <2>1, ReplayTerms
    <3>2. CASE s.replayed = st.replayed /\ s.seek = st.seek
      BY <1>01, <2>1, <3>1, <3>2, ReplayTerms
    <3>3. ASSUME NEW c \in Bonders, c \notin st.replayed, c \in s.replayed,
                 st.replayed \subseteq s.replayed, s.seek.bonder = c
          PROVE  seeks'[b] + Turn(st'.seek, b) + Turn(seeking', b) <= Allowed(st'.replayed, b)
      <4>1. Allowed(st.replayed, b) <= Allowed(s.replayed, b)
        BY <3>3 DEF Allowed
      <4>2. CASE b = c
        <5>1. Allowed(st.replayed, b) = 0 /\ Allowed(s.replayed, b) = 1
          BY <3>3, <4>2 DEF Allowed
        <5>2. seeks[b] = 0
          BY <1>01, <5>1, ReplayTerms
        <5>. QED  BY <2>1, <3>1, <5>1, <5>2, ReplayTerms
      <4>3. CASE b # c
        <5>1. Turn(seeking', b) = 0
          BY <2>1, <3>3, <4>3 DEF Turn
        <5>2. Turn(st.seek, b) \in {0, 1} /\ Allowed(st.replayed, b) \in {0, 1} /\ Allowed(s.replayed, b) \in {0, 1}
          BY DEF Turn, Allowed
        <5>. QED  BY <1>01, <2>1, <3>1, <4>1, <5>1, <5>2
      <4>. QED  BY <4>2, <4>3
    <3>. QED  BY <1>03, <3>2, <3>3
  <2>. QED  BY <1>02, <2>2
<1>1. ASSUME NEW p \in Partitions, Deliver(p) PROVE ReplayInv'
  <2>1. PICK s \in States :
          /\ EndsWith(s)
          /\ \/ log[<<p, pos[p]>>] = Tombstone /\ IsTallied(s, st)
             \/ log[<<p, pos[p]>>] \in Bonders
                  /\ IsIngested(s, st, p, pos[p], log[<<p, pos[p]>>])
    BY <1>1, DeliverEffect
  <2>2. seeking = NoSeek /\ seeks' = seeks
    <3>1. pc = "read" /\ UNCHANGED history
      BY <1>1, DeliverEffect, Moves
    <3>. QED  BY <1>0, <3>1 DEF LoopOK, history
  <2>3. \/ s.replayed = st.replayed /\ s.seek = st.seek
        \/ \E b \in Bonders : /\ b \notin st.replayed /\ b \in s.replayed
                              /\ st.replayed \subseteq s.replayed /\ s.seek.bonder = b
    <3>1. CASE IsTallied(s, st)
      BY <3>1 DEF IsTallied
    <3>2. ASSUME NEW b \in Bonders, IsIngested(s, st, p, pos[p], b)
          PROVE  \/ s.replayed = st.replayed /\ s.seek = st.seek
                 \/ /\ b \notin st.replayed /\ b \in s.replayed
                    /\ st.replayed \subseteq s.replayed /\ s.seek.bonder = b
      BY <3>2 DEF IsIngested
    <3>. QED  BY <2>1, <3>1, <3>2
  <2>. QED  BY <1>03, <2>1, <2>2, <2>3
<1>2. ASSUME NEW p \in Partitions, DeliverMalformed(p) PROVE ReplayInv'
  <2>1. UNCHANGED <<st, seeking, seeks>>
    BY <1>2 DEF DeliverMalformed, history
  <2>. QED  BY <2>1, ReplayKept
<1>3. CASE DeadLettered
  <2>1. PICK s \in States : EndsWith(s) /\ IsTallied(s, st)
    BY <1>3, DeadLetteredEffect
  <2>2. seeking = NoSeek /\ seeks' = seeks
    <3>1. pc = "dead_letter" /\ UNCHANGED history
      BY <1>3, DeadLetteredEffect
    <3>. QED  BY <1>0, <3>1 DEF LoopOK, history
  <2>3. s.replayed = st.replayed /\ s.seek = st.seek
    BY <2>1 DEF IsTallied
  <2>. QED  BY <1>03, <2>1, <2>2, <2>3
<1>4. CASE Seek \/ SeekFails
  <2>1. /\ seeking # NoSeek /\ seeking' = NoSeek /\ st'.seek = st.seek /\ st'.replayed = st.replayed
    BY <1>4, SeekEffect DEF HandsOn
  <2>2. seeking.bonder \in Bonders
    BY <1>0, <2>1 DEF LoopOK, Seeks
  <2>3. \A b \in Bonders : seeks'[b] <= seeks[b] + Turn(seeking, b) /\ seeks'[b] \in Nat
    <3>1. UNCHANGED seeks \/ seeks' = [seeks EXCEPT ![seeking.bonder] = @ + 1]
      BY <1>4 DEF Seek, SeekFails
    <3>. DEFINE c == seeking.bonder
    <3>2. c \in Bonders /\ \A b \in Bonders : Turn(seeking, b) = IF b = c THEN 1 ELSE 0
      BY <2>2 DEF Turn
    <3>3. seeks \in [Bonders -> Nat]
      BY <1>0 DEF HistoryOK
    <3>. HIDE DEF c
    <3>4. \A b \in Bonders : seeks'[b] = seeks[b] \/ (b = c /\ seeks'[b] = seeks[b] + 1)
      BY <3>1, <3>2, <3>3 DEF c
    <3>. QED  BY <1>01, <3>2, <3>4
  <2>4. \A b \in Bonders : seeks'[b] + Turn(st'.seek, b) + Turn(seeking', b) <= Allowed(st'.replayed, b)
    <3>. TAKE b \in Bonders
    <3>1. /\ Turn(seeking', b) = 0 /\ Turn(st'.seek, b) = Turn(st.seek, b)
          /\ Allowed(st'.replayed, b) = Allowed(st.replayed, b)
          /\ Turn(st.seek, b) \in {0, 1} /\ Turn(seeking, b) \in {0, 1}
          /\ Allowed(st.replayed, b) \in {0, 1}
      BY <2>1, ReplayTerms DEF Allowed
    <3>. QED  BY <1>01, <2>3, <3>1
  <2>. QED  BY <1>02, <2>4
<1>5. CASE SendOutputs \/ SendMetrics
  BY <1>5, SendEffect, ReplayKept
<1>6. CASE StreamEnds
  <2>1. UNCHANGED <<seeking, seeks>> /\ st' = [st EXCEPT !.pending = <<>>, !.consumed = 0]
    BY <1>6 DEF StreamEnds, TakeWindows
  <2>2. st'.seek = st.seek /\ st'.replayed = st.replayed
    BY <1>0, <2>1 DEF LoopOK, States
  <2>. QED  BY <2>1, <2>2, ReplayKept
<1>7. CASE RevokeEvent
  <2>1. seeks' = seeks /\ seeking' = seeking
    BY <1>7, RevokeEffect
  <2>2. PICK bs \in SUBSET Bonders :
          IsClosed(st', st, bs, [b \in bs |-> st.window[b].start + WindowMs])
    BY <1>7, RevokeEffect
  <2>3. CASE st'.replayed = st.replayed /\ st'.seek = st.seek
    BY <2>1, <2>3, ReplayKept
  <2>4. ASSUME NEW c \in Bonders, c \notin st.replayed, c \in st'.replayed,
               st.replayed \subseteq st'.replayed, st'.seek.bonder = c
        PROVE  ReplayInv'
    <3>1. \A b \in Bonders : seeks'[b] + Turn(st'.seek, b) + Turn(seeking', b) <= Allowed(st'.replayed, b)
      <4>. TAKE b \in Bonders
      <4>1. /\ Turn(seeking, b) \in {0, 1} /\ Turn(st.seek, b) \in {0, 1}
            /\ Allowed(st.replayed, b) \in {0, 1} /\ Allowed(st'.replayed, b) \in {0, 1}
            /\ Allowed(st.replayed, b) <= Allowed(st'.replayed, b)
            /\ Turn(st'.seek, b) = IF b = c THEN 1 ELSE 0
            /\ (b = c => Allowed(st.replayed, b) = 0 /\ Allowed(st'.replayed, b) = 1)
            /\ Turn(seeking', b) = Turn(seeking, b) /\ seeks'[b] = seeks[b]
        BY <2>1, <2>4 DEF Turn, Allowed
      <4>. QED  BY <1>01, <4>1
    <3>. QED  BY <1>02, <3>1
  <2>5. \/ st'.replayed = st.replayed /\ st'.seek = st.seek
        \/ \E c \in Bonders : /\ c \notin st.replayed /\ c \in st'.replayed
                              /\ st.replayed \subseteq st'.replayed /\ st'.seek.bonder = c
    <3>. DEFINE e == [b \in bs |-> st.window[b].start + WindowMs]
    <3>1. IsClosed(st', st, bs, e)
      BY <2>2
    <3>. HIDE DEF e
    <3>. SUFFICES ASSUME ~(st'.replayed = st.replayed /\ st'.seek = st.seek)
                  PROVE  \E c \in Bonders : /\ c \notin st.replayed /\ c \in st'.replayed
                              /\ st.replayed \subseteq st'.replayed /\ st'.seek.bonder = c
      OBVIOUS
    <3>2. PICK c \in bs : /\ c \notin st.replayed /\ c \in st'.replayed /\ st.replayed \subseteq st'.replayed
                          /\ st'.seek = [bonder |-> c, partition |-> st.window[c].partition,
                                        from |-> e[c] - ReplayMs]
      BY <3>1 DEF IsClosed
    <3>. QED  BY <3>2
  <2>. QED  BY <2>3, <2>4, <2>5
<1>8. CASE Calls
  <2>1. UNCHANGED <<st, seeking, seeks>>
    BY <1>8 DEF Calls, GroupSteps, Open, OpenUnanswered, AssignEvent, Assign, Unassign, AnswerFails,
                ClientAssigns, ClientRevokes, CommitDeferred, Commit, history
  <2>. QED  BY <2>1, ReplayKept
<1>9. CASE Exits
  <2>1. Exit
    BY <1>9 DEF Exits, CommitFails, SendFails, Crash, DeadLetterFails
  <2>2. st' = Fresh /\ seeking' = NoSeek /\ \A b \in Bonders : seeks'[b] = 0
    BY <2>1, ExitEffect
  <2>3. \A b \in Bonders : seeks'[b] + Turn(st'.seek, b) + Turn(seeking', b) <= Allowed(st'.replayed, b)
    <3>. TAKE b \in Bonders
    <3>1. Fresh.seek = NoSeek
      BY DEF Fresh
    <3>2. Turn(st'.seek, b) = 0 /\ Turn(seeking', b) = 0 /\ seeks'[b] = 0
      BY <2>2, <3>1, ReplayTerms
    <3>. QED  BY <3>2 DEF Allowed
  <2>. QED  BY <1>02, <2>3
<1>10. CASE UNCHANGED vars
  BY <1>10, ReplayKept DEF vars, process, rebalancing, history
<1>. QED  BY <1>1, <1>2, <1>3, <1>4, <1>5, <1>6, <1>7, <1>8, <1>9, <1>10, Cases

(***************************************************************************)
(* No record vanishes.                                                     *)
(***************************************************************************)

\* No record is lost, nor is one that a position may yet be moved past.
Safe == NothingVanishes /\ Passed \subseteq Held

\* A record is a partition and an offset.
LEMMA RecordType ==
  \A r \in Records : /\ r[1] \in Partitions /\ r[2] \in Offsets /\ r[2] \in Nat /\ r[2] < LogLen
                     /\ r = <<r[1], r[2]>>
BY SettingsAssumption DEF Records, Offsets

\* Outside a send, memory is what the State keeps.
LEMMA MemoryAt == Base /\ pc # "send" => InMemory = Kept(st)
<1>. HAVE Base /\ pc # "send"
<1>1. flight.windows = <<>>
  BY BaseParts DEF LoopOK
<1>. QED  BY <1>1, MemoryParts, ContentsNone

\* A step keeps Safe when it commits nothing and the records it passes anew are
\* held.
LEMMA SafeKept ==
  Safe => \A N :
    /\ log' = log /\ committed' = committed
    /\ dlq \subseteq dlq' /\ dlq \cup flight.letter \subseteq dlq' \cup flight'.letter
    /\ outputs \cup InMemory \cup gone \subseteq outputs' \cup InMemory' \cup gone'
    /\ Passed' \subseteq Passed \cup N /\ N \subseteq Held'
    => Safe'
<1>. HAVE Safe
<1>. TAKE N
<1>. HAVE /\ log' = log /\ committed' = committed
          /\ dlq \subseteq dlq' /\ dlq \cup flight.letter \subseteq dlq' \cup flight'.letter
          /\ outputs \cup InMemory \cup gone \subseteq outputs' \cup InMemory' \cup gone'
          /\ Passed' \subseteq Passed \cup N /\ N \subseteq Held'
<1>1. NothingVanishes'
  <2>. SUFFICES ASSUME NEW r \in Records, r[2] < committed[r[1]]
                PROVE  /\ log[r] \in Bonders => r \in outputs' \cup InMemory' \cup gone'
                       /\ log[r] = Malformed => r \in dlq'
    BY DEF NothingVanishes, Bonds
  <2>1. /\ log[r] \in Bonders => r \in outputs \cup InMemory \cup gone
        /\ log[r] = Malformed => r \in dlq
    BY DEF Safe, NothingVanishes, Bonds
  <2>. QED  BY <2>1
<1>2. Held \subseteq Held'
  BY DEF Held, Bonds
<1>. QED  BY <1>1, <1>2 DEF Safe

\* A position may move to the front of what is passed, and a replay be dropped.
LEMMA PassedKept ==
    /\ Base
    /\ \A r \in Records : r[2] < pos'[r[1]] \/ r[2] < committed'[r[1]] => r \in Passed
    /\ \A k \in {st'.seek, seeking'} : k \in {st.seek, seeking, NoSeek}
    /\ \A b \in Bonders : \/ st'.window[b] = NoWindow
                          \/ /\ st'.window[b].start = st.window[b].start
                             /\ st'.window[b].partition = st.window[b].partition
    => Passed' \subseteq Passed
<1>. HAVE /\ Base
          /\ \A r \in Records : r[2] < pos'[r[1]] \/ r[2] < committed'[r[1]] => r \in Passed
          /\ \A k \in {st'.seek, seeking'} : k \in {st.seek, seeking, NoSeek}
          /\ \A b \in Bonders : \/ st'.window[b] = NoWindow
                                \/ /\ st'.window[b].start = st.window[b].start
                                   /\ st'.window[b].partition = st.window[b].partition
<1>. SUFFICES ASSUME NEW r \in Records, r \in Passed' PROVE r \in Passed
  BY DEF Passed
<1>1. r[2] \in Nat
  BY RecordType
<1>2. CASE r[2] < pos'[r[1]] \/ r[2] < committed'[r[1]]
  BY <1>2 DEF Passed
<1>3. ASSUME NEW k \in {st'.seek, seeking'}, k.partition = r[1], r[2] < k.from PROVE r \in Passed
  <2>1. k # NoSeek
    BY <1>1, <1>3 DEF NoSeek
  <2>. QED  BY <1>3, <2>1 DEF Passed
<1>4. ASSUME NEW b \in Bonders, st'.window[b].partition = r[1], r[2] < st'.window[b].start
      PROVE  r \in Passed
  <2>1. st'.window[b] # NoWindow
    BY <1>1, <1>4 DEF NoWindow, None
  <2>. QED  BY <1>4, <2>1 DEF Passed
<1>. QED  BY <1>2, <1>3, <1>4 DEF Passed

\* A record handed out is the one record its iteration passes.
LEMMA PassedOver ==
  Base => \A p \in Partitions :
    /\ MovesOver(p) /\ committed' = committed
    /\ \A k \in {st'.seek, seeking'} :
         \/ k \in {st.seek, seeking, NoSeek}
         \/ k.partition = p /\ k.from = pos[p] - ReplayMs
    /\ \A b \in Bonders : \/ /\ st'.window[b].start = st.window[b].start
                             /\ st'.window[b].partition = st.window[b].partition
                          \/ st'.window[b].start = pos[p] /\ st'.window[b].partition = p
    => Passed' \subseteq Passed \cup {<<p, pos[p]>>}
<1>. HAVE Base
<1>. TAKE p \in Partitions
<1>. HAVE /\ MovesOver(p) /\ committed' = committed
          /\ \A k \in {st'.seek, seeking'} :
               \/ k \in {st.seek, seeking, NoSeek}
               \/ k.partition = p /\ k.from = pos[p] - ReplayMs
          /\ \A b \in Bonders : \/ /\ st'.window[b].start = st.window[b].start
                                   /\ st'.window[b].partition = st.window[b].partition
                                \/ st'.window[b].start = pos[p] /\ st'.window[b].partition = p
<1>. SUFFICES ASSUME NEW r \in Records, r \in Passed', r # <<p, pos[p]>> PROVE r \in Passed
  BY DEF Passed
<1>0. r[2] \in Nat /\ r[1] \in Partitions /\ (r[1] = p => r[2] # pos[p])
  BY RecordType
<1>1. pos[p] \in Nat /\ ReplayMs \in Nat
  BY SettingsAssumption DEF MovesOver, Offsets
<1>2. r[1] = p /\ r[2] < pos[p] => r \in Passed
  BY DEF Passed
<1>3. CASE r[2] < pos'[r[1]]
  <2>1. pos \in [Partitions -> 0 .. LogLen] /\ pos' = [pos EXCEPT ![p] = pos[p] + 1]
    BY BaseParts DEF MovesOver, ClientOK
  <2>2. pos'[r[1]] = IF r[1] = p THEN pos[p] + 1 ELSE pos[r[1]]
    BY <1>0, <2>1
  <2>3. CASE r[1] = p
    <3>1. r[2] < pos[p] + 1 /\ r[2] # pos[p]
      BY <1>0, <1>3, <2>2, <2>3
    <3>. QED  BY <1>0, <1>1, <1>2, <2>3, <3>1
  <2>4. CASE r[1] # p
    BY <1>3, <2>2, <2>4 DEF Passed
  <2>. QED  BY <2>3, <2>4
<1>4. CASE r[2] < committed'[r[1]]
  BY <1>4 DEF Passed
<1>5. ASSUME NEW k \in {st'.seek, seeking'}, k.partition = r[1], r[2] < k.from PROVE r \in Passed
  <2>1. k # NoSeek
    BY <1>0, <1>5 DEF NoSeek
  <2>2. CASE k \in {st.seek, seeking}
    BY <1>5, <2>2 DEF Passed
  <2>3. CASE k.partition = p /\ k.from = pos[p] - ReplayMs
    BY <1>0, <1>1, <1>2, <1>5, <2>3
  <2>. QED  BY <2>1, <2>2, <2>3
<1>6. ASSUME NEW b \in Bonders, st'.window[b].partition = r[1], r[2] < st'.window[b].start
      PROVE  r \in Passed
  <2>1. CASE /\ st'.window[b].start = st.window[b].start
             /\ st'.window[b].partition = st.window[b].partition
    BY <1>6, <2>1 DEF Passed
  <2>2. CASE st'.window[b].start = pos[p] /\ st'.window[b].partition = p
    BY <1>2, <1>6, <2>2
  <2>. QED  BY <2>1, <2>2
<1>. QED  BY <1>3, <1>4, <1>5, <1>6 DEF Passed

\* A step that moves no position passes no record.
LEMMA PassedStays ==
    /\ Base
    /\ pos' = pos /\ committed' = committed
    /\ \A k \in {st'.seek, seeking'} : k \in {st.seek, seeking, NoSeek}
    /\ \A b \in Bonders : \/ st'.window[b] = NoWindow
                          \/ /\ st'.window[b].start = st.window[b].start
                             /\ st'.window[b].partition = st.window[b].partition
    => Passed' \subseteq Passed
<1>1. pos' = pos /\ committed' = committed =>
        \A r \in Records : r[2] < pos'[r[1]] \/ r[2] < committed'[r[1]] => r \in Passed
  BY DEF Passed
<1>. QED  BY <1>1, PassedKept

\* What a commit commits is passed, and safe.
LEMMA CommitSafe ==
  Base /\ Safe /\ (committed' = committed \/ (pc = "commit" /\ committed' = StoredPositions)) =>
    \A r \in Records : r[2] < committed'[r[1]] =>
      /\ r \in Passed
      /\ r \in Bonds => r \in outputs \cup InMemory \cup gone
      /\ log[r] = Malformed => r \in dlq
<1>. HAVE Base /\ Safe /\ (committed' = committed \/ (pc = "commit" /\ committed' = StoredPositions))
<1>. TAKE r \in Records
<1>. HAVE r[2] < committed'[r[1]]
<1>0. r[1] \in Partitions
  BY RecordType
<1>1. CASE committed' = committed
  BY <1>1 DEF Safe, NothingVanishes, Passed
<1>2. CASE pc = "commit" /\ committed' = StoredPositions
  <2>1. flight.letter = {}
    BY <1>2, BaseParts DEF LoopOK
  <2>2. r[2] < committed[r[1]] \/ (stored[r[1]] # None /\ r[2] < stored[r[1]])
    BY <1>0, <1>2 DEF StoredPositions
  <2>3. stored[r[1]] # None => stored[r[1]] = pos[r[1]]
    BY <1>0, BaseParts DEF ClientOK
  <2>4. r \in Passed
    BY <2>2, <2>3 DEF Passed
  <2>. QED  BY <2>1, <2>4 DEF Safe, Held
<1>. QED  BY <1>1, <1>2

\* The exit of a process: what it held of the committed records is in `gone`.
LEMMA ExitSafe ==
  Base /\ Safe /\ Exit /\ (committed' = committed \/ (pc = "commit" /\ committed' = StoredPositions))
    /\ outputs \subseteq outputs' /\ dlq \subseteq dlq' => Safe'
<1>. HAVE Base /\ Safe /\ Exit /\ (committed' = committed \/ (pc = "commit" /\ committed' = StoredPositions))
            /\ outputs \subseteq outputs' /\ dlq \subseteq dlq'
<1>1. /\ log' = log /\ st' = Fresh /\ seeking' = NoSeek /\ InMemory' = {}
      /\ \A p \in Partitions : pos'[p] = 0
      /\ gone' = gone \cup {r \in InMemory : r[2] < committed'[r[1]]}
  BY ExitEffect
<1>2. \A r \in Records : r[2] < committed'[r[1]] =>
        /\ log[r] \in Bonders => r \in outputs' \cup InMemory' \cup gone'
        /\ log[r] = Malformed => r \in dlq'
  <2>. TAKE r \in Records
  <2>. HAVE r[2] < committed'[r[1]]
  <2>1. /\ r \in Bonds => r \in outputs \cup InMemory \cup gone
        /\ log[r] = Malformed => r \in dlq
    BY CommitSafe
  <2>2. r \in InMemory => r \in gone'
    BY <1>1
  <2>. QED  BY <1>1, <2>1, <2>2 DEF Bonds
<1>3. NothingVanishes'
  BY <1>1, <1>2 DEF NothingVanishes, Bonds
<1>4. \A r \in Passed' : r \in Records /\ r[2] < committed'[r[1]]
  <2>. SUFFICES ASSUME NEW r \in Records, r \in Passed', ~(r[2] < committed'[r[1]]) PROVE FALSE
    BY DEF Passed
  <2>1. r[1] \in Partitions /\ r[2] \in Nat
    BY RecordType
  <2>2. ~(r[2] < pos'[r[1]])
    BY <1>1, <2>1
  <2>3. \A k \in {st'.seek, seeking'} : ~(r[2] < k.from)
    BY <1>1, <2>1 DEF Fresh, NoSeek
  <2>4. \A b \in Bonders : ~(r[2] < st'.window[b].start)
    BY <1>1, <2>1 DEF Fresh, NoWindow, None
  <2>. QED  BY <2>2, <2>3, <2>4 DEF Passed
<1>5. Passed' \subseteq Held'
  BY <1>1, <1>2, <1>4 DEF Held, Bonds
<1>. QED  BY <1>3, <1>5 DEF Safe

\* What a step passes: the record it hands out, or nothing new.
LEMMA PassedStep ==
  Base /\ Safe =>
    /\ \A p \in Partitions :
         Deliver(p) \/ DeliverMalformed(p) => Passed' \subseteq Passed \cup {<<p, pos[p]>>}
    /\ DeadLettered \/ Seek \/ SeekFails \/ SendOutputs \/ SendMetrics \/ StreamEnds \/ RevokeEvent \/ Calls
         => Passed' \subseteq Passed
<1>. HAVE Base /\ Safe
<1>0. LoopOK /\ EventOK /\ ClientOK /\ TopicsOK
  BY BaseParts
<1>1. ASSUME NEW p \in Partitions, Deliver(p) PROVE Passed' \subseteq Passed \cup {<<p, pos[p]>>}
  <2>. DEFINE r == <<p, pos[p]>>
  <2>1. MovesOver(p) /\ committed' = committed
    BY <1>1, DeliverEffect DEF topics
  <2>2. PICK s \in States :
          /\ EndsWith(s)
          /\ \/ log[r] = Tombstone /\ IsTallied(s, st)
             \/ log[r] \in Bonders /\ IsIngested(s, st, p, pos[p], log[r])
    BY <1>1, DeliverEffect
  <2>3. st'.seek = NoSeek /\ seeking' = s.seek /\ st'.window = s.window
    BY <2>2 DEF EndsWith, HandsOn
  <2>4. s.seek = st.seek \/ (s.seek.partition = p /\ s.seek.from = pos[p] - ReplayMs)
    <3>1. CASE IsTallied(s, st)
      BY <3>1 DEF IsTallied
    <3>2. CASE IsIngested(s, st, p, pos[p], log[r])
      <4>. HIDE DEF r
      <4>. QED  BY <3>2 DEF IsIngested
    <3>. QED  BY <2>2, <3>1, <3>2
  <2>5. \A b \in Bonders :
          \/ s.window[b].start = st.window[b].start /\ s.window[b].partition = st.window[b].partition
          \/ s.window[b].start = pos[p] /\ s.window[b].partition = p
    <3>1. CASE IsTallied(s, st)
      BY <3>1 DEF IsTallied
    <3>2. CASE IsIngested(s, st, p, pos[p], log[r])
      <4>. HIDE DEF r
      <4>. QED  BY <3>2 DEF IsIngested
    <3>. QED  BY <2>2, <3>1, <3>2
  <2>6. \A k \in {st'.seek, seeking'} :
          k \in {st.seek, seeking, NoSeek} \/ (k.partition = p /\ k.from = pos[p] - ReplayMs)
    BY <2>3, <2>4
  <2>7. \A b \in Bonders :
          \/ st'.window[b].start = st.window[b].start /\ st'.window[b].partition = st.window[b].partition
          \/ st'.window[b].start = pos[p] /\ st'.window[b].partition = p
    BY <2>3, <2>5
  <2>. QED  BY <2>1, <2>6, <2>7, PassedOver
<1>2. ASSUME NEW p \in Partitions, DeliverMalformed(p) PROVE Passed' \subseteq Passed \cup {<<p, pos[p]>>}
  <2>1. MovesOver(p) /\ UNCHANGED <<st, seeking, committed>>
    BY <1>2, Moves DEF DeliverMalformed, topics
  <2>. QED  BY <2>1, PassedOver
<1>3. CASE DeadLettered
  <2>1. pos' = pos /\ committed' = committed
    BY <1>3, DeadLetteredEffect DEF client
  <2>2. PICK s \in States : EndsWith(s) /\ IsTallied(s, st)
    BY <1>3, DeadLetteredEffect
  <2>3. st'.seek = NoSeek /\ seeking' = st.seek /\ st'.window = st.window
    BY <2>2 DEF EndsWith, HandsOn, IsTallied
  <2>. QED  BY <2>1, <2>3, PassedStays
<1>4. CASE Seek \/ SeekFails
  <2>1. /\ seeking # NoSeek /\ seeking' = NoSeek /\ st'.seek = st.seek /\ st'.window = st.window
        /\ committed' = committed
    BY <1>4, SeekEffect DEF HandsOn, topics
  <2>2. \A r \in Records : r[2] < pos'[r[1]] \/ r[2] < committed'[r[1]] => r \in Passed
    <3>. TAKE r \in Records
    <3>1. r[1] \in Partitions /\ r[2] \in Nat
      BY RecordType
    <3>2. r[2] < committed'[r[1]] => r \in Passed
      BY <2>1 DEF Passed
    <3>3. ASSUME r[2] < pos'[r[1]] PROVE r \in Passed
      <4>1. CASE pos' = pos
        BY <3>3, <4>1 DEF Passed
      <4>2. CASE pos' # pos
        <5>1. pos' = [pos EXCEPT ![seeking.partition] = EarliestAtLeast(seeking.from)]
          BY <1>4, <4>2 DEF Seek, SeekFails, client
        <5>2. CASE r[1] # seeking.partition
          <6>1. pos'[r[1]] = pos[r[1]]
            BY <1>0, <3>1, <5>1, <5>2 DEF ClientOK
          <6>. QED  BY <3>3, <6>1 DEF Passed
        <5>3. CASE r[1] = seeking.partition
          <6>1. pos'[r[1]] = EarliestAtLeast(seeking.from)
            BY <1>0, <3>1, <5>1, <5>3 DEF ClientOK
          <6>2. r[2] < seeking.from
            BY <3>1, <3>3, <6>1 DEF EarliestAtLeast
          <6>. QED  BY <5>3, <6>2 DEF Passed
        <5>. QED  BY <5>2, <5>3
      <4>. QED  BY <4>1, <4>2
    <3>. QED  BY <3>2, <3>3
  <2>. QED  BY <2>1, <2>2, PassedKept
<1>5. CASE SendOutputs \/ SendMetrics
  <2>1. st' = st /\ seeking' = seeking /\ UNCHANGED <<client, committed>>
    BY <1>5, SendEffect
  <2>. QED  BY <2>1, PassedStays DEF client
<1>6. CASE StreamEnds
  <2>1. /\ st' = [st EXCEPT !.pending = <<>>, !.consumed = 0]
        /\ UNCHANGED <<seeking, client, topics>>
    BY <1>6 DEF StreamEnds, TakeWindows
  <2>2. st'.seek = st.seek /\ st'.window = st.window
    BY <1>0, <2>1 DEF LoopOK, States
  <2>. QED  BY <2>1, <2>2, PassedStays DEF client, topics
<1>7. CASE RevokeEvent
  <2>1. UNCHANGED <<seeking, client, topics>>
    BY <1>7, RevokeEffect
  <2>2. PICK bs \in SUBSET Bonders :
          /\ \A b \in bs : IsOpen(st, b) /\ st.window[b].start \in Offsets
          /\ IsClosed(st', st, bs, [b \in bs |-> st.window[b].start + WindowMs])
    BY <1>7, RevokeEffect
  <2>3. st'.window = [b \in Bonders |-> IF b \in bs THEN NoWindow ELSE st.window[b]]
    BY <2>2 DEF IsClosed
  <2>5. pos' = pos /\ committed' = committed
    BY <2>1 DEF client, topics
  <2>6. Passed' \subseteq Passed
    <3>. SUFFICES ASSUME NEW r \in Records, r \in Passed' PROVE r \in Passed
      BY DEF Passed
    <3>1. r[2] \in Nat
      BY RecordType
    <3>2. CASE r[2] < pos'[r[1]] \/ r[2] < committed'[r[1]]
      BY <2>5, <3>2 DEF Passed
    <3>3. ASSUME NEW b \in Bonders, st'.window[b].partition = r[1], r[2] < st'.window[b].start
          PROVE  r \in Passed
      <4>1. b \notin bs
        BY <2>3, <3>1, <3>3 DEF NoWindow, None
      <4>. QED  BY <2>3, <3>3, <4>1 DEF Passed
    <3>4. ASSUME NEW k \in {st'.seek, seeking'}, k.partition = r[1], r[2] < k.from PROVE r \in Passed
      <4>1. CASE k \in {st.seek, seeking}
        BY <3>4, <4>1 DEF Passed
      <4>2. CASE k \notin {st.seek, seeking}
        <5>. DEFINE e == [x \in bs |-> st.window[x].start + WindowMs]
        <5>1. st'.seek # st.seek /\ k = st'.seek
          BY <2>1, <4>2
        <5>2. IsClosed(st', st, bs, e)
          BY <2>2
        <5>3. \A b \in bs : e[b] = st.window[b].start + WindowMs
          OBVIOUS
        <5>. HIDE DEF e
        <5>4. PICK b \in bs : k = [bonder |-> b, partition |-> st.window[b].partition,
                                   from |-> e[b] - ReplayMs]
          BY <5>1, <5>2 DEF IsClosed
        <5>5. k.partition = st.window[b].partition /\ k.from = e[b] - ReplayMs
          BY <5>4
        <5>. DEFINE w == st.window[b].start
        <5>6. e[b] = w + WindowMs /\ w \in Nat
          BY <2>2, <5>3 DEF Offsets
        <5>. HIDE DEF w
        <5>7. r[2] < w
          BY <3>1, <3>4, <5>5, <5>6, SettingsAssumption
        <5>. QED  BY <3>4, <5>5, <5>7 DEF Passed, w
      <4>. QED  BY <4>1, <4>2
    <3>. QED  BY <3>2, <3>3, <3>4 DEF Passed
  <2>. QED  BY <2>6
<1>8. CASE Calls
  <2>1. UNCHANGED <<st, seeking>>
    BY <1>8 DEF Calls, GroupSteps, Open, OpenUnanswered, AssignEvent, Assign, Unassign, AnswerFails,
                ClientAssigns, ClientRevokes, CommitDeferred, Commit
  <2>2. CASE pos' = pos /\ committed' = committed
    BY <2>1, <2>2, PassedStays
  <2>3. CASE Assign \/ ClientAssigns
    <3>1. committed' = committed /\ \A p \in Partitions : pos'[p] \in {committed[p], pos[p]}
      BY <2>3 DEF Assign, ClientAssigns, Take, topics
    <3>2. \A r \in Records : r[2] < pos'[r[1]] \/ r[2] < committed'[r[1]] => r \in Passed
      <4>. TAKE r \in Records
      <4>1. pos'[r[1]] \in {committed[r[1]], pos[r[1]]}
        BY <3>1, RecordType
      <4>. QED  BY <3>1, <4>1 DEF Passed
    <3>. QED  BY <2>1, <3>2, PassedKept
  <2>4. CASE Commit /\ ~Exit
    <3>1. pc = "commit" /\ committed' = StoredPositions /\ pos' = pos
      BY <2>4 DEF Commit, client
    <3>2. \A r \in Records : r[2] < committed'[r[1]] => r \in Passed
      BY <3>1, CommitSafe
    <3>3. \A r \in Records : r[2] < pos'[r[1]] \/ r[2] < committed'[r[1]] => r \in Passed
      BY <3>1, <3>2 DEF Passed
    <3>. QED  BY <2>1, <3>3, PassedKept
  <2>5. (Assign \/ ClientAssigns) \/ (Commit /\ ~Exit) \/ (pos' = pos /\ committed' = committed)
    BY <1>8 DEF Calls, GroupSteps, Open, OpenUnanswered, AssignEvent, Unassign, AnswerFails,
                ClientRevokes, GiveUp, CommitDeferred, client, topics
  <2>. QED  BY <2>2, <2>3, <2>4, <2>5
<1>. QED  BY <1>1, <1>2, <1>3, <1>4, <1>5, <1>6, <1>7, <1>8

\* A step keeps the records safe.
LEMMA StepSafe == Base /\ Safe /\ [Next]_vars => Safe'
<1>. SUFFICES ASSUME Base, Safe, [Next]_vars PROVE Safe'
  OBVIOUS
<1>0. LoopOK /\ EventOK /\ ClientOK /\ TopicsOK
  BY BaseParts
<1>1. ASSUME NEW p \in Partitions, Deliver(p) PROVE Safe'
  <2>. DEFINE r == <<p, pos[p]>>
  <2>1. MovesOver(p) /\ UNCHANGED <<log, topics, history>> /\ pc = "read"
    BY <1>1, DeliverEffect, Moves
  <2>2. PICK s \in States :
          /\ EndsWith(s)
          /\ \/ log[r] = Tombstone /\ IsTallied(s, st)
             \/ log[r] \in Bonders /\ IsIngested(s, st, p, pos[p], log[r])
    BY <1>1, DeliverEffect
  <2>3. /\ committed' = committed /\ dlq' = dlq /\ outputs' = outputs /\ gone' = gone /\ log' = log
        /\ flight.letter = {} /\ flight'.letter = {}
    BY <1>0, <2>1, <2>2 DEF topics, history, LoopOK, EndsWith, HandsOn
  <2>4. InMemory = Kept(st) /\ InMemory' = Kept(s)
    BY <2>1, <2>2, MemoryAt DEF EndsWith, HandsOn
  <2>5. r \in Records
    BY <2>1 DEF MovesOver
  <2>6. InMemory \subseteq InMemory' /\ (log[r] \in Bonders => r \in InMemory')
    <3>1. CASE log[r] = Tombstone /\ IsTallied(s, st)
      <4>1. Tombstone \notin Bonders
        BY SettingsAssumption DEF Tombstone
      <4>. QED  BY <2>4, <3>1, <4>1 DEF IsTallied
    <3>2. CASE log[r] \in Bonders /\ IsIngested(s, st, p, pos[p], log[r])
      BY <2>4, <3>2 DEF IsIngested
    <3>. QED  BY <2>2, <3>1, <3>2
  <2>7. log[r] # Malformed
    BY <1>1 DEF Deliver
  <2>8. {r} \subseteq Held'
    <3>. HIDE DEF r
    <3>. QED  BY <2>3, <2>5, <2>6, <2>7 DEF Held, Bonds
  <2>9. Passed' \subseteq Passed \cup {r}
    BY <1>1, PassedStep
  <2>. HIDE DEF r
  <2>. QED  BY <2>3, <2>6, <2>8, <2>9, SafeKept
<1>2. ASSUME NEW p \in Partitions, DeliverMalformed(p) PROVE Safe'
  <2>. DEFINE r == <<p, pos[p]>>
  <2>1. /\ MovesOver(p) /\ r \in Records /\ UNCHANGED <<log, st, seeking, topics, history>>
        /\ flight' = [flight EXCEPT !.letter = {r}] /\ log[r] = Malformed /\ pc = "read"
    BY <1>2, Moves DEF DeliverMalformed, MovesOver
  <2>2. /\ committed' = committed /\ dlq' = dlq /\ outputs' = outputs /\ gone' = gone /\ log' = log
        /\ flight.letter = {} /\ flight'.letter = {r} /\ flight'.windows = flight.windows
    BY <1>0, <2>1 DEF topics, history, LoopOK, Flights
  <2>3. InMemory' = InMemory
    BY <2>1, <2>2 DEF InMemory, Contents
  <2>4. Malformed \notin Bonders
    BY SettingsAssumption DEF Malformed
  <2>. HIDE DEF r
  <2>5. {r} \subseteq Held'
    BY <2>1, <2>2, <2>4 DEF Held, Bonds
  <2>6. Passed' \subseteq Passed \cup {r}
    BY <1>2, PassedStep DEF r
  <2>. QED  BY <2>2, <2>3, <2>5, <2>6, SafeKept
<1>3. CASE DeadLettered
  <2>1. /\ dlq' = dlq \cup flight.letter /\ UNCHANGED <<log, client, committed, outputs, history>>
        /\ pc = "dead_letter"
    BY <1>3, DeadLetteredEffect
  <2>2. PICK s \in States : EndsWith(s) /\ IsTallied(s, st)
    BY <1>3, DeadLetteredEffect
  <2>3. /\ pos' = pos /\ gone' = gone /\ flight'.letter = {}
        /\ InMemory = Kept(st) /\ InMemory' = Kept(s) /\ Kept(s) = Kept(st)
    BY <2>1, <2>2, MemoryAt DEF client, history, EndsWith, HandsOn, IsTallied
  <2>5. Passed' \subseteq Passed \cup {}
    BY <1>3, PassedStep
  <2>6. {} \subseteq Held'
    OBVIOUS
  <2>. QED  BY <2>1, <2>3, <2>5, <2>6, SafeKept
<1>4. CASE Seek \/ SeekFails
  <2>1. /\ pc = "seek" /\ seeking # NoSeek /\ seeking' = NoSeek
        /\ HandsOn(st) /\ st'.seek = st.seek
        /\ UNCHANGED <<log, assigned, topics, gone>>
    BY <1>4, SeekEffect
  <2>2. /\ committed' = committed /\ dlq' = dlq /\ outputs' = outputs
        /\ flight.letter = {} /\ flight'.letter = {} /\ InMemory' = InMemory /\ st'.window = st.window
    BY <1>0, <2>1, MemoryAt DEF topics, LoopOK, HandsOn
  <2>4. Passed' \subseteq Passed \cup {}
    BY <1>4, PassedStep
  <2>5. {} \subseteq Held'
    OBVIOUS
  <2>. QED  BY <2>1, <2>2, <2>4, <2>5, SafeKept
<1>5. CASE SendOutputs \/ SendMetrics
  <2>1. /\ LoopOK' /\ st' = st /\ seeking' = seeking /\ flight'.letter = {} /\ flight.letter = {}
        /\ UNCHANGED <<log, client, committed, dlq, gone>>
    BY <1>5, SendEffect
  <2>2. InMemory = Kept(st) \cup Contents(flight.windows)
    BY MemoryParts
  <2>3. InMemory' = Kept(st') \cup Contents(flight'.windows)
    BY DEF InMemory, Kept, InWindows
  <2>4. outputs \cup InMemory \subseteq outputs' \cup InMemory'
    <3>1. CASE SendOutputs
      <4>1. outputs' = outputs \cup Contents(flight.windows)
        BY <3>1 DEF SendOutputs
      <4>. QED  BY <2>1, <2>2, <2>3, <4>1
    <3>2. CASE SendMetrics
      <4>1. outputs' = outputs /\ pc = "metrics"
        BY <3>2 DEF SendMetrics
      <4>. QED  BY <2>1, <2>3, <4>1, MemoryAt
    <3>. QED  BY <1>5, <3>1, <3>2
  <2>5. Passed' \subseteq Passed \cup {}
    BY <1>5, PassedStep
  <2>6. {} \subseteq Held'
    OBVIOUS
  <2>. QED  BY <2>1, <2>4, <2>5, <2>6, SafeKept
<1>6. CASE StreamEnds
  <2>1. /\ pc = "read" /\ TakeWindows(st) /\ since' = since
        /\ UNCHANGED <<log, seeking, client, topics, gone>>
    BY <1>6 DEF StreamEnds
  <2>2. st \in States /\ since \in Nat /\ since < BatchSize /\ flight.letter = {}
    BY <1>0, <2>1, SettingsAssumption DEF LoopOK
  <2>3. HandsOn(st) /\ st'.seek = st.seek
    BY <2>1, <2>2, TakeWindowsEffect
  <2>4. InMemory' = InMemory /\ st'.window = st.window /\ flight'.letter = {}
    BY <2>1, <2>3, MemoryAt DEF HandsOn
  <2>5. pos' = pos /\ committed' = committed /\ dlq' = dlq /\ outputs' = outputs
    BY <2>1 DEF client, topics
  <2>6. Passed' \subseteq Passed \cup {}
    BY <1>6, PassedStep
  <2>7. {} \subseteq Held'
    OBVIOUS
  <2>. QED  BY <2>1, <2>2, <2>4, <2>5, <2>6, <2>7, SafeKept
<1>7. CASE RevokeEvent
  <2>1. UNCHANGED <<log, seeking, flight, client, topics, gone>>
    BY <1>7, RevokeEffect
  <2>2. PICK bs \in SUBSET Bonders :
          /\ \A b \in bs : IsOpen(st, b) /\ st.window[b].start \in Offsets
          /\ IsClosed(st', st, bs, [b \in bs |-> st.window[b].start + WindowMs])
    BY <1>7, RevokeEffect
  <2>3. Kept(st') = Kept(st) /\ st'.window = [b \in Bonders |-> IF b \in bs THEN NoWindow ELSE st.window[b]]
    BY <2>2 DEF IsClosed
  <2>4. InMemory' = InMemory
    <3>1. InMemory' = Kept(st') \cup Contents(flight'.windows)
      BY DEF InMemory, Kept, InWindows
    <3>. QED  BY <2>1, <2>3, <3>1, MemoryParts
  <2>5. pos' = pos /\ committed' = committed /\ dlq' = dlq /\ outputs' = outputs
    BY <2>1 DEF client, topics
  <2>6. Passed' \subseteq Passed \cup {}
    BY <1>7, PassedStep
  <2>7. {} \subseteq Held'
    OBVIOUS
  <2>. QED  BY <2>1, <2>4, <2>5, <2>6, <2>7, SafeKept
<1>8. CASE Calls
  <2>1. UNCHANGED <<log, st, seeking, flight, outputs, dlq, gone>>
    BY <1>8 DEF Calls, GroupSteps, Open, OpenUnanswered, AssignEvent, Assign, Unassign, AnswerFails,
                ClientAssigns, ClientRevokes, CommitDeferred, Commit, topics, history
  <2>2. InMemory' = InMemory
    BY <2>1 DEF InMemory, Contents
  <2>3. Passed' \subseteq Passed \cup {} /\ {} \subseteq Held'
    BY <1>8, PassedStep
  <2>4. CASE committed' = committed
    BY <2>1, <2>2, <2>3, <2>4, SafeKept
  <2>5. CASE Commit /\ ~Exit
    <3>1. pc = "commit" /\ committed' = StoredPositions
      BY <2>5 DEF Commit
    <3>2. \A r \in Records : r[2] < committed'[r[1]] =>
            /\ r \in Bonds => r \in outputs \cup InMemory \cup gone
            /\ log[r] = Malformed => r \in dlq
      BY <3>1, CommitSafe
    <3>3. NothingVanishes'
      BY <2>1, <2>2, <3>2 DEF NothingVanishes, Bonds
    <3>4. Held' = Held
      BY <2>1, <2>2 DEF Held, Bonds
    <3>. QED  BY <2>3, <3>3, <3>4 DEF Safe
  <2>6. (Commit /\ ~Exit) \/ committed' = committed
    BY <1>8 DEF Calls, GroupSteps, Open, OpenUnanswered, AssignEvent, Assign, Unassign, AnswerFails,
                ClientAssigns, ClientRevokes, CommitDeferred, client, topics
  <2>. QED  BY <2>4, <2>5, <2>6
<1>9. CASE Exits
  <2>1. /\ Exit
        /\ committed' = committed \/ (pc = "commit" /\ committed' = StoredPositions)
        /\ outputs \subseteq outputs' /\ dlq \subseteq dlq'
    BY <1>9 DEF Exits, Commit, CommitFails, SendFails, Crash, DeadLetterFails, topics
  <2>. QED  BY <2>1, ExitSafe
<1>10. CASE UNCHANGED vars
  BY <1>10 DEF vars, process, rebalancing, client, topics, history, Safe, NothingVanishes, Passed, Held, Bonds,
               InMemory, Contents
<1>. QED  BY <1>1, <1>2, <1>3, <1>4, <1>5, <1>6, <1>7, <1>8, <1>9, <1>10, Cases

(***************************************************************************)
(* `consumed` counts each bond of a process once.                          *)
(***************************************************************************)

\* The parts of CountInv.
HandedOut == {r \in Records : r[2] < pos[r[1]]}

CountA == Records = Bonds => Passed \subseteq Marked /\ Sum = Cardinality(Marked)
CountB ==
  \E X \in SUBSET Records : Passed \cup Marked \subseteq X \cup flight.letter /\ Cardinality(X) <= Sum
Steady ==
  /\ answerer # "client" /\ assigned \subseteq granted
  /\ rb.kind # "revoke"
  /\ rb.kind = "assign" => rb.parts \cap assigned = {} /\ rb.parts \subseteq granted
  /\ \A p \in Partitions \ assigned : pos[p] = 0 /\ committed[p] = 0
CountC ==
  (\A b \in Bonders : seeks[b] = 0) =>
    /\ Marked = HandedOut \cap Bonds
    /\ flight.letter \subseteq HandedOut
    /\ Sum = Cardinality(HandedOut \ flight.letter)

\* CountInv is its parts.
LEMMA CountParts == CountInv <=> (~uncounted => CountA /\ CountB /\ (faults = 0 => Steady /\ CountC))
<1>1. {r \in Bonds : r[2] < pos[r[1]]} = HandedOut \cap Bonds
  BY DEF HandedOut, Bonds
<1>. QED  BY <1>1 DEF CountInv, CountA, CountB, CountC, Steady, HandedOut

\* The parts after a step make up CountInv after it.
LEMMA CountPrimed == (~uncounted => CountA /\ CountB /\ (faults = 0 => Steady /\ CountC))' => CountInv'
<1>1. ({r \in Bonds : r[2] < pos[r[1]]} = HandedOut \cap Bonds)'
  BY DEF HandedOut, Bonds
<1>. QED  BY <1>1 DEF CountInv, CountA, CountB, CountC, Steady, HandedOut

\* There are finitely many records.
LEMMA FiniteRecords == IsFiniteSet(Records)
<1>1. IsFiniteSet(Offsets)
  BY SettingsAssumption, FS_Interval DEF Offsets
<1>. QED  BY <1>1, SettingsAssumption, FS_Product DEF Records

\* The sum is a number, of two terms outside a flush.
LEMMA SumType ==
  Base => /\ Sum \in Nat /\ counted \in Nat /\ st.consumed \in Nat /\ flight.consumed \in Nat
          /\ (pc \notin {"send", "metrics"} => Sum = counted + st.consumed)
<1>. HAVE Base
<1>1. counted \in Nat /\ st.consumed \in Nat /\ flight.consumed \in Nat
  BY BaseParts DEF LoopOK, TopicsOK, States, Flights
<1>2. pc \notin {"send", "metrics"} => flight.consumed = 0
  BY BaseParts DEF LoopOK
<1>. QED  BY <1>1, <1>2 DEF Sum

\* The sum after an iteration that ends with State s.
LEMMA SumEnds ==
  Base => \A s \in States :
    HandsOn(s) /\ counted' = counted /\ pc \notin {"send", "metrics"} =>
      Sum' = Sum + (s.consumed - st.consumed) /\ Sum' \in Nat
<1>. HAVE Base
<1>. TAKE s \in States
<1>. HAVE HandsOn(s) /\ counted' = counted /\ pc \notin {"send", "metrics"}
<1>1. Sum = counted + st.consumed /\ counted \in Nat /\ st.consumed \in Nat /\ s.consumed \in Nat
  BY SumType DEF States
<1>2. st'.consumed \in Nat /\ flight'.consumed \in Nat /\ st'.consumed + flight'.consumed = s.consumed
  BY DEF HandsOn, States, Flights
<1>3. Sum' = counted + flight'.consumed + st'.consumed
  BY DEF Sum
<1>. QED  BY <1>1, <1>2, <1>3

\* A step that counts nothing and passes nothing new.
LEMMA QuietCounts ==
    /\ CountA /\ CountB
    /\ log' = log /\ st'.highWater = st.highWater /\ Sum' = Sum /\ flight'.letter = flight.letter
    /\ Passed' \subseteq Passed
    => CountA' /\ CountB'
<1>. HAVE /\ CountA /\ CountB
          /\ log' = log /\ st'.highWater = st.highWater /\ Sum' = Sum /\ flight'.letter = flight.letter
          /\ Passed' \subseteq Passed
<1>1. Marked' = Marked /\ Bonds' = Bonds
  BY DEF Marked, Bonds
<1>2. CountA'
  BY <1>1 DEF CountA
<1>3. CountB'
  <2>1. PICK X \in SUBSET Records :
          Passed \cup Marked \subseteq X \cup flight.letter /\ Cardinality(X) <= Sum
    BY DEF CountB
  <2>2. Passed' \cup Marked' \subseteq X \cup flight'.letter /\ Cardinality(X) <= Sum'
    BY <1>1, <2>1
  <2>. QED  BY <2>2 DEF CountB
<1>. QED  BY <1>2, <1>3

\* A step that counts nothing and hands nothing out keeps the sum exact.
LEMMA QuietExact ==
    /\ CountC
    /\ log' = log /\ st'.highWater = st.highWater /\ Sum' = Sum /\ flight'.letter = flight.letter
    /\ pos' = pos /\ seeks' = seeks
    => CountC'
<1>. HAVE /\ CountC
          /\ log' = log /\ st'.highWater = st.highWater /\ Sum' = Sum /\ flight'.letter = flight.letter
          /\ pos' = pos /\ seeks' = seeks
<1>1. Marked' = Marked /\ Bonds' = Bonds /\ HandedOut' = HandedOut
  BY DEF Marked, Bonds, HandedOut
<1>. QED  BY <1>1 DEF CountC

\* A record more in a set of records that the sum bounds.
LEMMA OneMore ==
  ASSUME NEW X \in SUBSET Records, NEW r \in Records
  PROVE  /\ X \cup {r} \in SUBSET Records /\ Cardinality(X) \in Nat
         /\ Cardinality(X \cup {r}) <= Cardinality(X) + 1
         /\ r \notin X => Cardinality(X \cup {r}) = Cardinality(X) + 1
<1>1. IsFiniteSet(X)
  BY FiniteRecords, FS_Subset
<1>2. Cardinality(X) \in Nat
  BY <1>1, FS_CardinalityType
<1>3. Cardinality(X \cup {r}) = IF r \in X THEN Cardinality(X) ELSE Cardinality(X) + 1
  BY <1>1, FS_AddElement
<1>. QED  BY <1>2, <1>3

\* What is handed out grows by the record handed out.
LEMMA HandsOut ==
  Base => \A p \in Partitions : MovesOver(p) =>
    /\ HandedOut' = HandedOut \cup {<<p, pos[p]>>} /\ <<p, pos[p]>> \notin HandedOut
    /\ <<p, pos[p]>> \in Records
<1>. HAVE Base
<1>. TAKE p \in Partitions
<1>. HAVE MovesOver(p)
<1>. DEFINE o == pos[p]
            r == <<p, o>>
<1>1. r \in Records /\ r[1] = p /\ r[2] = o /\ o \in Nat
  BY SettingsAssumption DEF MovesOver, Offsets
<1>2. \A q \in Partitions : pos'[q] = IF q = p THEN o + 1 ELSE pos[q]
  BY BaseParts DEF MovesOver, ClientOK
<1>3. \A q \in Records : q \in HandedOut' <=> q \in HandedOut \/ q = r
  <2>. TAKE q \in Records
  <2>1. /\ q[1] \in Partitions /\ q[2] \in Nat /\ (q = r <=> q[1] = p /\ q[2] = o)
    BY RecordType, <1>1
  <2>2. q \in HandedOut <=> q[2] < pos[q[1]]
    BY DEF HandedOut
  <2>3. q \in HandedOut' <=> q[2] < pos'[q[1]]
    BY DEF HandedOut
  <2>4. pos'[q[1]] = IF q[1] = p THEN o + 1 ELSE pos[q[1]]
    BY <1>2, <2>1
  <2>5. CASE q[1] = p
    <3>1. pos[q[1]] = o
      BY <2>5
    <3>. HIDE DEF o, r
    <3>. QED  BY <1>1, <2>1, <2>2, <2>3, <2>4, <2>5, <3>1
  <2>6. CASE q[1] # p
    BY <2>1, <2>2, <2>3, <2>4, <2>6
  <2>. QED  BY <2>5, <2>6
<1>4. r \notin HandedOut
  BY <1>1 DEF HandedOut
<1>5. HandedOut \subseteq Records /\ HandedOut' \subseteq Records
  BY DEF HandedOut
<1>. HIDE DEF r
<1>6. HandedOut' = HandedOut \cup {r}
  BY <1>1, <1>3, <1>5
<1>. QED  BY <1>1, <1>4, <1>6 DEF r

\* The mark moves over the record, and over none but it that were not handed
\* out before.
LEMMA MarkMoves ==
  Base => \A p \in Partitions :
    /\ MovesOver(p) /\ log' = log /\ <<p, pos[p]>> \in Bonds
    /\ st'.highWater = [st.highWater EXCEPT ![p] = IF pos[p] <= @ THEN @ ELSE pos[p]]
    => /\ <<p, pos[p]>> \in Marked => Marked' = Marked /\ pos[p] <= st.highWater[p]
       /\ <<p, pos[p]>> \notin Marked =>
            /\ ~(pos[p] <= st.highWater[p])
            /\ Marked \cup {<<p, pos[p]>>} \subseteq Marked'
            /\ Marked' \subseteq Marked \cup {<<p, pos[p]>>} \cup (HandedOut \cap Bonds)
<1>. HAVE Base
<1>. TAKE p \in Partitions
<1>. HAVE /\ MovesOver(p) /\ log' = log /\ <<p, pos[p]>> \in Bonds
          /\ st'.highWater = [st.highWater EXCEPT ![p] = IF pos[p] <= @ THEN @ ELSE pos[p]]
<1>. DEFINE o == pos[p]
            r == <<p, o>>
            h == st.highWater[p]
<1>1. r \in Records /\ r[1] = p /\ r[2] = o /\ o \in Nat /\ h \in Int
  <2>1. st.highWater \in [Partitions -> -1 .. LogLen - 1]
    BY BaseParts DEF LoopOK, States
  <2>. QED  BY <2>1, SettingsAssumption DEF MovesOver, Offsets
<1>2. \A q \in Partitions : st'.highWater[q] = IF q = p THEN (IF o <= h THEN h ELSE o) ELSE st.highWater[q]
  BY BaseParts DEF LoopOK, States
<1>3. r \in Marked <=> o <= h
  BY <1>1 DEF Marked
<1>4. \A q \in Bonds : /\ q \in Marked <=> q[2] <= st.highWater[q[1]]
                       /\ q \in Marked' <=> q[2] <= st'.highWater[q[1]]
                       /\ q \in Records /\ q[1] \in Partitions /\ q[2] \in Nat
                       /\ (q = r <=> q[1] = p /\ q[2] = o)
  BY <1>1, RecordType DEF Marked, Bonds
<1>5. Marked \subseteq Bonds /\ Marked' \subseteq Bonds /\ r \in Bonds
  BY DEF Marked, Bonds
<1>6. \A q \in Bonds : q \in HandedOut <=> q[2] < pos[q[1]]
  BY <1>4 DEF HandedOut
<1>. HIDE DEF r
<1>7. CASE o <= h
  <2>1. \A q \in Bonds : q \in Marked' <=> q \in Marked
    BY <1>2, <1>4, <1>7
  <2>2. Marked' = Marked
    BY <1>5, <2>1
  <2>. QED  BY <1>3, <1>7, <2>2 DEF r
<1>8. CASE ~(o <= h)
  <2>1. \A q \in Bonds : q[1] # p => (q \in Marked' <=> q \in Marked)
    BY <1>2, <1>4
  <2>2. \A q \in Bonds : q[1] = p => /\ q \in Marked' <=> q[2] <= o
                                     /\ q \in Marked <=> q[2] <= h
                                     /\ q \in HandedOut <=> q[2] < o
                                     /\ q = r <=> q[2] = o
    BY <1>2, <1>4, <1>6, <1>8
  <2>. HIDE DEF o, h
  <2>3. \A q \in Marked : q \in Marked'
    BY <1>1, <1>4, <1>5, <1>8, <2>1, <2>2
  <2>4. r \in Marked'
    BY <1>1, <1>5, <2>2
  <2>5. \A q \in Marked' : q \in Marked \/ q = r \/ q \in HandedOut
    BY <1>1, <1>4, <1>5, <1>8, <2>1, <2>2
  <2>. QED  BY <1>3, <1>5, <1>8, <2>3, <2>4, <2>5 DEF r, o, h
<1>. QED  BY <1>7, <1>8

\* Passing the records in front of the marks, and the sum of the marks.
LEMMA StepBounds ==
  Base /\ Safe /\ CountA /\ CountB /\ [Next]_vars /\ ~uncounted' => CountA' /\ CountB'
<1>. SUFFICES ASSUME Base, Safe, CountA, CountB, [Next]_vars, ~uncounted' PROVE CountA' /\ CountB'
  OBVIOUS
<1>0. LoopOK
  BY BaseParts
<1>01. PICK X \in SUBSET Records : Passed \cup Marked \subseteq X \cup flight.letter /\ Cardinality(X) <= Sum
  BY DEF CountB
<1>02. HandedOut \subseteq Passed /\ Marked \subseteq Records /\ Sum \in Nat
  BY SumType DEF HandedOut, Passed, Marked, Bonds
<1>1. ASSUME NEW p \in Partitions, Deliver(p) PROVE CountA' /\ CountB'
  <2>. DEFINE r == <<p, pos[p]>>
  <2>1. MovesOver(p) /\ log' = log /\ counted' = counted /\ pc = "read" /\ r \in Records
    BY <1>1, DeliverEffect, Moves DEF topics, MovesOver
  <2>2. PICK s \in States :
          /\ EndsWith(s)
          /\ \/ log[r] = Tombstone /\ IsTallied(s, st)
             \/ log[r] \in Bonders /\ IsIngested(s, st, p, pos[p], log[r])
    BY <1>1, DeliverEffect
  <2>3. flight.letter = {} /\ flight'.letter = {} /\ st'.highWater = s.highWater
    BY <1>0, <2>1, <2>2 DEF LoopOK, EndsWith, HandsOn
  <2>4. Sum' = Sum + (s.consumed - st.consumed) /\ Sum' \in Nat /\ st.consumed \in Nat
    BY <2>1, <2>2, SumEnds, SumType DEF EndsWith
  <2>5. Passed' \subseteq Passed \cup {r}
    BY <1>1, PassedStep
  <2>6. CASE log[r] = Tombstone /\ IsTallied(s, st)
    <3>1. Marked' = Marked /\ Bonds' = Bonds /\ Sum' = Sum + 1
      BY <2>1, <2>3, <2>4, <2>6 DEF Marked, Bonds, IsTallied
    <3>2. r \notin Bonds
      BY <2>6, SettingsAssumption DEF Bonds, Tombstone
    <3>3. CountA'
      BY <2>1, <3>1, <3>2 DEF CountA
    <3>. DEFINE Y == X \cup {r}
    <3>4. Y \in SUBSET Records /\ Cardinality(Y) <= Sum'
      <4>1. /\ X \cup {r} \in SUBSET Records /\ Cardinality(X) \in Nat
            /\ Cardinality(X \cup {r}) <= Cardinality(X) + 1 /\ Cardinality(X \cup {r}) \in Nat
        <5>. HIDE DEF r
        <5>1. IsFiniteSet(X \cup {r})
          BY <2>1, FiniteRecords, FS_Subset
        <5>. QED  BY <2>1, <5>1, OneMore, FS_CardinalityType
      <4>. QED  BY <1>01, <1>02, <3>1, <4>1
    <3>5. Passed' \cup Marked' \subseteq Y \cup flight'.letter
      <4>. HIDE DEF r
      <4>. QED  BY <1>01, <2>3, <2>5, <3>1
    <3>. HIDE DEF Y
    <3>. QED  BY <3>3, <3>4, <3>5 DEF CountB
  <2>7. CASE log[r] \in Bonders /\ IsIngested(s, st, p, pos[p], log[r])
    <3>. DEFINE o == pos[p]
                h == st.highWater[p]
    <3>1. /\ s.highWater = [st.highWater EXCEPT ![p] = IF o <= @ THEN @ ELSE o]
          /\ s.consumed = st.consumed + (IF o <= h THEN 0 ELSE 1)
      <4>. HIDE DEF r
      <4>. QED  BY <2>7 DEF IsIngested
    <3>2. r \in Bonds /\ Bonds' = Bonds
      BY <2>1, <2>7 DEF Bonds
    <3>3. /\ r \in Marked => Marked' = Marked /\ o <= h
          /\ r \notin Marked =>
               /\ ~(o <= h)
               /\ Marked \cup {r} \subseteq Marked'
               /\ Marked' \subseteq Marked \cup {r} \cup (HandedOut \cap Bonds)
      BY <2>1, <2>3, <3>1, <3>2, MarkMoves
    <3>. HIDE DEF r, o, h
    <3>4. CASE r \in Marked
      <4>1. Marked' = Marked /\ Sum' = Sum
        BY <1>02, <2>4, <3>1, <3>3, <3>4
      <4>2. Passed' \cup Marked' \subseteq X \cup flight'.letter
        BY <1>01, <2>3, <2>5, <3>4, <4>1
      <4>3. CountA'
        BY <2>1, <2>5, <3>2, <3>4, <4>1 DEF CountA
      <4>4. CountB'
        BY <1>01, <4>1, <4>2 DEF CountB
      <4>. QED  BY <4>3, <4>4
    <3>5. CASE r \notin Marked
      <4>1. Sum' = Sum + 1
        BY <1>02, <2>4, <3>1, <3>3, <3>5
      <4>2. CountA'
        <5>. SUFFICES ASSUME Records = Bonds PROVE Passed' \subseteq Marked' /\ Sum' = Cardinality(Marked')
          BY <2>1, <3>2 DEF CountA
        <5>1. Passed \subseteq Marked /\ Sum = Cardinality(Marked)
          BY DEF CountA
        <5>2. Marked' = Marked \cup {r}
          BY <1>02, <3>3, <3>5, <5>1
        <5>3. Cardinality(Marked \cup {r}) = Cardinality(Marked) + 1
          BY <1>02, <2>1, <3>5, OneMore
        <5>. QED  BY <2>5, <4>1, <5>1, <5>2, <5>3
      <4>. DEFINE Y == X \cup {r}
      <4>3. Y \in SUBSET Records /\ Cardinality(Y) <= Sum'
        <5>1. IsFiniteSet(Y)
          BY <2>1, FiniteRecords, FS_Subset
        <5>2. /\ Y \in SUBSET Records /\ Cardinality(X) \in Nat /\ Cardinality(Y) \in Nat
              /\ Cardinality(Y) <= Cardinality(X) + 1
          BY <2>1, <5>1, OneMore, FS_CardinalityType
        <5>. HIDE DEF Y
        <5>. QED  BY <1>01, <1>02, <4>1, <5>2
      <4>4. Passed' \cup Marked' \subseteq Y \cup flight'.letter
        BY <1>01, <1>02, <2>3, <2>5, <3>3, <3>5
      <4>. HIDE DEF Y
      <4>. QED  BY <4>2, <4>3, <4>4 DEF CountB
    <3>. QED  BY <3>4, <3>5
  <2>. QED  BY <2>2, <2>6, <2>7
<1>2. ASSUME NEW p \in Partitions, DeliverMalformed(p) PROVE CountA' /\ CountB'
  <2>. DEFINE r == <<p, pos[p]>>
  <2>1. /\ MovesOver(p) /\ r \in Records /\ UNCHANGED <<log, st, counted>>
        /\ flight' = [flight EXCEPT !.letter = {r}] /\ log[r] = Malformed /\ pc = "read"
    BY <1>2, Moves DEF DeliverMalformed, MovesOver, topics
  <2>2. flight.letter = {} /\ flight'.letter = {r} /\ flight'.consumed = flight.consumed
    BY <1>0, <2>1 DEF LoopOK, Flights
  <2>3. Sum' = Sum /\ Marked' = Marked /\ Bonds' = Bonds
    BY <2>1, <2>2 DEF Sum, Marked, Bonds
  <2>4. r \notin Bonds
    BY <2>1, SettingsAssumption DEF Bonds, Malformed
  <2>5. Passed' \subseteq Passed \cup {r}
    BY <1>2, PassedStep
  <2>. HIDE DEF r
  <2>6. CountA'
    BY <2>1, <2>3, <2>4 DEF CountA
  <2>7. Passed' \cup Marked' \subseteq X \cup flight'.letter /\ Cardinality(X) <= Sum'
    BY <1>01, <2>2, <2>3, <2>5
  <2>. QED  BY <2>6, <2>7 DEF CountB
<1>3. CASE DeadLettered
  <2>1. log' = log /\ counted' = counted /\ pc = "dead_letter"
    BY <1>3, DeadLetteredEffect
  <2>2. PICK s \in States : EndsWith(s) /\ IsTallied(s, st)
    BY <1>3, DeadLetteredEffect
  <2>3. flight.letter # {} /\ flight \in Flights /\ \A r \in flight.letter : log[r] = Malformed
    BY <1>0, <2>1 DEF LoopOK
  <2>4. PICK r \in Records : flight.letter = {r}
    BY <2>3 DEF Flights
  <2>5. flight'.letter = {} /\ st'.highWater = st.highWater /\ s.consumed = st.consumed + 1
    BY <2>2 DEF EndsWith, HandsOn, IsTallied
  <2>6. Sum' = Sum + (s.consumed - st.consumed) /\ Sum' \in Nat /\ st.consumed \in Nat
    BY <2>1, <2>2, SumEnds, SumType DEF EndsWith
  <2>7. Sum' = Sum + 1
    BY <1>02, <2>5, <2>6
  <2>8. r \notin Bonds /\ Marked' = Marked /\ Bonds' = Bonds
    BY <2>1, <2>3, <2>4, <2>5, SettingsAssumption DEF Bonds, Malformed, Marked
  <2>9. Passed' \subseteq Passed
    BY <1>3, PassedStep
  <2>10. CountA'
    BY <2>1, <2>8 DEF CountA
  <2>. DEFINE Y == X \cup {r}
  <2>11. Y \in SUBSET Records /\ Cardinality(Y) <= Sum'
    <3>1. IsFiniteSet(Y)
      BY FiniteRecords, FS_Subset
    <3>2. /\ Y \in SUBSET Records /\ Cardinality(X) \in Nat /\ Cardinality(Y) \in Nat
          /\ Cardinality(Y) <= Cardinality(X) + 1
      BY <3>1, OneMore, FS_CardinalityType
    <3>. HIDE DEF Y
    <3>. QED  BY <1>01, <1>02, <2>7, <3>2
  <2>12. Passed' \cup Marked' \subseteq Y \cup flight'.letter
    BY <1>01, <2>4, <2>8, <2>9
  <2>. HIDE DEF Y
  <2>. QED  BY <2>10, <2>11, <2>12 DEF CountB
<1>4. CASE Seek \/ SeekFails \/ StreamEnds
  <2>1. HandsOn(st) /\ log' = log /\ counted' = counted /\ pc \in {"seek", "read"}
    <3>1. CASE Seek \/ SeekFails
      BY <3>1, SeekEffect DEF topics
    <3>2. CASE StreamEnds
      <4>1. TakeWindows(st) /\ since' = since /\ pc = "read" /\ UNCHANGED <<log, topics>>
        BY <3>2 DEF StreamEnds
      <4>2. st \in States /\ since \in Nat /\ since < BatchSize
        BY <1>0, <4>1, SettingsAssumption DEF LoopOK
      <4>. QED  BY <4>1, <4>2, TakeWindowsEffect DEF topics
    <3>. QED  BY <1>4, <3>1, <3>2
  <2>2. st \in States /\ flight.letter = {} /\ flight'.letter = {} /\ st'.highWater = st.highWater
    BY <1>0, <2>1 DEF LoopOK, HandsOn
  <2>3. Sum' = Sum + (st.consumed - st.consumed) /\ st.consumed \in Nat
    BY <2>1, <2>2, SumEnds, SumType
  <2>4. Sum' = Sum
    BY <1>02, <2>3
  <2>. QED  BY <1>4, <2>1, <2>2, <2>4, PassedStep, QuietCounts
<1>5. CASE SendOutputs \/ SendMetrics
  <2>1. log' = log /\ st' = st /\ flight'.letter = {} /\ flight.letter = {}
    BY <1>5, SendEffect
  <2>2. Sum' = Sum
    <3>1. CASE SendOutputs
      <4>1. flight' = [flight EXCEPT !.windows = <<>>] /\ counted' = counted
        BY <3>1 DEF SendOutputs
      <4>2. flight'.consumed = flight.consumed
        BY <1>0, <4>1 DEF LoopOK, Flights
      <4>. QED  BY <2>1, <4>1, <4>2 DEF Sum
    <3>2. CASE SendMetrics
      <4>1. counted' = counted + flight.consumed /\ flight' = NoFlight
        BY <3>2 DEF SendMetrics
      <4>2. flight'.consumed = 0
        BY <4>1 DEF NoFlight
      <4>. QED  BY <2>1, <4>1, <4>2, SumType DEF Sum
    <3>. QED  BY <1>5, <3>1, <3>2
  <2>. QED  BY <1>5, <2>1, <2>2, PassedStep, QuietCounts
<1>6. CASE RevokeEvent
  <2>1. UNCHANGED <<log, flight, counted>>
    BY <1>6, RevokeEffect DEF topics
  <2>2. st'.highWater = st.highWater /\ st'.consumed = st.consumed
    BY <1>6, RevokeEffect DEF IsClosed
  <2>3. Sum' = Sum
    BY <2>1, <2>2 DEF Sum
  <2>. QED  BY <1>6, <2>1, <2>2, <2>3, PassedStep, QuietCounts
<1>7. CASE Calls
  <2>1. UNCHANGED <<log, st, flight, counted>>
    BY <1>7 DEF Calls, GroupSteps, Open, OpenUnanswered, AssignEvent, Assign, Unassign, AnswerFails,
                ClientAssigns, ClientRevokes, CommitDeferred, Commit, topics
  <2>2. Sum' = Sum
    BY <2>1 DEF Sum
  <2>. QED  BY <1>7, <2>1, <2>2, PassedStep, QuietCounts
<1>8. CASE Exits
  <2>1. Exit
    BY <1>8 DEF Exits, CommitFails, SendFails, Crash, DeadLetterFails
  <2>. QED  BY <2>1, ExitEffect
<1>9. CASE UNCHANGED vars
  <2>1. UNCHANGED <<log, st, flight, counted, pos, committed, seeking>>
    BY <1>9 DEF vars, process, rebalancing, client, topics, history
  <2>2. Sum' = Sum /\ Passed' \subseteq Passed
    BY <2>1 DEF Sum, Passed
  <2>. QED  BY <2>1, <2>2, QuietCounts
<1>. QED  BY <1>1, <1>2, <1>3, <1>4, <1>5, <1>6, <1>7, <1>8, <1>9, Cases

\* Faults only add up, and what is uncounted stays uncounted.
LEMMA HistoryGrows ==
  Base /\ [Next]_vars => /\ faults' = 0 => faults = 0
                         /\ ~uncounted' => ~uncounted
<1>. HAVE Base /\ [Next]_vars
<1>1. faults \in Nat
  BY BaseParts, SettingsAssumption DEF HistoryOK
<1>2. faults' \in {faults, faults + 1}
  BY DEF Next, RecordLoop, RebalanceLoop, Deliver, DeliverMalformed, DeadLettered, Seek, SendOutputs,
         SendMetrics, Commit, Open, AssignEvent, Assign, Unassign, SeekFails, DeadLetterFails,
         OpenUnanswered, AnswerFails, ClientAssigns, ClientRevokes, SendFails, CommitDeferred, CommitFails, StreamEnds, Crash, RevokeEvent, Fault, vars, history
<1>3. uncounted' = uncounted \/ uncounted' = TRUE
  BY DEF Next, RecordLoop, RebalanceLoop, Deliver, DeliverMalformed, DeadLettered, Seek, SendOutputs,
         SendMetrics, Commit, Open, AssignEvent, Assign, Unassign, SeekFails, DeadLetterFails,
         OpenUnanswered, AnswerFails, ClientAssigns, ClientRevokes, SendFails, CommitDeferred, CommitFails, StreamEnds, Crash, RevokeEvent, Exit, vars, history
<1>. QED  BY <1>1, <1>2, <1>3

\* Without a fault nothing is revoked: the positions of what was never assigned
\* are those of the start.
LEMMA StepSteady ==
  Base /\ Steady /\ [Next]_vars /\ faults' = 0 /\ ~uncounted' => Steady'
<1>. SUFFICES ASSUME Base, Steady, [Next]_vars, faults' = 0, ~uncounted' PROVE Steady'
  OBVIOUS
<1>0. ClientOK /\ TopicsOK /\ LoopOK /\ faults \in Nat
  BY BaseParts, SettingsAssumption DEF HistoryOK
<1>1. ASSUME NEW p \in Partitions, Deliver(p) \/ DeliverMalformed(p) PROVE Steady'
  <2>1. MovesOver(p) /\ UNCHANGED rebalancing /\ committed' = committed
    BY <1>1, Moves DEF Deliver, DeliverMalformed, topics
  <2>2. assigned' = assigned /\ p \in assigned
    BY <2>1 DEF MovesOver
  <2>3. \A q \in Partitions \ assigned : pos'[q] = pos[q]
    BY <1>0, <2>1, <2>2 DEF MovesOver, ClientOK
  <2>. QED  BY <2>1, <2>2, <2>3 DEF Steady, rebalancing
<1>2. CASE DeadLettered \/ SendOutputs \/ SendMetrics
  BY <1>2, DeadLetteredEffect, SendEffect DEF Steady, client, rebalancing
<1>3. CASE Seek
  <2>1. UNCHANGED rebalancing /\ assigned' = assigned /\ committed' = committed
    BY <1>3 DEF Seek, topics
  <2>2. \A q \in Partitions \ assigned : pos'[q] = pos[q]
    BY <1>0, <1>3 DEF Seek, ClientOK
  <2>. QED  BY <2>1, <2>2 DEF Steady, rebalancing
<1>4. CASE SeekFails \/ StreamEnds \/ RevokeEvent \/ CommitDeferred \/ OpenUnanswered \/ ClientRevokes
  BY <1>0, <1>4 DEF SeekFails, StreamEnds, RevokeEvent, CommitDeferred, OpenUnanswered, ClientRevokes, Fault
<1>5. CASE Open
  BY <1>5 DEF Open, Steady, client, topics
<1>6. CASE AssignEvent
  <2>1. /\ rb'.parts \subseteq granted' /\ rb'.parts \cap granted = {} /\ granted \subseteq granted'
        /\ rb'.kind = "assign" /\ UNCHANGED <<answerer, client, topics>>
    BY <1>6 DEF AssignEvent
  <2>. QED  BY <2>1 DEF Steady, client, topics
<1>7. CASE Assign
  <2>1. /\ rb.kind = "assign" /\ rb' = NoEvent /\ assigned' = assigned \cup rb.parts
        /\ pos' = [p \in Partitions |-> IF p \in rb.parts THEN committed[p] ELSE pos[p]]
        /\ committed' = committed /\ UNCHANGED <<granted, answerer>>
    BY <1>7 DEF Assign, Take, topics
  <2>2. rb'.kind = "none"
    BY <2>1 DEF NoEvent
  <2>3. \A q \in Partitions \ assigned' : q \in Partitions \ assigned /\ pos'[q] = pos[q]
    BY <2>1
  <2>. QED  BY <2>1, <2>2, <2>3 DEF Steady
<1>8. CASE Unassign
  BY <1>8 DEF Unassign, Steady
<1>9. CASE Commit /\ ~Exit
  <2>1. committed' = StoredPositions /\ UNCHANGED <<rebalancing, assigned, pos>>
    BY <1>9 DEF Commit, client
  <2>2. \A q \in Partitions \ assigned : committed'[q] = committed[q]
    BY <2>1 DEF StoredPositions
  <2>. QED  BY <2>1, <2>2 DEF Steady, rebalancing
<1>10. CASE AnswerFails
  BY <1>0, <1>10 DEF AnswerFails, Steady, Fault
<1>11. CASE ClientAssigns
  BY <1>11 DEF ClientAssigns, Steady
<1>12. CASE Exits
  BY <1>12 DEF Exits, CommitFails, SendFails, Crash, DeadLetterFails, Exit
<1>13. CASE UNCHANGED vars
  BY <1>13 DEF vars, process, rebalancing, client, topics, Steady
<1>. QED  BY <1>1, <1>2, <1>3, <1>4, <1>5, <1>6, <1>7, <1>8, <1>9, <1>10, <1>11, <1>12, <1>13, Cases
          DEF Calls, GroupSteps

\* The same for a step that takes records up or hands them on.
LEMMA StepExact ==
  Base /\ Steady /\ CountC /\ [Next]_vars /\ faults' = 0 /\ ~uncounted' => CountC'
<1>. SUFFICES ASSUME Base, Steady, CountC, [Next]_vars, faults' = 0, ~uncounted' PROVE CountC'
  OBVIOUS
<1>0. LoopOK /\ ClientOK /\ Sum \in Nat /\ faults \in Nat /\ seeks \in [Bonders -> Nat]
  BY BaseParts, SumType, SettingsAssumption DEF HistoryOK
<1>1. ASSUME NEW p \in Partitions, Deliver(p) PROVE CountC'
  <2>. DEFINE r == <<p, pos[p]>>
  <2>1. /\ MovesOver(p) /\ log' = log /\ counted' = counted /\ seeks' = seeks /\ pc = "read"
        /\ r \in Records
    BY <1>1, DeliverEffect, Moves DEF topics, history, MovesOver
  <2>2. PICK s \in States :
          /\ EndsWith(s)
          /\ \/ log[r] = Tombstone /\ IsTallied(s, st)
             \/ log[r] \in Bonders /\ IsIngested(s, st, p, pos[p], log[r])
    BY <1>1, DeliverEffect
  <2>3. flight.letter = {} /\ flight'.letter = {} /\ st'.highWater = s.highWater
    BY <1>0, <2>1, <2>2 DEF LoopOK, EndsWith, HandsOn
  <2>4. Sum' = Sum + (s.consumed - st.consumed) /\ Sum' \in Nat /\ st.consumed \in Nat
    BY <2>1, <2>2, SumEnds, SumType DEF EndsWith
  <2>5. HandedOut' = HandedOut \cup {r} /\ r \notin HandedOut
    BY <2>1, HandsOut
  <2>6. HandedOut \subseteq Records /\ Marked \subseteq Records
    BY DEF HandedOut, Marked, Bonds
  <2>7. SUFFICES ASSUME \A b \in Bonders : seeks[b] = 0
                 PROVE  /\ Marked' = HandedOut' \cap Bonds'
                        /\ Sum' = Cardinality(HandedOut')
    BY <2>1, <2>3 DEF CountC
  <2>8. Marked = HandedOut \cap Bonds /\ Sum = Cardinality(HandedOut)
    BY <2>3, <2>7 DEF CountC
  <2>9. Cardinality(HandedOut \cup {r}) = Cardinality(HandedOut) + 1
    <3>. HIDE DEF r
    <3>. QED  BY <2>1, <2>5, <2>6, OneMore
  <2>10. CASE log[r] = Tombstone /\ IsTallied(s, st)
    <3>1. Marked' = Marked /\ Bonds' = Bonds /\ s.consumed = st.consumed + 1
      BY <2>1, <2>3, <2>10 DEF Marked, Bonds, IsTallied
    <3>2. r \notin Bonds
      BY <2>10, SettingsAssumption DEF Bonds, Tombstone
    <3>3. Sum' = Sum + 1
      BY <1>0, <2>4, <3>1
    <3>. HIDE DEF r
    <3>. QED  BY <2>5, <2>8, <2>9, <3>1, <3>2, <3>3
  <2>11. CASE log[r] \in Bonders /\ IsIngested(s, st, p, pos[p], log[r])
    <3>. DEFINE o == pos[p]
                h == st.highWater[p]
    <3>1. /\ s.highWater = [st.highWater EXCEPT ![p] = IF o <= @ THEN @ ELSE o]
          /\ s.consumed = st.consumed + (IF o <= h THEN 0 ELSE 1)
      <4>. HIDE DEF r
      <4>. QED  BY <2>11 DEF IsIngested
    <3>2. r \in Bonds /\ Bonds' = Bonds
      BY <2>1, <2>11 DEF Bonds
    <3>3. r \notin Marked
      BY <2>5, <2>8
    <3>4. /\ ~(o <= h) /\ Marked \cup {r} \subseteq Marked'
          /\ Marked' \subseteq Marked \cup {r} \cup (HandedOut \cap Bonds)
      BY <2>1, <2>3, <3>1, <3>2, <3>3, MarkMoves
    <3>. HIDE DEF r, o, h
    <3>5. Sum' = Sum + 1
      BY <1>0, <2>4, <3>1, <3>4
    <3>6. Marked' = HandedOut' \cap Bonds'
      BY <2>5, <2>8, <3>2, <3>4
    <3>. QED  BY <2>5, <2>8, <2>9, <3>5, <3>6
  <2>. QED  BY <2>2, <2>10, <2>11
<1>2. ASSUME NEW p \in Partitions, DeliverMalformed(p) PROVE CountC'
  <2>. DEFINE r == <<p, pos[p]>>
  <2>1. /\ MovesOver(p) /\ r \in Records /\ UNCHANGED <<log, st, counted, seeks>>
        /\ flight' = [flight EXCEPT !.letter = {r}] /\ log[r] = Malformed /\ pc = "read"
    BY <1>2, Moves DEF DeliverMalformed, MovesOver, topics, history
  <2>2. flight.letter = {} /\ flight'.letter = {r} /\ flight'.consumed = flight.consumed
    BY <1>0, <2>1 DEF LoopOK, Flights
  <2>3. Sum' = Sum /\ Marked' = Marked /\ Bonds' = Bonds
    BY <2>1, <2>2 DEF Sum, Marked, Bonds
  <2>4. r \notin Bonds
    BY <2>1, SettingsAssumption DEF Bonds, Malformed
  <2>5. HandedOut' = HandedOut \cup {r} /\ r \notin HandedOut
    BY <2>1, HandsOut
  <2>. HIDE DEF r
  <2>6. HandedOut' \ flight'.letter = HandedOut /\ HandedOut \ flight.letter = HandedOut
    BY <2>2, <2>5
  <2>. QED  BY <2>1, <2>2, <2>3, <2>4, <2>5, <2>6 DEF CountC
<1>3. CASE DeadLettered
  <2>1. log' = log /\ counted' = counted /\ pc = "dead_letter" /\ pos' = pos /\ seeks' = seeks
    BY <1>3, DeadLetteredEffect DEF client, history
  <2>2. PICK s \in States : EndsWith(s) /\ IsTallied(s, st)
    BY <1>3, DeadLetteredEffect
  <2>3. flight.letter # {} /\ flight \in Flights
    BY <1>0, <2>1 DEF LoopOK
  <2>4. PICK r \in Records : flight.letter = {r}
    BY <2>3 DEF Flights
  <2>5. flight'.letter = {} /\ st'.highWater = st.highWater /\ s.consumed = st.consumed + 1
    BY <2>2 DEF EndsWith, HandsOn, IsTallied
  <2>6. Sum' = Sum + (s.consumed - st.consumed) /\ st.consumed \in Nat
    BY <2>1, <2>2, SumEnds, SumType DEF EndsWith
  <2>7. Sum' = Sum + 1
    BY <1>0, <2>5, <2>6
  <2>8. Marked' = Marked /\ Bonds' = Bonds /\ HandedOut' = HandedOut
    BY <2>1, <2>5 DEF Bonds, Marked, HandedOut
  <2>9. SUFFICES ASSUME \A b \in Bonders : seeks[b] = 0
                 PROVE  Marked' = HandedOut' \cap Bonds' /\ Sum' = Cardinality(HandedOut')
    BY <2>1, <2>5 DEF CountC
  <2>10. Marked = HandedOut \cap Bonds /\ r \in HandedOut /\ Sum = Cardinality(HandedOut \ {r})
    BY <2>4, <2>9 DEF CountC
  <2>. DEFINE X == HandedOut \ {r}
  <2>11. X \in SUBSET Records /\ r \notin X /\ X \cup {r} = HandedOut
    BY <2>10 DEF HandedOut
  <2>. HIDE DEF X
  <2>12. Cardinality(X \cup {r}) = Cardinality(X) + 1
    BY <2>11, OneMore
  <2>13. Sum = Cardinality(X)
    BY <2>10 DEF X
  <2>. QED  BY <2>7, <2>8, <2>10, <2>11, <2>12, <2>13
<1>4. CASE Seek
  <2>1. /\ HandsOn(st) /\ log' = log /\ counted' = counted /\ pc = "seek" /\ seeking # NoSeek
    BY <1>4, SeekEffect DEF topics
  <2>2. st \in States /\ flight.letter = {} /\ flight'.letter = {} /\ st'.highWater = st.highWater
    BY <1>0, <2>1 DEF LoopOK, HandsOn
  <2>3. Sum' = Sum + (st.consumed - st.consumed) /\ st.consumed \in Nat
    BY <2>1, <2>2, SumEnds, SumType
  <2>4. Sum' = Sum
    BY <1>0, <2>3
  <2>5. CASE seeking.partition \in assigned
    <3>1. seeking.bonder \in Bonders /\ seeks' = [seeks EXCEPT ![seeking.bonder] = @ + 1]
      BY <1>0, <1>4, <2>1, <2>5 DEF Seek, LoopOK, Seeks
    <3>2. seeks'[seeking.bonder] = seeks[seeking.bonder] + 1 /\ seeks[seeking.bonder] \in Nat
      BY <1>0, <3>1
    <3>3. seeks'[seeking.bonder] # 0
      BY <3>2
    <3>. QED  BY <3>1, <3>3 DEF CountC
  <2>6. CASE seeking.partition \notin assigned
    <3>1. pos' = pos /\ seeks' = seeks
      BY <1>4, <2>6 DEF Seek
    <3>. QED  BY <2>1, <2>2, <2>4, <3>1, QuietExact
  <2>. QED  BY <2>5, <2>6
<1>5. CASE SendOutputs \/ SendMetrics
  <2>1. /\ log' = log /\ st' = st /\ flight'.letter = {} /\ flight.letter = {}
        /\ pos' = pos /\ seeks' = seeks
    BY <1>5, SendEffect DEF client
  <2>2. Sum' = Sum
    <3>1. CASE SendOutputs
      <4>1. flight' = [flight EXCEPT !.windows = <<>>] /\ counted' = counted
        BY <3>1 DEF SendOutputs
      <4>2. flight'.consumed = flight.consumed
        BY <1>0, <4>1 DEF LoopOK, Flights
      <4>. QED  BY <2>1, <4>1, <4>2 DEF Sum
    <3>2. CASE SendMetrics
      <4>1. counted' = counted + flight.consumed /\ flight' = NoFlight
        BY <3>2 DEF SendMetrics
      <4>2. flight'.consumed = 0
        BY <4>1 DEF NoFlight
      <4>. QED  BY <2>1, <4>1, <4>2, SumType DEF Sum
    <3>. QED  BY <1>5, <3>1, <3>2
  <2>. QED  BY <2>1, <2>2, QuietExact
<1>6. CASE SeekFails \/ StreamEnds \/ RevokeEvent \/ CommitDeferred \/ OpenUnanswered \/ ClientRevokes
  BY <1>0, <1>6 DEF SeekFails, StreamEnds, RevokeEvent, CommitDeferred, OpenUnanswered, ClientRevokes, Fault
<1>7. CASE Open \/ AssignEvent \/ Assign \/ Unassign \/ (Commit /\ ~Exit)
  <2>1. UNCHANGED <<log, st, flight, counted, seeks>>
    BY <1>7 DEF Open, AssignEvent, Assign, Unassign, Commit, topics, history
  <2>2. pos' = pos
    <3>1. CASE Assign
      <4>1. pos' = [p \in Partitions |-> IF p \in rb.parts THEN committed[p] ELSE pos[p]]
        BY <3>1 DEF Assign, Take
      <4>2. \A p \in Partitions : p \in rb.parts => pos[p] = committed[p]
        BY <3>1 DEF Assign, Steady
      <4>3. \A p \in Partitions : pos'[p] = pos[p]
        BY <4>1, <4>2
      <4>. QED  BY <1>0, <4>1, <4>3 DEF ClientOK
    <3>. QED  BY <1>7, <3>1 DEF Open, AssignEvent, Unassign, GiveUp, Commit, client
  <2>3. Sum' = Sum
    BY <2>1 DEF Sum
  <2>. QED  BY <2>1, <2>2, <2>3, QuietExact
<1>8. CASE AnswerFails
  BY <1>0, <1>8 DEF AnswerFails, Steady, Fault
<1>9. CASE ClientAssigns
  BY <1>9 DEF ClientAssigns, Steady
<1>10. CASE Exits
  BY <1>10 DEF Exits, CommitFails, SendFails, Crash, DeadLetterFails, Exit
<1>11. CASE UNCHANGED vars
  <2>1. UNCHANGED <<log, st, flight, counted, pos, seeks>>
    BY <1>11 DEF vars, process, rebalancing, client, topics, history
  <2>2. Sum' = Sum
    BY <2>1 DEF Sum
  <2>. QED  BY <2>1, <2>2, QuietExact
<1>. QED  BY <1>1, <1>2, <1>3, <1>4, <1>5, <1>6, <1>7, <1>8, <1>9, <1>10, <1>11, Cases
          DEF Calls, GroupSteps

\* The counts of a step.
LEMMA StepCount == Base /\ Safe /\ CountInv /\ [Next]_vars => CountInv'
<1>. HAVE Base /\ Safe /\ CountInv /\ [Next]_vars
<1>1. ASSUME ~uncounted' PROVE CountA' /\ CountB' /\ (faults' = 0 => Steady' /\ CountC')
  <2>1. ~uncounted /\ (faults' = 0 => faults = 0)
    BY <1>1, HistoryGrows
  <2>2. CountA /\ CountB /\ (faults = 0 => Steady /\ CountC)
    BY <2>1, CountParts
  <2>3. CountA' /\ CountB'
    BY <1>1, <2>2, StepBounds
  <2>4. faults' = 0 => Steady'
    BY <1>1, <2>1, <2>2, StepSteady
  <2>5. faults' = 0 => CountC'
    BY <1>1, <2>1, <2>2, StepExact
  <2>. QED  BY <2>3, <2>4, <2>5
<1>. QED  BY <1>1, CountPrimed

\* At the start nothing is passed, marked or counted.
LEMMA InitRest == Init => ReplayInv /\ Safe /\ CountInv
<1>. HAVE Init
<1>1. /\ st = Fresh /\ seeking = NoSeek /\ flight = NoFlight /\ counted = 0 /\ faults = 0 /\ rb = NoEvent
      /\ granted = {} /\ answerer = "nobody" /\ assigned = {} /\ seeks = [b \in Bonders |-> 0]
      /\ \A p \in Partitions : pos[p] = 0 /\ committed[p] = 0
  BY DEF Init
<1>2. /\ st.seek = NoSeek /\ st.consumed = 0 /\ st.replayed = {} /\ flight.letter = {} /\ flight.consumed = 0
      /\ \A p \in Partitions : st.highWater[p] = -1
      /\ \A b \in Bonders : st.window[b].start = -1
  BY <1>1 DEF Fresh, NoFlight, NoWindow, None
<1>3. NoSeek.from = 0 /\ NoSeek.bonder = -1 /\ NoEvent.kind = "none"
  BY DEF NoSeek, NoEvent, None
<1>4. Passed = {}
  <2>1. \A r \in Records : r \notin Passed
    <3>. TAKE r \in Records
    <3>1. r[1] \in Partitions /\ r[2] \in Nat
      BY RecordType
    <3>. QED  BY <1>1, <1>2, <1>3, <3>1 DEF Passed
  <2>. QED  BY <2>1 DEF Passed
<1>5. Marked = {}
  <2>1. \A r \in Bonds : r[1] \in Partitions /\ r[2] \in Nat /\ st.highWater[r[1]] = -1
    BY <1>2, RecordType DEF Bonds
  <2>. QED  BY <2>1 DEF Marked
<1>6. HandedOut = {}
  <2>1. \A r \in Records : r[2] \in Nat /\ pos[r[1]] = 0
    BY <1>1, RecordType
  <2>. QED  BY <2>1 DEF HandedOut
<1>7. Sum = 0 /\ Cardinality({}) = 0
  BY <1>1, <1>2, FS_EmptySet DEF Sum
<1>8. ReplayInv
  <2>1. \A b \in Bonders : b # -1 /\ seeks[b] = 0
    BY <1>1, SettingsAssumption
  <2>. QED  BY <1>1, <1>2, <1>3, <2>1 DEF ReplayInv
<1>9. Safe
  <2>1. NothingVanishes
    <3>. SUFFICES ASSUME NEW r \in Records PROVE ~(r[2] < committed[r[1]])
      BY DEF NothingVanishes
    <3>. QED  BY <1>1, RecordType
  <2>. QED  BY <1>4, <2>1 DEF Safe
<1>10. CountA /\ CountB /\ Steady /\ CountC
  <2>1. CountA
    BY <1>4, <1>5, <1>7 DEF CountA
  <2>2. CountB
    BY <1>4, <1>5, <1>7 DEF CountB
  <2>3. Steady
    BY <1>1, <1>3 DEF Steady
  <2>4. CountC
    BY <1>2, <1>5, <1>6, <1>7 DEF CountC
  <2>. QED  BY <2>1, <2>2, <2>3, <2>4
<1>. QED  BY <1>8, <1>9, <1>10, CountParts

(***************************************************************************)
(* The theorems.                                                           *)
(***************************************************************************)

\* The inductive invariant: what the record loop and rebalance_loop keep true
\* of the State they share, of the client and of the topics, at every await.
THEOREM Invariance == Spec => []Inv
<1>1. Inv <=> Base /\ ReplayInv /\ Safe /\ CountInv
  BY DEF Inv, Base, Safe
<1>2. Init => Inv
  BY <1>1, InitBase, InitRest
<1>3. Inv /\ [Next]_vars => Inv'
  <2>. SUFFICES ASSUME Inv, [Next]_vars PROVE Inv'
    OBVIOUS
  <2>1. Base' /\ ReplayInv' /\ Safe' /\ CountInv'
    BY <1>1, StepBase, StepReplay, StepSafe, StepCount
  <2>. QED  BY <2>1 DEF Inv, Base, Safe
<1>. QED  BY <1>2, <1>3, PTL DEF Spec

\* commit([]) takes what the stream has handed out for done: still every bond
\* below a committed position is in an acknowledged output, in the memory of
\* the process, or was in that of one that died, and every malformed record is
\* on the DLQ, whatever replays, revocations and deferred commits came between.
THEOREM NothingVanishesTheorem == Spec => []NothingVanishes
<1>1. Inv => NothingVanishes
  BY DEF Inv
<1>. QED  BY <1>1, Invariance, PTL

\* The `replayed` flag of close_window: in one life of the process a bonder is
\* sought at most once, however often its alarms come back during the replay,
\* and though a second alarm may take over a request not yet carried out.
THEOREM ReplayCannotLoopTheorem == Spec => []ReplayCannotLoop
<1>1. Inv => ReplayCannotLoop
  <2>. HAVE Inv
  <2>1. \A b \in Bonders :
          seeks[b] + Turn(st.seek, b) + Turn(seeking, b) <= Allowed(st.replayed, b)
    BY ReplayTerms DEF Inv
  <2>2. \A b \in Bonders : /\ seeks[b] \in Nat /\ Turn(st.seek, b) \in {0, 1}
                           /\ Turn(seeking, b) \in {0, 1} /\ Allowed(st.replayed, b) \in {0, 1}
    BY DEF Inv, TypeOK, Turn, Allowed
  <2>3. \A b \in Bonders : seeks[b] <= 1
    BY <2>1, <2>2
  <2>. QED  BY <2>3 DEF ReplayCannotLoop
<1>. QED  BY <1>1, Invariance, PTL

\* The high-water marks: until a metrics send fails or a process exits, the
\* `consumed` metrics count each bond once over every replay, rebalance and
\* deferred commit, and what is no bond at least once, exactly once as long as
\* nothing rewinds a partition.
THEOREM CountsOnceTheorem == Spec => []CountsOnce
<1>1. Inv => CountsOnce
  <2>. SUFFICES ASSUME Inv, ~uncounted PROVE CountsOnce
    BY DEF CountsOnce
  <2>. DEFINE others == {r \in Records \ Bonds : r[2] < pos[r[1]]} \ flight.letter
  <2>1. CountA /\ CountB /\ (faults = 0 => Steady /\ CountC)
    BY CountParts DEF Inv
  <2>2. Base
    BY DEF Inv, Base
  <2>3. Sum \in Nat /\ \A r \in flight.letter : log[r] = Malformed
    BY <2>2, SumType, BaseParts DEF LoopOK
  <2>4. flight.letter \cap Bonds = {}
    BY <2>3, SettingsAssumption DEF Bonds, Malformed
  <2>5. /\ Marked \subseteq Bonds /\ Bonds \subseteq Records /\ HandedOut \subseteq Passed
        /\ others = (HandedOut \ Bonds) \ flight.letter
    BY DEF Marked, Bonds, HandedOut, Passed
  <2>. HIDE DEF others
  <2>6. Sum >= Cardinality(Marked \cup others)
    <3>1. PICK X \in SUBSET Records :
            Passed \cup Marked \subseteq X \cup flight.letter /\ Cardinality(X) <= Sum
      BY <2>1 DEF CountB
    <3>2. Marked \cup others \subseteq X
      BY <2>4, <2>5, <3>1
    <3>3. IsFiniteSet(X)
      BY FiniteRecords, FS_Subset
    <3>4. /\ Cardinality(Marked \cup others) <= Cardinality(X)
          /\ Cardinality(Marked \cup others) \in Nat /\ Cardinality(X) \in Nat
      BY <3>2, <3>3, FS_Subset, FS_CardinalityType
    <3>. QED  BY <2>3, <3>1, <3>4
  <2>7. faults = 0 /\ (\A b \in Bonders : seeks[b] = 0) => Sum = Cardinality(Marked \cup others)
    <3>. HAVE faults = 0 /\ (\A b \in Bonders : seeks[b] = 0)
    <3>1. Marked = HandedOut \cap Bonds /\ Sum = Cardinality(HandedOut \ flight.letter)
      BY <2>1 DEF CountC
    <3>2. Marked \cup others = HandedOut \ flight.letter
      BY <2>4, <2>5, <3>1
    <3>. QED  BY <3>1, <3>2
  <2>8. Records = Bonds => Sum = Cardinality(Marked)
    BY <2>1 DEF CountA
  <2>. QED  BY <2>6, <2>7, <2>8 DEF CountsOnce, Sum, Marked, others
<1>. QED  BY <1>1, Invariance, PTL
=============================================================================
