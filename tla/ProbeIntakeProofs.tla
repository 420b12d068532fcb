------------------------- MODULE ProbeIntakeProofs -------------------------
(***************************************************************************)
(* Proofs about ST-01 and its panel: the inductive invariant of            *)
(* ProbeIntake, and with it that the panel says what the responses said    *)
(* and that the fault ledger keeps the rows of a fault apart, for any      *)
(* number of uploads, wafers and faults.                                   *)
(***************************************************************************)
EXTENDS ProbeIntake, FiniteSetTheorems, TLAPS

Rows == [text : Texts, ts : Nat]

LedgerOK(l) ==
  /\ DOMAIN l.seen \subseteq Texts /\ l.seen \in [DOMAIN l.seen -> Nat]
  /\ l \in [rows : Seq(Rows), seen : {l.seen}]

(***************************************************************************)
(* push_fault.                                                             *)
(***************************************************************************)

\* What is remembered after a fault: it at its stamp, and of the others those not
\* pruned, unchanged.
LEMMA PushSeen ==
  ASSUME NEW l, LedgerOK(l), NEW text \in Texts, NEW ts \in Nat
  PROVE  LET e == PushFault(l, text, ts) IN
           /\ DOMAIN e.seen \subseteq DOMAIN l.seen \cup {text}
           /\ text \in DOMAIN e.seen /\ e.seen[text] = ts
           /\ \A t \in DOMAIN e.seen : t # text => e.seen[t] = l.seen[t]
           /\ \A t \in DOMAIN l.seen : t # text /\ t \notin DOMAIN e.seen => l.seen[t] < ts - SeenFor
           /\ e.seen \in [DOMAIN e.seen -> Nat]
<1>. DEFINE seen == [t \in DOMAIN l.seen \cup {text} |-> IF t = text THEN ts ELSE l.seen[t]]
            kept == {t \in DOMAIN seen : seen[t] >= ts - SeenFor}
            e == PushFault(l, text, ts)
<1>1. /\ DOMAIN seen = DOMAIN l.seen \cup {text}
      /\ seen[text] = ts
      /\ \A t \in DOMAIN l.seen : t # text => seen[t] = l.seen[t]
      /\ \A t \in DOMAIN seen : seen[t] \in Nat
      /\ seen \in [DOMAIN seen -> Nat]
  BY DEF LedgerOK
<1>2. SeenFor \in Nat
  BY FaultLedgerAssumption
<1>3. e.seen = seen \/ e.seen = Restrict(seen, kept)
  <2>1. e.seen = seen \/ e.seen = Pruned(seen, ts)
    BY DEF PushFault, LedgerOK
  <2>. HIDE DEF seen, e
  <2>. QED  BY <2>1 DEF Pruned
<1>. HIDE DEF seen, e
<1>4. CASE e.seen = seen
  BY <1>1, <1>4 DEF e
<1>5. CASE e.seen = Restrict(seen, kept)
  <2>1. DOMAIN e.seen = kept /\ \A t \in kept : e.seen[t] = seen[t]
    BY <1>5 DEF Restrict
  <2>2. text \in kept
    BY <1>1, <1>2
  <2>3. e.seen \in [kept -> Nat]
    BY <1>5, <1>1 DEF Restrict
  <2>4. \A t \in DOMAIN seen : t \notin kept => seen[t] < ts - SeenFor
    BY <1>1, <1>2
  <2>. HIDE DEF kept
  <2>5. kept \subseteq DOMAIN seen
    BY DEF kept
  <2>. QED  BY <2>1, <2>2, <2>3, <2>4, <2>5, <1>1 DEF e
<1>. QED  BY <1>3, <1>4, <1>5

\* The rows after a fault: as before if it was seen recently, else a new one in
\* front of rows as they were.
LEMMA PushRows ==
  ASSUME NEW l, LedgerOK(l), NEW text \in Texts, NEW ts \in Nat
  PROVE  LET e == PushFault(l, text, ts) IN
           /\ e.rows \in Seq(Rows)
           /\ Recent(l, text, ts) => e.rows = l.rows
           /\ ~Recent(l, text, ts) =>
                /\ e.rows[1] = [text |-> text, ts |-> ts] /\ 1 \in DOMAIN e.rows
                /\ \A i \in DOMAIN e.rows : i # 1 => i - 1 \in DOMAIN l.rows /\ e.rows[i] = l.rows[i - 1]
<1>. DEFINE new  == [text |-> text, ts |-> ts]
            rows == <<new>> \o l.rows
            e    == PushFault(l, text, ts)
<1>1. new \in Rows /\ l.rows \in Seq(Rows) /\ FaultsKept \in Nat \ {0}
  BY FaultLedgerAssumption DEF LedgerOK, Rows
<1>2. CASE Recent(l, text, ts)
  BY <1>1, <1>2 DEF PushFault, LedgerOK
<1>3. CASE ~Recent(l, text, ts)
  <2>1. e.rows = IF Len(rows) > FaultsKept THEN SubSeq(rows, 1, FaultsKept) ELSE rows
    BY <1>3 DEF PushFault
  <2>. HIDE DEF new
  <2>2. /\ rows \in Seq(Rows) /\ Len(rows) = Len(l.rows) + 1 /\ Len(l.rows) \in Nat
        /\ rows[1] = new
        /\ \A i \in 2 .. Len(rows) : i - 1 \in DOMAIN l.rows /\ rows[i] = l.rows[i - 1]
    BY <1>1
  <2>. HIDE DEF rows, e
  <2>3. /\ e.rows \in Seq(Rows) /\ 1 \in DOMAIN e.rows
        /\ \A i \in DOMAIN e.rows : i \in 1 .. Len(rows) /\ e.rows[i] = rows[i]
    <3>1. CASE Len(rows) > FaultsKept
      <4>1. e.rows = SubSeq(rows, 1, FaultsKept)
        BY <2>1, <3>1
      <4>2. DOMAIN e.rows = 1 .. FaultsKept /\ \A i \in 1 .. FaultsKept : e.rows[i] = rows[i]
        BY <4>1, <2>2, <1>1, <3>1
      <4>3. e.rows \in Seq(Rows)
        BY <4>1, <2>2, <1>1, <3>1
      <4>. QED  BY <4>2, <4>3, <1>1, <2>2, <3>1
    <3>2. CASE ~(Len(rows) > FaultsKept)
      BY <2>1, <2>2, <3>2, <1>1
    <3>. QED  BY <3>1, <3>2
  <2>4. \A i \in DOMAIN e.rows : i # 1 => i \in 2 .. Len(rows)
    BY <2>3, <2>2
  <2>. QED  BY <2>2, <2>3, <2>4, <1>3 DEF new, e
<1>. QED  BY <1>2, <1>3

\* What LedgerInv says when all that was read is stamped ts or earlier.
Before(l, ts) ==
  /\ \A t \in DOMAIN l.seen : l.seen[t] <= ts
  /\ \A i \in DOMAIN l.rows :
       /\ l.rows[i].ts <= ts
       /\ IF l.rows[i].text \in DOMAIN l.seen THEN l.rows[i].ts <= l.seen[l.rows[i].text]
                                              ELSE l.rows[i].ts + SeenFor <= ts
  /\ \A i, j \in DOMAIN l.rows :
       i < j /\ l.rows[i].text = l.rows[j].text => l.rows[i].ts - l.rows[j].ts >= FaultWindow

\* A fault stamped no earlier than what was read keeps the rows apart: a new row
\* is made only if the last sight of the fault is a window back, and a fault
\* pruned from the memory was last seen longer ago than that.
LEMMA PushBefore ==
  ASSUME NEW l, LedgerOK(l), NEW text \in Texts, NEW ts \in Nat, Before(l, ts)
  PROVE  LedgerOK(PushFault(l, text, ts)) /\ Before(PushFault(l, text, ts), ts)
<1>. DEFINE e == PushFault(l, text, ts)
<1>1. /\ DOMAIN e.seen \subseteq DOMAIN l.seen \cup {text}
      /\ text \in DOMAIN e.seen /\ e.seen[text] = ts
      /\ \A t \in DOMAIN e.seen : t # text => e.seen[t] = l.seen[t]
      /\ \A t \in DOMAIN l.seen : t # text /\ t \notin DOMAIN e.seen => l.seen[t] < ts - SeenFor
      /\ e.seen \in [DOMAIN e.seen -> Nat]
  BY PushSeen
<1>2. /\ e.rows \in Seq(Rows)
      /\ Recent(l, text, ts) => e.rows = l.rows
      /\ ~Recent(l, text, ts) =>
           /\ e.rows[1] = [text |-> text, ts |-> ts] /\ 1 \in DOMAIN e.rows
           /\ \A i \in DOMAIN e.rows : i # 1 => i - 1 \in DOMAIN l.rows /\ e.rows[i] = l.rows[i - 1]
  BY PushRows
<1>3. e = [rows |-> e.rows, seen |-> e.seen]
  BY DEF PushFault, LedgerOK
<1>4. {FaultWindow, SeenFor} \subseteq Nat /\ FaultWindow <= SeenFor
  BY FaultLedgerAssumption
<1>5. /\ DOMAIN l.seen \subseteq Texts /\ l.seen \in [DOMAIN l.seen -> Nat]
      /\ l.rows \in Seq(Rows)
  BY DEF LedgerOK
<1>6. \A i \in DOMAIN l.rows : l.rows[i].ts \in Nat /\ i \in Nat
  <2>1. \A i \in DOMAIN l.rows : l.rows[i] \in Rows /\ i \in Nat
    BY <1>5
  <2>. QED  BY <2>1 DEF Rows
<1>7. \A t \in DOMAIN l.seen : l.seen[t] \in Nat /\ l.seen[t] <= ts
  BY <1>5 DEF Before
<1>. HIDE DEF e
<1>8. LedgerOK(e)
  BY <1>1, <1>2, <1>3, <1>5 DEF LedgerOK
<1>9. \A t \in DOMAIN e.seen : e.seen[t] <= ts
  BY <1>1, <1>7
<1>. DEFINE Kept(r) == /\ r.ts <= ts
                       /\ IF r.text \in DOMAIN e.seen THEN r.ts <= e.seen[r.text]
                                                      ELSE r.ts + SeenFor <= ts
<1>10. \A i \in DOMAIN l.rows : Kept(l.rows[i])
  <2>. TAKE i \in DOMAIN l.rows
  <2>. DEFINE r == l.rows[i]
  <2>1. /\ r.ts \in Nat /\ r.ts <= ts
        /\ IF r.text \in DOMAIN l.seen THEN r.ts <= l.seen[r.text] ELSE r.ts + SeenFor <= ts
    BY <1>6 DEF Before
  <2>. HIDE DEF r
  <2>2. CASE r.text = text
    BY <2>1, <2>2, <1>1 DEF r
  <2>3. CASE r.text # text /\ r.text \in DOMAIN e.seen
    <3>1. r.text \in DOMAIN l.seen /\ e.seen[r.text] = l.seen[r.text]
      BY <1>1, <2>3
    <3>. QED  BY <3>1, <2>1, <2>3 DEF r
  <2>4. CASE r.text # text /\ r.text \notin DOMAIN e.seen
    <3>1. CASE r.text \in DOMAIN l.seen
      <4>1. l.seen[r.text] < ts - SeenFor /\ l.seen[r.text] \in Nat
        BY <1>1, <1>7, <2>4, <3>1
      <4>. QED  BY <4>1, <2>1, <2>4, <3>1, <1>4, <1>1 DEF r
    <3>2. CASE r.text \notin DOMAIN l.seen
      BY <2>1, <2>4, <3>2 DEF r
    <3>. QED  BY <3>1, <3>2
  <2>. QED  BY <2>2, <2>3, <2>4 DEF r
<1>11. CASE Recent(l, text, ts)
  <2>1. e.rows = l.rows
    BY <1>2, <1>11
  <2>. QED  BY <2>1, <1>8, <1>9, <1>10 DEF Before, e
<1>12. CASE ~Recent(l, text, ts)
  <2>1. /\ e.rows[1] = [text |-> text, ts |-> ts] /\ 1 \in DOMAIN e.rows
        /\ \A i \in DOMAIN e.rows : i # 1 => i - 1 \in DOMAIN l.rows /\ e.rows[i] = l.rows[i - 1]
    BY <1>2, <1>12
  <2>2. \A i \in DOMAIN e.rows : i \in Nat /\ i >= 1
    BY <1>2
  <2>3. Kept(e.rows[1])
    BY <2>1, <1>1
  <2>4. \A i \in DOMAIN l.rows : l.rows[i].text = text => ts - l.rows[i].ts >= FaultWindow
    <3>. TAKE i \in DOMAIN l.rows
    <3>. HAVE l.rows[i].text = text
    <3>. DEFINE r == l.rows[i]
    <3>1. /\ r.ts \in Nat /\ r.text = text
          /\ IF r.text \in DOMAIN l.seen THEN r.ts <= l.seen[r.text] ELSE r.ts + SeenFor <= ts
      BY <1>6 DEF Before
    <3>. HIDE DEF r
    <3>2. CASE text \in DOMAIN l.seen
      <4>1. ts - l.seen[text] >= FaultWindow /\ l.seen[text] \in Nat
        BY <1>12, <3>2, <1>7, <1>4 DEF Recent
      <4>. QED  BY <4>1, <3>1, <3>2, <1>4 DEF r
    <3>3. CASE text \notin DOMAIN l.seen
      BY <3>1, <3>3, <1>4 DEF r
    <3>. QED  BY <3>2, <3>3
  <2>5. \A i, j \in DOMAIN e.rows :
          i < j /\ e.rows[i].text = e.rows[j].text => e.rows[i].ts - e.rows[j].ts >= FaultWindow
    <3>. TAKE i, j \in DOMAIN e.rows
    <3>. HAVE i < j /\ e.rows[i].text = e.rows[j].text
    <3>1. j # 1 /\ j - 1 \in DOMAIN l.rows /\ e.rows[j] = l.rows[j - 1]
      BY <2>1, <2>2
    <3>2. CASE i = 1
      BY <3>1, <3>2, <2>1, <2>4
    <3>3. CASE i # 1
      <4>1. i - 1 \in DOMAIN l.rows /\ e.rows[i] = l.rows[i - 1] /\ i - 1 < j - 1
        BY <2>1, <2>2, <3>3
      <4>. QED  BY <4>1, <3>1 DEF Before
    <3>. QED  BY <3>2, <3>3
  <2>6. \A i \in DOMAIN e.rows : Kept(e.rows[i])
    BY <2>1, <2>3, <1>10
  <2>. QED  BY <2>5, <2>6, <1>8, <1>9 DEF Before, e
<1>. QED  BY <1>11, <1>12

(***************************************************************************)
(* The fault ledger.                                                       *)
(***************************************************************************)

\* The panel's ledger as TypeOK has it.
LEMMA TypedLedger == TypeOK => LedgerOK(panel.ledger)
BY DEF TypeOK, LedgerOK, Rows

\* Nothing read is stamped later than the next metric, if they are in order.
LEMMA LedgerBefore ==
  ASSUME TypeOK, LedgerInv, ~refed, read < Len(feed), feed[read + 1].ts \in Nat,
         \A i, j \in 1 .. read + 1 : i < j => feed[i].ts <= feed[j].ts
  PROVE  Before(panel.ledger, feed[read + 1].ts)
<1>. DEFINE l  == panel.ledger
            ts == feed[read + 1].ts
            Past(x) == \E k \in 1 .. read : x <= feed[k].ts
<1>1. read \in Nat /\ feed \in Seq(Metric) /\ LedgerOK(l) /\ SeenFor \in Nat
  <2>1. LedgerOK(l)
    BY TypedLedger
  <2>2. read \in Nat /\ feed \in Seq(Metric)
    BY DEF TypeOK
  <2>. QED  BY <2>1, <2>2, FaultLedgerAssumption
<1>2. \A k \in 1 .. read : feed[k].ts \in Nat /\ feed[k].ts <= ts
  <2>. TAKE k \in 1 .. read
  <2>1. feed[k] \in Metric
    BY <1>1
  <2>2. feed[k].ts \in Nat
    BY <2>1 DEF Metric
  <2>3. k \in 1 .. read + 1 /\ read + 1 \in 1 .. read + 1 /\ k < read + 1
    BY <1>1
  <2>. QED  BY <2>2, <2>3
<1>3. StampsInOrder
  BY <1>1 DEF StampsInOrder
<1>4. \A x \in Nat : Past(x) => x <= ts
  BY <1>2
<1>5. /\ \A t \in DOMAIN l.seen : Past(l.seen[t])
      /\ \A i \in DOMAIN l.rows :
           /\ Past(l.rows[i].ts)
           /\ IF l.rows[i].text \in DOMAIN l.seen THEN l.rows[i].ts <= l.seen[l.rows[i].text]
                                              ELSE Past(l.rows[i].ts + SeenFor)
      /\ \A i, j \in DOMAIN l.rows :
           i < j /\ l.rows[i].text = l.rows[j].text => l.rows[i].ts - l.rows[j].ts >= FaultWindow
  BY <1>3 DEF LedgerInv, RowsApart
<1>6. \A t \in DOMAIN l.seen : l.seen[t] \in Nat
  BY <1>1 DEF LedgerOK
<1>7. \A i \in DOMAIN l.rows : l.rows[i].ts \in Nat /\ l.rows[i].ts + SeenFor \in Nat
  <2>1. \A i \in DOMAIN l.rows : l.rows[i] \in Rows
    BY <1>1 DEF LedgerOK
  <2>. QED  BY <2>1, <1>1 DEF Rows
<1>. HIDE DEF l, ts, Past
<1>. QED  BY <1>4, <1>5, <1>6, <1>7 DEF Before, l, ts

\* What a metric carries, by its kind.
LEMMA MetricKinds ==
  ASSUME NEW v \in Metric
  PROVE  /\ v.kind \in {"produced", "latency", "rejected", "fault"} /\ v.ts \in Nat
         /\ v.kind = "produced" => v.n \in 0 .. Wafers
         /\ v.kind = "latency" => v.errors \in 0 .. Wafers
         /\ v.kind \in {"rejected", "fault"} => v.text \in Texts
BY DEF Metric

\* The record that Fold reads, and what it leaves in the panel.
LEMMA FoldEffect ==
  ASSUME TypeOK, Fold
  PROVE  LET v == feed[read + 1]
             l == panel.ledger
         IN  /\ v \in Metric /\ read + 1 \in DOMAIN feed
             /\ panel' = [joined   |-> IF panel.joined = -1 THEN read ELSE panel.joined,
                          wafers   |-> panel.wafers + (IF v.kind = "produced" THEN v.n ELSE 0),
                          lots     |-> panel.lots + (IF v.kind = "produced" THEN 1 ELSE 0),
                          errors   |-> panel.errors + (IF v.kind = "latency" THEN v.errors ELSE 0),
                          rejected |-> panel.rejected + (IF v.kind = "rejected" THEN 1 ELSE 0),
                          ledger   |-> IF v.kind \in {"rejected", "fault"}
                                       THEN PushFault(l, v.text, v.ts) ELSE l]
<1>. DEFINE v == feed[read + 1]
            l == panel.ledger
            m == [panel EXCEPT !.joined = IF @ = -1 THEN read ELSE @]
<1>1. v \in Metric /\ read + 1 \in DOMAIN feed
  BY DEF TypeOK, Fold
<1>2. panel' = FoldIntake(m, v)
  BY DEF Fold
<1>3. /\ panel = [joined |-> panel.joined, wafers |-> panel.wafers, lots |-> panel.lots,
                  errors |-> panel.errors, rejected |-> panel.rejected, ledger |-> l]
      /\ {panel.wafers, panel.lots, panel.errors, panel.rejected} \subseteq Nat
  BY DEF TypeOK
<1>4. v.kind \in {"produced", "latency", "rejected", "fault"}
  BY <1>1, MetricKinds
<1>. DEFINE j == IF panel.joined = -1 THEN read ELSE panel.joined
<1>5. m = [joined |-> j, wafers |-> panel.wafers, lots |-> panel.lots,
           errors |-> panel.errors, rejected |-> panel.rejected, ledger |-> l]
  BY <1>3
<1>. DEFINE n == [joined   |-> j,
                  wafers   |-> panel.wafers + (IF v.kind = "produced" THEN v.n ELSE 0),
                  lots     |-> panel.lots + (IF v.kind = "produced" THEN 1 ELSE 0),
                  errors   |-> panel.errors + (IF v.kind = "latency" THEN v.errors ELSE 0),
                  rejected |-> panel.rejected + (IF v.kind = "rejected" THEN 1 ELSE 0),
                  ledger   |-> IF v.kind \in {"rejected", "fault"}
                               THEN PushFault(l, v.text, v.ts) ELSE l]
<1>6. panel' = n
  <2>. HIDE DEF v, l, m, j
  <2>1. CASE v.kind = "produced"
    <3>1. panel' = [m EXCEPT !.wafers = m.wafers + v.n, !.lots = m.lots + 1]
      BY <1>2, <2>1 DEF FoldIntake
    <3>3. panel' = [joined |-> j, wafers |-> panel.wafers + v.n, lots |-> panel.lots + 1,
                    errors |-> panel.errors, rejected |-> panel.rejected, ledger |-> l]
      BY ONLY <3>1, <1>5
    <3>2. n = [joined |-> j, wafers |-> panel.wafers + v.n, lots |-> panel.lots + 1,
               errors |-> panel.errors, rejected |-> panel.rejected, ledger |-> l]
      BY <1>3, <2>1
    <3>. HIDE DEF n
    <3>. QED  BY <3>2, <3>3
  <2>2. CASE v.kind = "latency"
    <3>1. panel' = [m EXCEPT !.errors = m.errors + v.errors]
      BY <1>2, <2>2 DEF FoldIntake
    <3>3. panel' = [joined |-> j, wafers |-> panel.wafers, lots |-> panel.lots,
                    errors |-> panel.errors + v.errors, rejected |-> panel.rejected, ledger |-> l]
      BY ONLY <3>1, <1>5
    <3>2. n = [joined |-> j, wafers |-> panel.wafers, lots |-> panel.lots,
               errors |-> panel.errors + v.errors, rejected |-> panel.rejected, ledger |-> l]
      BY <1>3, <2>2
    <3>. HIDE DEF n
    <3>. QED  BY <3>2, <3>3
  <2>3. CASE v.kind = "rejected"
    <3>. DEFINE e == PushFault(l, v.text, v.ts)
                o == [joined |-> j, wafers |-> panel.wafers, lots |-> panel.lots,
                      errors |-> panel.errors, rejected |-> panel.rejected, ledger |-> e]
    <3>1. FoldFault(m, v) = o
      BY <1>5 DEF FoldFault
    <3>2. panel' = [o EXCEPT !.rejected = o.rejected + 1]
      BY <1>2, <2>3, <3>1 DEF FoldIntake
    <3>3. panel' = [joined |-> j, wafers |-> panel.wafers, lots |-> panel.lots,
                    errors |-> panel.errors, rejected |-> panel.rejected + 1, ledger |-> e]
      BY ONLY <3>2
    <3>4. n = [joined |-> j, wafers |-> panel.wafers, lots |-> panel.lots,
               errors |-> panel.errors, rejected |-> panel.rejected + 1, ledger |-> e]
      BY <1>3, <2>3
    <3>. HIDE DEF n
    <3>. QED  BY <3>3, <3>4
  <2>4. CASE v.kind = "fault"
    BY <1>2, <1>3, <1>5, <2>4 DEF FoldIntake, FoldFault
  <2>. QED  BY <1>4, <2>1, <2>2, <2>3, <2>4
<1>. QED  BY <1>1, <1>6

\* LedgerInv speaks of what was read only: metrics that come after do not matter.
LEMMA LedgerUnread ==
  ASSUME LedgerInv, panel' = panel, read' = read, refed' = refed,
         \A k \in 1 .. read : feed'[k] = feed[k]
  PROVE  LedgerInv'
BY DEF LedgerInv, StampsInOrder, RowsApart

\* The ledger is typed after a fold, and LedgerInv holds of it.
LEMMA FoldLedger ==
  ASSUME TypeOK, LedgerInv, Fold
  PROVE  LedgerOK(panel'.ledger) /\ LedgerInv'
<1>. DEFINE v == feed[read + 1]
            l == panel.ledger
            e == panel'.ledger
<1>1. /\ v \in Metric /\ read \in Nat /\ read < Len(feed)
      /\ e = IF v.kind \in {"rejected", "fault"} THEN PushFault(l, v.text, v.ts) ELSE l
  <2>1. panel'.ledger = IF v.kind \in {"rejected", "fault"} THEN PushFault(l, v.text, v.ts) ELSE l
    <3>. HIDE DEF v, l
    <3>. QED  BY FoldEffect DEF v, l
  <2>. QED  BY <2>1, FoldEffect DEF Fold, TypeOK
<1>2. v.ts \in Nat /\ (v.kind \in {"rejected", "fault"} => v.text \in Texts)
  <2>. HIDE DEF v
  <2>. QED  BY <1>1, MetricKinds
<1>3. LedgerOK(l)
  BY TypedLedger
<1>4. read' = read + 1 /\ feed' = feed /\ refed' = refed
  BY DEF Fold
<1>5. LedgerOK(e)
  <2>1. CASE v.kind \in {"rejected", "fault"}
    <3>. HIDE DEF v, l, e
    <3>1. DOMAIN PushFault(l, v.text, v.ts).seen \subseteq Texts
      BY <1>2, <1>3, <2>1, PushSeen DEF LedgerOK
    <3>2. PushFault(l, v.text, v.ts).seen \in [DOMAIN PushFault(l, v.text, v.ts).seen -> Nat]
      BY <1>2, <1>3, <2>1, PushSeen
    <3>3. PushFault(l, v.text, v.ts).rows \in Seq(Rows)
      BY <1>2, <1>3, <2>1, PushRows
    <3>4. PushFault(l, v.text, v.ts) = [rows |-> PushFault(l, v.text, v.ts).rows,
                                        seen |-> PushFault(l, v.text, v.ts).seen]
      BY <1>3 DEF PushFault, LedgerOK
    <3>5. LedgerOK(PushFault(l, v.text, v.ts))
      BY <3>1, <3>2, <3>3, <3>4 DEF LedgerOK
    <3>. QED  BY <3>5, <1>1, <2>1
  <2>2. CASE v.kind \notin {"rejected", "fault"}
    BY <1>1, <1>3, <2>2
  <2>. QED  BY <2>1, <2>2
<1>6. ~refed /\ StampsInOrder' => Before(e, v.ts)
  <2>. HAVE ~refed /\ StampsInOrder'
  <2>1. \A i, j \in 1 .. read + 1 : i < j => feed[i].ts <= feed[j].ts
    BY <1>4 DEF StampsInOrder
  <2>2. Before(l, v.ts)
    BY <2>1, <1>1, <1>2, LedgerBefore
  <2>3. v.kind \in {"rejected", "fault"} => Before(PushFault(l, v.text, v.ts), v.ts)
    <3>. HIDE DEF v, l
    <3>. QED  BY <2>2, <1>2, <1>3, PushBefore
  <2>. HIDE DEF v, l, e
  <2>. QED  BY <2>2, <2>3, <1>1
<1>7. LedgerInv'
  <2>. SUFFICES ASSUME ~refed, StampsInOrder' PROVE LedgerInv'
    BY <1>4 DEF LedgerInv
  <2>1. Before(e, v.ts)
    BY <1>6
  <2>2. feed'[read'] = v /\ read' \in 1 .. read'
    BY <1>1, <1>4
  <2>. DEFINE Past(x) == \E k \in 1 .. read' : x <= feed'[k].ts
  <2>3. \A x : x <= v.ts => Past(x)
    <3>. HIDE DEF v
    <3>. QED  BY <2>2
  <2>4. /\ \A t \in DOMAIN e.seen : Past(e.seen[t])
        /\ \A i \in DOMAIN e.rows :
             /\ Past(e.rows[i].ts)
             /\ IF e.rows[i].text \in DOMAIN e.seen THEN e.rows[i].ts <= e.seen[e.rows[i].text]
                                                ELSE Past(e.rows[i].ts + SeenFor)
        /\ \A i, j \in DOMAIN e.rows :
             i < j /\ e.rows[i].text = e.rows[j].text => e.rows[i].ts - e.rows[j].ts >= FaultWindow
    <3>. HIDE DEF v, Past, e
    <3>. QED  BY <2>1, <2>3 DEF Before
  <2>. QED  BY <2>4 DEF LedgerInv, RowsApart
<1>. QED  BY <1>5, <1>7

(***************************************************************************)
(* Counts of uploads and of their wafers.                                  *)
(***************************************************************************)

\* Uploads, and their wafers, are finite in number.
LEMMA FiniteUploads ==
  ASSUME NEW S \in SUBSET Posts
  PROVE  /\ IsFiniteSet(S) /\ IsFiniteSet(Acked(S)) /\ IsFiniteSet(Unacked(S))
         /\ {Cardinality(S), Cardinality(Acked(S)), Cardinality(Unacked(S))} \subseteq Nat
<1>1. IsFiniteSet(S)
  BY IntakeAssumption, FS_Subset
<1>2. IsFiniteSet(1 .. Wafers)
  BY IntakeAssumption, FS_Interval
<1>3. IsFiniteSet(S \X (1 .. Wafers))
  BY <1>1, <1>2, FS_Product
<1>4. Acked(S) \in SUBSET (S \X (1 .. Wafers)) /\ Unacked(S) \in SUBSET (S \X (1 .. Wafers))
  BY DEF Acked, Unacked
<1>5. IsFiniteSet(Acked(S)) /\ IsFiniteSet(Unacked(S))
  BY <1>3, <1>4, FS_Subset
<1>. QED  BY <1>1, <1>5, FS_CardinalityType

\* More uploads have no fewer wafers.
LEMMA MoreUploads ==
  ASSUME NEW S \in SUBSET Posts, NEW T \in SUBSET Posts, S \subseteq T
  PROVE  /\ Cardinality(S) <= Cardinality(T)
         /\ Cardinality(Acked(S)) <= Cardinality(Acked(T))
         /\ Cardinality(Unacked(S)) <= Cardinality(Unacked(T))
<1>1. Acked(S) \in SUBSET Acked(T) /\ Unacked(S) \in SUBSET Unacked(T)
  BY DEF Acked, Unacked
<1>2. IsFiniteSet(T) /\ IsFiniteSet(Acked(T)) /\ IsFiniteSet(Unacked(T))
  BY FiniteUploads
<1>. QED  BY <1>1, <1>2, FS_Subset

\* The wafers of one upload: ok of them acked, the rest not.
LEMMA OneUpload ==
  ASSUME NEW p \in Posts, NEW n \in 0 .. Wafers
  PROVE  /\ IsFiniteSet({p} \X (1 .. n)) /\ Cardinality({p} \X (1 .. n)) = n
         /\ IsFiniteSet({p} \X (n + 1 .. Wafers))
         /\ Cardinality({p} \X (n + 1 .. Wafers)) = Wafers - n
<1>. n \in Nat /\ Wafers \in Nat /\ n <= Wafers
  BY IntakeAssumption
<1>1. IsFiniteSet({p}) /\ Cardinality({p}) = 1
  BY FS_Singleton
<1>2. IsFiniteSet(1 .. n) /\ Cardinality(1 .. n) = n
  BY FS_Interval
<1>3. IsFiniteSet(n + 1 .. Wafers) /\ Cardinality(n + 1 .. Wafers) = Wafers - n
  <2>. DEFINE a == n + 1
  <2>1. a \in Int /\ (a > Wafers => Wafers - n = 0) /\ Wafers - a + 1 = Wafers - n
    OBVIOUS
  <2>. HIDE DEF a
  <2>2. IsFiniteSet(a .. Wafers) /\ Cardinality(a .. Wafers) = IF a > Wafers THEN 0 ELSE Wafers - a + 1
    BY <2>1, FS_Interval
  <2>3. Cardinality(a .. Wafers) = Wafers - n
    BY <2>1, <2>2
  <2>. QED  BY <2>2, <2>3 DEF a
<1>4. IsFiniteSet({p} \X (1 .. n)) /\ Cardinality({p} \X (1 .. n)) = 1 * n
  BY <1>1, <1>2, FS_Product
<1>5. IsFiniteSet({p} \X (n + 1 .. Wafers)) /\ Cardinality({p} \X (n + 1 .. Wafers)) = 1 * (Wafers - n)
  BY <1>1, <1>3, FS_Product
<1>. QED  BY <1>4, <1>5

\* One upload more adds the acked of its wafers to the acked, the rest to the rest.
LEMMA UploadAdded ==
  ASSUME NEW S \in SUBSET Posts, NEW p \in Posts \ S, post[p].ok \in 0 .. Wafers
  PROVE  /\ Cardinality(S \cup {p}) = Cardinality(S) + 1
         /\ Cardinality(Acked(S \cup {p})) = Cardinality(Acked(S)) + post[p].ok
         /\ Cardinality(Unacked(S \cup {p})) = Cardinality(Unacked(S)) + (Wafers - post[p].ok)
<1>. DEFINE n == post[p].ok
            A == {p} \X (1 .. n)
            B == {p} \X (n + 1 .. Wafers)
<1>0. n \in Nat /\ Wafers \in Nat /\ n <= Wafers
  BY IntakeAssumption
<1>1. /\ IsFiniteSet(S) /\ IsFiniteSet(Acked(S)) /\ IsFiniteSet(Unacked(S))
      /\ {Cardinality(S), Cardinality(Acked(S)), Cardinality(Unacked(S))} \subseteq Nat
  BY FiniteUploads
<1>2. IsFiniteSet(A) /\ Cardinality(A) = n /\ IsFiniteSet(B) /\ Cardinality(B) = Wafers - n
  BY OneUpload
<1>3. Acked(S \cup {p}) = Acked(S) \cup A
  <2>1. \A x : x \in Acked(S \cup {p}) <=> x \in Acked(S) \/ x \in A
    BY <1>0 DEF Acked
  <2>. HIDE DEF A
  <2>. QED  BY <2>1
<1>4. Unacked(S \cup {p}) = Unacked(S) \cup B
  <2>1. \A x : x \in Unacked(S \cup {p}) <=> x \in Unacked(S) \/ x \in B
    BY <1>0 DEF Unacked
  <2>. HIDE DEF B
  <2>. QED  BY <2>1
<1>5. Acked(S) \cap A = {} /\ Unacked(S) \cap B = {}
  BY DEF Acked, Unacked
<1>6. Cardinality(Acked(S) \cap A) = 0 /\ Cardinality(Unacked(S) \cap B) = 0
  BY <1>5, FS_EmptySet
<1>7. Cardinality(Acked(S) \cup A) = Cardinality(Acked(S)) + Cardinality(A)
  <2>. HIDE DEF A
  <2>1. Cardinality(Acked(S) \cup A) = Cardinality(Acked(S)) + Cardinality(A) - Cardinality(Acked(S) \cap A)
    BY <1>1, <1>2, FS_Union
  <2>. QED  BY <2>1, <1>1, <1>2, <1>6, <1>0
<1>8. Cardinality(Unacked(S) \cup B) = Cardinality(Unacked(S)) + Cardinality(B)
  <2>. HIDE DEF B
  <2>1. Cardinality(Unacked(S) \cup B)
          = Cardinality(Unacked(S)) + Cardinality(B) - Cardinality(Unacked(S) \cap B)
    BY <1>1, <1>2, FS_Union
  <2>. QED  BY <2>1, <1>1, <1>2, <1>6, <1>0
<1>9. Cardinality(S \cup {p}) = Cardinality(S) + 1
  BY <1>1, FS_AddElement
<1>. HIDE DEF A, B
<1>. QED  BY <1>2, <1>3, <1>4, <1>7, <1>8, <1>9

(***************************************************************************)
(* The feed and the panel.                                                 *)
(***************************************************************************)

Over == {"reply", "answered", "gone"}

\* The uploads behind a panel's folds have reported.
LEMMA SeenOver ==
  ASSUME TypeOK, NEW src \in [DOMAIN feed -> Posts], SourceInv(src), NEW kind
  PROVE  /\ Seen(src, kind) \in SUBSET Posts
         /\ \A p \in Seen(src, kind) : post[p].pc \in Over
<1>1. Joined \in Nat /\ read \in Nat /\ read <= Len(feed) /\ DOMAIN feed = 1 .. Len(feed)
  BY DEF Joined, TypeOK
<1>2. \A k \in Joined + 1 .. read : k \in DOMAIN feed
  BY <1>1
<1>. QED  BY <1>2 DEF Seen, SourceInv, Over

\* What an upload said of itself stands if its outcome does.
LEMMA SaysKept ==
  ASSUME NEW p \in Posts,
         post'[p].body = post[p].body, post'[p].status = post[p].status, post'[p].ok = post[p].ok
  PROVE  (\A m \in Metric : Says(m, p) => Says(m, p)') /\ Due(p)' = Due(p)
<1>1. (p \in LotsOf(Posts) <=> p \in LotsOf(Posts)') /\ (p \in RejectedIn(Posts) <=> p \in RejectedIn(Posts)')
  BY DEF LotsOf, RejectedIn
<1>2. ASSUME NEW m \in Metric, Says(m, p) PROVE Says(m, p)'
  <2>1. m.kind \in {"produced", "latency", "rejected", "fault"}
    BY MetricKinds
  <2>2. CASE m.kind = "produced"
    BY <1>1, <1>2, <2>2 DEF Says
  <2>3. CASE m.kind = "latency"
    BY <1>1, <1>2, <2>3 DEF Says
  <2>4. CASE m.kind = "rejected"
    BY <1>1, <1>2, <2>4 DEF Says
  <2>5. CASE m.kind = "fault"
    BY <2>5 DEF Says
  <2>. QED  BY <2>1, <2>2, <2>3, <2>4, <2>5
<1>. QED  BY <1>1, <1>2 DEF Due

\* Uploads that are over keep what they reported, so what was folded stays right
\* as long as neither feed nor panel moves.
LEMMA IntakeKept ==
  ASSUME TypeOK, IntakeInv, feed' = feed, panel' = panel, read' = read, refed' = refed,
         unseen' = unseen,
         \A p \in Posts :
           /\ post[p].pc \in Over => /\ post'[p].pc \in Over /\ post'[p].body = post[p].body
                                     /\ post'[p].status = post[p].status
                                     /\ post'[p].ok = post[p].ok
           /\ post'[p].pc \in {"reply", "answered"} =>
                post[p].pc \in {"reply", "answered"} \/ Due(p)' = {}
  PROVE  IntakeInv'
<1>1. PICK src \in [DOMAIN feed -> Posts] : SourceInv(src) /\ PanelInv(src)
  BY DEF IntakeInv
<1>2. \A k \in DOMAIN feed : src[k] \in Posts /\ Says(feed[k], src[k]) /\ post[src[k]].pc \in Over
  BY <1>1 DEF SourceInv, Over
<1>3. \A k \in DOMAIN feed : Says(feed[k], src[k])' /\ post'[src[k]].pc \in Over
  <2>. TAKE k \in DOMAIN feed
  <2>1. PICK m \in Metric : m = feed[k]
    BY DEF TypeOK
  <2>2. Says(m, src[k])'
    BY <1>2, <2>1, SaysKept
  <2>3. Says(feed[k], src[k])' <=> Says(m, src[k])'
    BY <2>1 DEF Says
  <2>. QED  BY <1>2, <2>2, <2>3
<1>4. \A p \in Posts \ unseen : post'[p].pc \in {"reply", "answered"} =>
        \A d \in Due(p)' : \E k \in DOMAIN feed : src[k] = p /\ feed[k].kind = d
  <2>. TAKE p \in Posts \ unseen
  <2>. HAVE post'[p].pc \in {"reply", "answered"}
  <2>1. CASE Due(p)' = {}
    BY <2>1
  <2>2. CASE post[p].pc \in {"reply", "answered"}
    <3>1. Due(p)' = Due(p)
      BY <2>2, SaysKept DEF Over
    <3>. QED  BY <3>1, <2>2, <1>1 DEF SourceInv
  <2>. QED  BY <2>1, <2>2
<1>5. SourceInv(src)'
  BY <1>1, <1>3, <1>4 DEF SourceInv, Over
<1>6. \A kind : Seen(src, kind)' = Seen(src, kind)
  BY DEF Seen, Joined
<1>7. \A kind : Acked(Seen(src, kind))' = Acked(Seen(src, kind))
                /\ Unacked(Seen(src, kind))' = Unacked(Seen(src, kind))
  <2>. TAKE kind
  <2>1. \A p \in Seen(src, kind) : post'[p].ok = post[p].ok
    BY <1>1, SeenOver
  <2>. QED  BY <2>1, <1>6 DEF Acked, Unacked
<1>8. PanelInv(src)'
  <2>. SUFFICES ASSUME ~refed PROVE PanelInv(src)'
    BY DEF PanelInv
  <2>. QED  BY <1>1, <1>6, <1>7 DEF PanelInv
<1>. QED  BY <1>5, <1>8 DEF IntakeInv

\* Metrics K of upload p at the end of the feed: p is behind them, and nobody has
\* folded them yet.
LEMMA IntakeFed ==
  ASSUME TypeOK, IntakeInv, NEW p \in Posts, NEW K \in Seq(Metric), post[p].pc = "emit",
         post' = [post EXCEPT ![p].pc = "reply", ![p].metrics = <<>>],
         feed' = feed \o K, panel' = panel, read' = read, refed' = refed,
         unseen' \in {unseen, unseen \cup {p}},
         \A i \in DOMAIN K : Says(K[i], p),
         \A i, j \in DOMAIN K : K[i].kind = K[j].kind => i = j,
         p \notin unseen' => \A d \in Due(p) : \E i \in DOMAIN K : K[i].kind = d
  PROVE  IntakeInv'
<1>1. PICK src \in [DOMAIN feed -> Posts] : SourceInv(src) /\ PanelInv(src)
  BY DEF IntakeInv
<1>. DEFINE n == Len(feed)
<1>2. /\ n \in Nat /\ Len(K) \in Nat /\ DOMAIN feed = 1 .. n /\ DOMAIN K = 1 .. Len(K)
      /\ feed' \in Seq(Metric) /\ DOMAIN feed' = 1 .. n + Len(K)
      /\ \A k \in 1 .. n : feed'[k] = feed[k]
      /\ \A i \in 1 .. Len(K) : feed'[n + i] = K[i]
      /\ read \in 0 .. n
  <2>1. feed \in Seq(Metric) /\ read \in 0 .. n
    BY DEF TypeOK
  <2>2. feed' = feed \o K
    OBVIOUS
  <2>. QED  BY <2>1, <2>2
<1>3. \A k \in 1 .. n + Len(K) : k \in 1 .. n \/ (k - n \in 1 .. Len(K) /\ k \notin 1 .. n /\ feed'[k] = K[k - n])
  BY <1>2
<1>4. PICK new \in [DOMAIN feed' -> Posts] :
        /\ \A k \in 1 .. n : new[k] = src[k] /\ src[k] \in Posts
        /\ \A k \in 1 .. n + Len(K) : k \notin 1 .. n => new[k] = p
  <2>. DEFINE f == [k \in 1 .. n + Len(K) |-> IF k \in 1 .. n THEN src[k] ELSE p]
  <2>1. \A k \in 1 .. n : src[k] \in Posts /\ k \in 1 .. n + Len(K)
    BY <1>2
  <2>2. f \in [DOMAIN feed' -> Posts]
    BY <1>2, <2>1
  <2>3. \A k \in 1 .. n + Len(K) : f[k] = IF k \in 1 .. n THEN src[k] ELSE p
    OBVIOUS
  <2>. HIDE DEF f
  <2>. QED  BY <2>1, <2>2, <2>3
<1>. HIDE DEF n
<1>5. \A q \in Posts : /\ post'[q].body = post[q].body /\ post'[q].status = post[q].status
                       /\ post'[q].ok = post[q].ok
                       /\ q # p => post'[q] = post[q]
  BY DEF TypeOK
<1>6. post'[p].pc = "reply"
  BY DEF TypeOK
<1>7. \A k \in 1 .. n : Says(feed[k], src[k]) /\ post[src[k]].pc \in Over /\ src[k] # p
  BY <1>1, <1>2 DEF SourceInv, Over
<1>8. \A k \in DOMAIN feed' : Says(feed[k], new[k])' /\ post'[new[k]].pc \in Over
  <2>. TAKE k \in DOMAIN feed'
  <2>1. PICK m \in Metric : m = feed'[k]
    BY <1>2
  <2>2. Says(m, new[k]) /\ post'[new[k]].pc \in Over /\ new[k] \in Posts
    <3>1. CASE k \in 1 .. n
      <4>1. m = feed[k] /\ new[k] = src[k] /\ src[k] \in Posts
        BY <3>1, <2>1, <1>2, <1>4
      <4>2. Says(feed[k], src[k]) /\ post[src[k]].pc \in Over /\ src[k] # p
        BY <3>1, <1>7
      <4>3. post'[src[k]] = post[src[k]]
        BY <4>1, <4>2, <1>5
      <4>. QED  BY <4>1, <4>2, <4>3
    <3>2. CASE k \notin 1 .. n
      <4>1. m = K[k - n] /\ k - n \in DOMAIN K /\ new[k] = p
        BY <3>2, <2>1, <1>2, <1>3, <1>4
      <4>. QED  BY <4>1, <1>6 DEF Over
    <3>. QED  BY <3>1, <3>2
  <2>3. Says(m, new[k])'
    BY <2>2, <1>5, SaysKept
  <2>4. Says(feed[k], new[k])' <=> Says(m, new[k])'
    BY <2>1 DEF Says
  <2>. QED  BY <2>2, <2>3, <2>4
<1>9. \A j, k \in DOMAIN feed' : new[j] = new[k] /\ feed'[j].kind = feed'[k].kind => j = k
  <2>. TAKE j, k \in DOMAIN feed'
  <2>. HAVE new[j] = new[k] /\ feed'[j].kind = feed'[k].kind
  <2>1. CASE j \in 1 .. n /\ k \in 1 .. n
    BY <2>1, <1>1, <1>2, <1>4 DEF SourceInv
  <2>2. CASE j \notin 1 .. n /\ k \notin 1 .. n
    <3>1. j - n \in DOMAIN K /\ k - n \in DOMAIN K /\ feed'[j] = K[j - n] /\ feed'[k] = K[k - n]
      BY <2>2, <1>2, <1>3
    <3>2. j - n = k - n
      BY <3>1
    <3>. QED  BY <3>2, <1>2
  <2>3. CASE ~(j \in 1 .. n <=> k \in 1 .. n)
    BY <2>3, <1>2, <1>4, <1>7
  <2>. QED  BY <2>1, <2>2, <2>3
<1>10. \A q \in Posts \ unseen' : post'[q].pc \in {"reply", "answered"} =>
         \A d \in Due(q)' : \E k \in DOMAIN feed' : new[k] = q /\ feed'[k].kind = d
  <2>. TAKE q \in Posts \ unseen'
  <2>. HAVE post'[q].pc \in {"reply", "answered"}
  <2>. TAKE d \in Due(q)'
  <2>1. d \in Due(q)
    BY <1>5, SaysKept
  <2>2. CASE q = p
    <3>1. PICK i \in DOMAIN K : K[i].kind = d
      BY <2>1, <2>2
    <3>2. n + i \in 1 .. n + Len(K) /\ n + i \notin 1 .. n /\ feed'[n + i] = K[i]
      BY <1>2
    <3>. QED  BY <3>1, <3>2, <2>2, <1>2, <1>4
  <2>3. CASE q # p
    <3>1. post[q].pc \in {"reply", "answered"} /\ q \notin unseen
      BY <2>3, <1>5
    <3>2. PICK k \in DOMAIN feed : src[k] = q /\ feed[k].kind = d
      BY <3>1, <2>1, <1>1 DEF SourceInv
    <3>. QED  BY <3>2, <1>2, <1>4
  <2>. QED  BY <2>2, <2>3
<1>11. SourceInv(new)'
  BY <1>8, <1>9, <1>10 DEF SourceInv, Over
<1>12. \A kind : Seen(new, kind)' = Seen(src, kind)
  <2>. TAKE kind
  <2>1. Joined' = Joined /\ Joined \in Nat
    BY DEF Joined, TypeOK
  <2>2. \A k \in Joined + 1 .. read : new[k] = src[k] /\ feed'[k] = feed[k]
    BY <2>1, <1>2, <1>4
  <2>3. \A q : (\E k \in Joined + 1 .. read : new[k] = q /\ feed'[k].kind = kind)
              <=> (\E k \in Joined + 1 .. read : src[k] = q /\ feed[k].kind = kind)
    BY <2>2
  <2>4. Seen(new, kind)' = {q \in Posts : \E k \in Joined + 1 .. read : new[k] = q /\ feed'[k].kind = kind}
    BY <2>1 DEF Seen
  <2>. QED  BY <2>3, <2>4 DEF Seen
<1>13. \A kind : Acked(Seen(new, kind))' = Acked(Seen(src, kind))
                 /\ Unacked(Seen(new, kind))' = Unacked(Seen(src, kind))
  <2>. TAKE kind
  <2>1. \A q \in Seen(src, kind) : post'[q].ok = post[q].ok
    BY <1>5 DEF Seen
  <2>2. /\ Acked(Seen(new, kind))' = {x \in Seen(src, kind) \X (1 .. Wafers) : x[2] <= post'[x[1]].ok}
        /\ Unacked(Seen(new, kind))' = {x \in Seen(src, kind) \X (1 .. Wafers) : x[2] > post'[x[1]].ok}
    BY <1>12 DEF Acked, Unacked
  <2>. QED  BY <2>1, <2>2 DEF Acked, Unacked
<1>14. PanelInv(new)'
  <2>. SUFFICES ASSUME ~refed PROVE PanelInv(new)'
    BY DEF PanelInv
  <2>. QED  BY <1>1, <1>12, <1>13 DEF PanelInv
<1>. QED  BY <1>4, <1>11, <1>14 DEF IntakeInv

\* What was said stands while feed and uploads do.
LEMMA SourceKept ==
  ASSUME TypeOK, feed' = feed, post' = post, unseen' = unseen,
         NEW src \in [DOMAIN feed -> Posts], SourceInv(src)
  PROVE  SourceInv(src)'
<1>1. \A p \in Posts : Due(p)' = Due(p)
  BY SaysKept
<1>2. \A k \in DOMAIN feed : Says(feed[k], src[k])'
  <2>. TAKE k \in DOMAIN feed
  <2>1. PICK m \in Metric : m = feed[k]
    BY DEF TypeOK
  <2>2. Says(m, src[k]) /\ src[k] \in Posts
    BY <2>1 DEF SourceInv
  <2>3. Says(m, src[k])'
    BY <2>2, SaysKept
  <2>4. Says(feed[k], src[k])' <=> Says(m, src[k])'
    BY <2>1 DEF Says
  <2>. QED  BY <2>3, <2>4
<1>. QED  BY <1>1, <1>2 DEF SourceInv

\* A metric that is folded adds its upload to those seen, and nothing else.
LEMMA SeenFolded ==
  ASSUME TypeOK, Fold, ~refed, panel.joined <= read, NEW src \in [DOMAIN feed -> Posts],
         SourceInv(src), NEW kind
  PROVE  LET v == feed[read + 1]
             q == src[read + 1]
         IN  /\ q \in Posts
             /\ v.kind # kind => Seen(src, kind)' = Seen(src, kind)
             /\ v.kind = kind => Seen(src, kind)' = Seen(src, kind) \cup {q} /\ q \notin Seen(src, kind)
<1>. DEFINE v == feed[read + 1]
            q == src[read + 1]
<1>1. /\ read \in Nat /\ read < Len(feed) /\ DOMAIN feed = 1 .. Len(feed) /\ Len(feed) \in Nat
      /\ read' = read + 1 /\ feed' = feed
      /\ panel.joined \in -1 .. Len(feed)
  BY DEF TypeOK, Fold
<1>2. panel'.joined = IF panel.joined = -1 THEN read ELSE panel.joined
  BY FoldEffect
<1>3. Joined' = Joined /\ Joined \in 0 .. read
  <2>1. panel'.joined # -1
    BY <1>1, <1>2
  <2>2. Joined' = panel'.joined
    BY <2>1 DEF Joined
  <2>. QED  BY <2>2, <1>1, <1>2 DEF Joined
<1>4. /\ q \in Posts
      /\ \A k \in Joined + 1 .. read + 1 : k = read + 1 \/ k \in Joined + 1 .. read
      /\ read + 1 \in Joined + 1 .. read + 1
      /\ \A k \in Joined + 1 .. read : k \in Joined + 1 .. read + 1 /\ k \in DOMAIN feed /\ k # read + 1
      /\ read + 1 \in DOMAIN feed
  BY <1>1, <1>3
<1>5. Seen(src, kind)' = {p \in Posts : \E k \in Joined + 1 .. read + 1 : src[k] = p /\ feed[k].kind = kind}
  BY <1>1, <1>3 DEF Seen
<1>6. CASE v.kind # kind
  <2>1. \A p : (\E k \in Joined + 1 .. read + 1 : src[k] = p /\ feed[k].kind = kind)
             <=> (\E k \in Joined + 1 .. read : src[k] = p /\ feed[k].kind = kind)
    BY <1>4, <1>6
  <2>2. Seen(src, kind)' = Seen(src, kind)
    BY <2>1, <1>5 DEF Seen
  <2>. QED  BY <2>2, <1>4, <1>6
<1>7. CASE v.kind = kind
  <2>1. \A p : (\E k \in Joined + 1 .. read + 1 : src[k] = p /\ feed[k].kind = kind)
             <=> p = q \/ (\E k \in Joined + 1 .. read : src[k] = p /\ feed[k].kind = kind)
    BY <1>4, <1>7
  <2>2. \A k \in Joined + 1 .. read : ~(src[k] = q /\ feed[k].kind = kind)
    BY <1>4, <1>7 DEF SourceInv
  <2>3. q \notin Seen(src, kind)
    BY <2>2 DEF Seen
  <2>4. \A p : p \in Seen(src, kind)' <=> p \in Seen(src, kind) \/ p = q
    BY <2>1, <1>4, <1>5 DEF Seen
  <2>. HIDE DEF q, v
  <2>5. Seen(src, kind)' = Seen(src, kind) \cup {q}
    BY <2>4
  <2>. QED  BY <2>3, <2>5, <1>4, <1>7 DEF q, v
<1>. QED  BY <1>6, <1>7

\* The panel's counts after the fold are those of the uploads seen after it.
LEMMA IntakeFold ==
  ASSUME TypeOK, IntakeInv, Fold
  PROVE  IntakeInv'
<1>1. PICK src \in [DOMAIN feed -> Posts] : SourceInv(src) /\ PanelInv(src)
  BY DEF IntakeInv
<1>2. feed' = feed /\ post' = post /\ unseen' = unseen /\ refed' = refed /\ read' = read + 1
      /\ read \in Nat
  BY DEF Fold, intake, TypeOK
<1>3. SourceInv(src)'
  BY <1>1, <1>2, SourceKept
<1>4. PanelInv(src)'
  <2>. SUFFICES ASSUME ~refed PROVE PanelInv(src)'
    BY <1>2 DEF PanelInv
  <2>. DEFINE v == feed[read + 1]
              q == src[read + 1]
              P == Seen(src, "produced")
              L == Seen(src, "latency")
              R == Seen(src, "rejected")
  <2>1. /\ panel.joined <= read
        /\ panel.wafers = Cardinality(Acked(P)) /\ panel.lots = Cardinality(P)
        /\ panel.errors = Cardinality(Unacked(L)) /\ panel.rejected = Cardinality(R)
    BY <1>1 DEF PanelInv
  <2>2. /\ v \in Metric /\ read + 1 \in DOMAIN feed
        /\ panel'.joined = IF panel.joined = -1 THEN read ELSE panel.joined
        /\ panel'.wafers = panel.wafers + (IF v.kind = "produced" THEN v.n ELSE 0)
        /\ panel'.lots = panel.lots + (IF v.kind = "produced" THEN 1 ELSE 0)
        /\ panel'.errors = panel.errors + (IF v.kind = "latency" THEN v.errors ELSE 0)
        /\ panel'.rejected = panel.rejected + (IF v.kind = "rejected" THEN 1 ELSE 0)
    <3>. HIDE DEF v
    <3>. QED  BY FoldEffect DEF v
  <2>3. Says(v, q) /\ q \in Posts
    BY <1>1, <2>2 DEF SourceInv
  <2>4. /\ v.kind = "produced" => v.n = post[q].ok
        /\ v.kind = "latency" => v.errors = Wafers - post[q].ok
        /\ post[q].ok \in 0 .. Wafers
    <3>1. post[q].ok \in 0 .. Wafers
      <4>. HIDE DEF q, v
      <4>1. \A p \in Posts : post[p].ok \in 0 .. Wafers
        BY DEF TypeOK, Upload
      <4>. QED  BY <2>3, <4>1
    <3>. QED  BY <2>3, <3>1 DEF Says
  <2>5. /\ P \in SUBSET Posts /\ L \in SUBSET Posts /\ R \in SUBSET Posts
        /\ {panel.wafers, panel.lots, panel.errors, panel.rejected} \subseteq Nat
    BY DEF Seen, TypeOK
  <2>6. /\ v.kind # "produced" => P' = P
        /\ v.kind = "produced" => P' = P \cup {q} /\ q \notin P
    BY <1>1, <2>1, SeenFolded
  <2>7. /\ v.kind # "latency" => L' = L
        /\ v.kind = "latency" => L' = L \cup {q} /\ q \notin L
    BY <1>1, <2>1, SeenFolded
  <2>8. /\ v.kind # "rejected" => R' = R
        /\ v.kind = "rejected" => R' = R \cup {q} /\ q \notin R
    BY <1>1, <2>1, SeenFolded
  <2>9. Acked(P)' = Acked(P') /\ Unacked(L)' = Unacked(L')
    BY <1>2 DEF Acked, Unacked
  <2>. HIDE DEF v, q, P, L, R
  <2>10. panel'.wafers = Cardinality(Acked(P')) /\ panel'.lots = Cardinality(P')
    <3>1. CASE v.kind # "produced"
      BY <3>1, <2>1, <2>2, <2>5, <2>6
    <3>2. CASE v.kind = "produced"
      <4>1. Cardinality(P \cup {q}) = Cardinality(P) + 1
            /\ Cardinality(Acked(P \cup {q})) = Cardinality(Acked(P)) + post[q].ok
        BY <3>2, <2>3, <2>4, <2>5, <2>6, UploadAdded
      <4>. QED  BY <4>1, <3>2, <2>1, <2>2, <2>4, <2>6
    <3>. QED  BY <3>1, <3>2
  <2>11. panel'.errors = Cardinality(Unacked(L'))
    <3>1. CASE v.kind # "latency"
      BY <3>1, <2>1, <2>2, <2>5, <2>7
    <3>2. CASE v.kind = "latency"
      <4>1. Cardinality(Unacked(L \cup {q})) = Cardinality(Unacked(L)) + (Wafers - post[q].ok)
        BY <3>2, <2>3, <2>4, <2>5, <2>7, UploadAdded
      <4>. QED  BY <4>1, <3>2, <2>1, <2>2, <2>4, <2>7
    <3>. QED  BY <3>1, <3>2
  <2>12. panel'.rejected = Cardinality(R')
    <3>1. CASE v.kind # "rejected"
      BY <3>1, <2>1, <2>2, <2>5, <2>8
    <3>2. CASE v.kind = "rejected"
      <4>1. Cardinality(R \cup {q}) = Cardinality(R) + 1
        BY <3>2, <2>3, <2>4, <2>5, <2>8, UploadAdded
      <4>. QED  BY <4>1, <3>2, <2>1, <2>2, <2>8
    <3>. QED  BY <3>1, <3>2
  <2>13. panel'.joined <= read'
    BY <2>1, <2>2, <1>2 DEF TypeOK
  <2>. QED  BY <2>9, <2>10, <2>11, <2>12, <2>13 DEF PanelInv, P, L, R
<1>. QED  BY <1>2, <1>3, <1>4 DEF IntakeInv

\* A feed that is read anew promises nothing until an empty Model takes it up.
LEMMA IntakeReset ==
  ASSUME TypeOK, IntakeInv, Refeed \/ Takeover
  PROVE  IntakeInv'
<1>1. PICK src \in [DOMAIN feed -> Posts] : SourceInv(src) /\ PanelInv(src)
  BY DEF IntakeInv
<1>2. feed' = feed /\ post' = post /\ unseen' = unseen
  BY DEF Refeed, Takeover, intake
<1>3. SourceInv(src)'
  BY <1>1, <1>2, SourceKept
<1>4. PanelInv(src)'
  <2>1. CASE Refeed
    BY <2>1 DEF Refeed, PanelInv
  <2>2. CASE Takeover
    <3>1. panel' = Fresh /\ read' \in Nat
      BY <2>2 DEF Takeover, TypeOK
    <3>2. Joined' = read'
      BY <3>1 DEF Joined, Fresh
    <3>. DEFINE r == read'
    <3>8. r \in Nat
      BY <3>1
    <3>7. \A k \in r + 1 .. r : FALSE
      <4>. HIDE DEF r
      <4>. QED  BY <3>8
    <3>. HIDE DEF r
    <3>3. \A kind : Seen(src, kind)' = {}
      BY <3>2, <3>7 DEF Seen, r
    <3>4. Acked({})' = {} /\ Unacked({})' = {}
      BY DEF Acked, Unacked
    <3>5. Cardinality({}) = 0
      BY FS_EmptySet
    <3>6. \A kind : Acked(Seen(src, kind))' = {} /\ Unacked(Seen(src, kind))' = {}
      BY <3>3 DEF Acked, Unacked
    <3>. QED  BY <3>1, <3>3, <3>5, <3>6 DEF PanelInv, Fresh
  <2>. QED  BY <2>1, <2>2
<1>. QED  BY <1>2, <1>3, <1>4 DEF IntakeInv

(***************************************************************************)
(* The uploads.                                                            *)
(***************************************************************************)

\* The acked wafers do not change while the uploads' outcomes do not.
LEMMA LandedKept ==
  ASSUME TypeOK, LandedInv, \A p \in Posts : post'[p].ok = post[p].ok, lots' \in Nat, lots' >= lots
  PROVE  LandedInv'
<1>1. Acked(Posts)' = Acked(Posts)
  BY DEF Acked
<1>2. Cardinality(Acked(Posts)) \in Nat /\ lots \in Nat
  BY FiniteUploads DEF TypeOK
<1>. QED  BY <1>1, <1>2 DEF LandedInv

\* UploadAdded of the acked wafers, for every set of uploads.
LEMMA AckedAdded ==
  \A T \in SUBSET Posts : \A q \in Posts \ T : post[q].ok \in 0 .. Wafers =>
    Cardinality(Acked(T \cup {q})) = Cardinality(Acked(T)) + post[q].ok
BY UploadAdded

\* A send that acks no more than it lands keeps what is acked within what landed.
LEMMA LandedSent ==
  ASSUME TypeOK, LandedInv, NEW p \in Posts, NEW n \in 0 .. Wafers, NEW landed \in Nat, n <= landed,
         post[p].ok = 0, post'[p].ok = n, \A q \in Posts \ {p} : post'[q].ok = post[q].ok,
         lots' = lots + landed
  PROVE  LandedInv'
<1>. DEFINE S == Posts \ {p}
<1>1. \A T \in SUBSET Posts : \A q \in Posts \ T : post[q].ok \in 0 .. Wafers =>
        Cardinality(Acked(T \cup {q})) = Cardinality(Acked(T)) + post[q].ok
  BY AckedAdded
<1>2. (\A T \in SUBSET Posts : \A q \in Posts \ T : post[q].ok \in 0 .. Wafers =>
         Cardinality(Acked(T \cup {q})) = Cardinality(Acked(T)) + post[q].ok)'
  BY AckedAdded, PTL
<1>3. S \in SUBSET Posts /\ p \in Posts \ S /\ S \cup {p} = Posts /\ 0 \in 0 .. Wafers
  BY IntakeAssumption
<1>4. Cardinality(Acked(Posts)) = Cardinality(Acked(S)) + 0
  <2>. HIDE DEF S
  <2>1. Cardinality(Acked(S \cup {p})) = Cardinality(Acked(S)) + post[p].ok
    BY <1>1, <1>3
  <2>. QED  BY <2>1, <1>3
<1>5. Cardinality(Acked(Posts)') = Cardinality(Acked(S)') + n
  <2>1. Cardinality(Acked(S \cup {p})') = Cardinality(Acked(S)') + n
    BY <1>2, <1>3
  <2>. QED  BY <2>1, <1>3
<1>6. Acked(S)' = Acked(S)
  BY DEF Acked
<1>7. Cardinality(Acked(S)) \in Nat /\ Cardinality(Acked(Posts)) \in Nat /\ lots \in Nat
  BY FiniteUploads DEF TypeOK
<1>. HIDE DEF S
<1>. QED  BY <1>4, <1>5, <1>6, <1>7 DEF LandedInv

\* The uploads other than the one that moves are as they were.
LEMMA PostMoved ==
  ASSUME TypeOK, PostInv, NEW p \in Posts, PostOK(p)',
         \A q \in Posts \ {p} : post'[q] = post[q] /\ (q \in unseen' => q \in unseen)
  PROVE  PostInv'
<1>1. ASSUME NEW q \in Posts \ {p} PROVE PostOK(q)'
  <2>1. PostOK(q) /\ post'[q] = post[q] /\ (q \in unseen' => q \in unseen)
    BY DEF PostInv
  <2>2. Due(q)' = Due(q)
    BY <2>1, SaysKept
  <2>3. post[q].pc = "emit" => \A i \in DOMAIN post[q].metrics : Says(post[q].metrics[i], q)'
    <3>. HAVE post[q].pc = "emit"
    <3>. TAKE i \in DOMAIN post[q].metrics
    <3>1. PICK m \in Metric : m = post[q].metrics[i]
      BY DEF TypeOK, Upload
    <3>2. Says(m, q)
      BY <3>1, <2>1 DEF PostOK
    <3>3. Says(m, q)'
      BY <3>2, <2>1, SaysKept
    <3>4. Says(post[q].metrics[i], q)' <=> Says(m, q)'
      BY <3>1, <2>1 DEF Says
    <3>. QED  BY <3>3, <3>4
  <2>. QED  BY <2>1, <2>2, <2>3 DEF PostOK
<1>. QED  BY <1>1 DEF PostInv

\* Nothing of the uploads changes where they do not.
LEMMA PostKept ==
  ASSUME TypeOK, PostInv, post' = post, unseen' = unseen
  PROVE  PostInv'
<1>1. ASSUME NEW p \in Posts PROVE PostOK(p)'
  <2>1. PostOK(p)
    BY DEF PostInv
  <2>2. Due(p)' = Due(p)
    BY SaysKept
  <2>3. post[p].pc = "emit" => \A i \in DOMAIN post[p].metrics : Says(post[p].metrics[i], p)'
    <3>. HAVE post[p].pc = "emit"
    <3>. TAKE i \in DOMAIN post[p].metrics
    <3>1. PICK m \in Metric : m = post[p].metrics[i]
      BY DEF TypeOK, Upload
    <3>2. Says(m, p)'
      BY <3>1, <2>1, SaysKept DEF PostOK
    <3>3. Says(post[p].metrics[i], p)' <=> Says(m, p)'
      BY <3>1 DEF Says
    <3>. QED  BY <3>2, <3>3
  <2>. QED  BY <2>1, <2>2, <2>3 DEF PostOK
<1>. QED  BY <1>1 DEF PostInv

\* The dashboard's part of TypeOK, when only the feed may grow.
LEMMA TypeMoved ==
  ASSUME TypeOK, post' \in [Posts -> Upload], {lots', clock', faults'} \subseteq Nat,
         feed' \in Seq(Metric), Len(feed') >= Len(feed), UNCHANGED dashboard,
         unseen' \subseteq Posts
  PROVE  TypeOK'
<1>1. read' = read /\ saved' = saved /\ panel' = panel /\ refed' = refed
  BY DEF dashboard
<1>2. Len(feed) \in Nat /\ Len(feed') \in Nat /\ read \in 0 .. Len(feed')
  BY DEF TypeOK
<1>3. panel.joined \in -1 .. Len(feed')
  BY <1>2 DEF TypeOK
<1>4. LET seen == panel.ledger.seen IN
        panel \in [joined : -1 .. Len(feed'), wafers : Nat, lots : Nat, errors : Nat, rejected : Nat,
                   ledger : [rows : Seq([text : Texts, ts : Nat]), seen : {seen}]]
  BY <1>3 DEF TypeOK
<1>. QED  BY <1>1, <1>2, <1>4 DEF TypeOK

\* An upload moves: what the others are, and what it is.
LEMMA OnePost ==
  ASSUME TypeOK, NEW p \in Posts, NEW u \in Upload, post' = [post EXCEPT ![p] = u]
  PROVE  /\ post' \in [Posts -> Upload] /\ post'[p] = u
         /\ \A q \in Posts \ {p} : post'[q] = post[q]
BY DEF TypeOK

\* An upload moves and reports nothing yet.
LEMMA UploadStep ==
  ASSUME Inv, NEW p \in Posts, NEW u \in Upload, post' = [post EXCEPT ![p] = u],
         UNCHANGED <<feed, clock, dashboard, unseen>>, faults' \in Nat, lots' \in Nat,
         PostOK(p)', LandedInv',
         post[p].pc \in Over => /\ u.pc \in Over /\ u.body = post[p].body
                                /\ u.status = post[p].status /\ u.ok = post[p].ok,
         u.pc \in {"reply", "answered"} => post[p].pc \in {"reply", "answered"} \/ Due(p)' = {}
  PROVE  Inv'
<1>0. /\ TypeOK /\ post' \in [Posts -> Upload] /\ post'[p] = u
      /\ \A q \in Posts \ {p} : post'[q] = post[q]
  BY OnePost DEF Inv
<1>1. TypeOK'
  <2>1. clock \in Nat /\ feed \in Seq(Metric) /\ unseen \subseteq Posts /\ Len(feed) \in Nat
    BY <1>0 DEF TypeOK
  <2>. QED  BY <1>0, <2>1, TypeMoved
<1>2. PostInv'
  BY <1>0, PostMoved DEF Inv
<1>3. IntakeInv'
  <2>1. \A q \in Posts :
           /\ post[q].pc \in Over => /\ post'[q].pc \in Over /\ post'[q].body = post[q].body
                                     /\ post'[q].status = post[q].status
                                     /\ post'[q].ok = post[q].ok
           /\ post'[q].pc \in {"reply", "answered"} =>
                post[q].pc \in {"reply", "answered"} \/ Due(q)' = {}
    <3>. TAKE q \in Posts
    <3>1. CASE q = p
      BY <1>0, <3>1
    <3>2. CASE q # p
      BY <1>0, <3>2
    <3>. QED  BY <3>1, <3>2
  <2>. QED  BY <2>1, IntakeKept DEF Inv, dashboard
<1>4. LedgerInv'
  BY LedgerUnread DEF Inv, dashboard
<1>. QED  BY <1>1, <1>2, <1>3, <1>4 DEF Inv

\* A body is taken in, refused on sight, or found to be no lot.
LEMMA AcceptStep ==
  ASSUME Inv, NEW p \in Posts, Accept(p)
  PROVE  Inv'
<1>1. /\ TypeOK /\ LandedInv /\ post[p] = NotPosted /\ p \notin unseen
      /\ clock \in Nat /\ {lots, faults} \subseteq Nat
  BY DEF Inv, Accept, PostInv, PostOK, TypeOK
<1>2. UNCHANGED <<lots, feed, clock, dashboard, faults, unseen>>
  BY DEF Accept
<1>3. PICK body \in Bodies :
        \/ body \in {"lot", "batch"} /\ Step(p, "send", body, 0, 0, <<>>)
        \/ body \in {"schema", "garbled"} /\ Step(p, "emit", body, 0, 400, <<Rejected(body)>>)
        \/ body = "refused" /\ Step(p, "answered", body, 0, 400, <<>>)
  BY DEF Accept
<1>4. ASSUME NEW u \in Upload, post' = [post EXCEPT ![p] = u], u.ok = 0, PostOK(p)',
             u.pc \in {"reply", "answered"} => Due(p)' = {}
      PROVE  Inv'
  <2>1. post'[p] = u /\ \A q \in Posts \ {p} : post'[q] = post[q]
    BY <1>1, <1>4, OnePost
  <2>2. \A q \in Posts : post'[q].ok = post[q].ok
    BY <1>1, <1>4, <2>1 DEF NotPosted
  <2>3. LandedInv'
    BY <2>2, <1>1, <1>2, LandedKept
  <2>4. post[p].pc \notin Over
    BY <1>1 DEF NotPosted, Over
  <2>. QED  BY <1>1, <1>2, <1>4, <2>3, <2>4, UploadStep
<1>5. 0 \in 0 .. Wafers /\ <<>> \in Seq(Metric)
  BY IntakeAssumption
<1>6. CASE body \in {"lot", "batch"} /\ Step(p, "send", body, 0, 0, <<>>)
  <2>1. PICK u : u = [pc |-> "send", body |-> body, ok |-> 0, status |-> 0, metrics |-> <<>>]
    OBVIOUS
  <2>2. u \in Upload /\ post' = [post EXCEPT ![p] = u]
    BY <2>1, <1>5, <1>6 DEF Step, Upload, Bodies
  <2>3. post'[p] = u
    BY <2>2, <1>1, OnePost
  <2>4. PostOK(p)'
    BY <2>1, <2>3, <1>1, <1>2, <1>6 DEF PostOK
  <2>. QED  BY <1>4, <2>1, <2>2, <2>4
<1>7. CASE body \in {"schema", "garbled"} /\ Step(p, "emit", body, 0, 400, <<Rejected(body)>>)
  <2>1. PICK m : m = Rejected(body)
    OBVIOUS
  <2>2. m \in Metric /\ m.kind = "rejected"
    BY <2>1, <1>1, <1>7 DEF Rejected, Metric, Texts
  <2>3. PICK u : u = [pc |-> "emit", body |-> body, ok |-> 0, status |-> 400, metrics |-> <<m>>]
    OBVIOUS
  <2>4. u \in Upload /\ post' = [post EXCEPT ![p] = u]
    BY <2>1, <2>2, <2>3, <1>5, <1>7 DEF Step, Upload, Bodies
  <2>5. post'[p] = u
    BY <2>4, <1>1, OnePost
  <2>6. p \in RejectedIn(Posts)' /\ p \notin LotsOf(Posts)'
    BY <2>3, <2>5, <1>7 DEF RejectedIn, LotsOf
  <2>7. Due(p)' = {"rejected"}
    BY <2>6 DEF Due
  <2>8. Says(m, p)'
    BY <2>2, <2>6 DEF Says
  <2>9. u.metrics = <<m>> /\ u.pc = "emit"
    BY <2>3
  <2>10. PostOK(p)'
    BY <2>2, <2>5, <2>7, <2>8, <2>9, <1>1, <1>2 DEF PostOK
  <2>. QED  BY <1>4, <2>3, <2>4, <2>10
<1>8. CASE body = "refused" /\ Step(p, "answered", body, 0, 400, <<>>)
  <2>1. PICK u : u = [pc |-> "answered", body |-> body, ok |-> 0, status |-> 400, metrics |-> <<>>]
    OBVIOUS
  <2>2. u \in Upload /\ post' = [post EXCEPT ![p] = u]
    BY <2>1, <1>5, <1>8 DEF Step, Upload, Bodies
  <2>3. post'[p] = u
    BY <2>2, <1>1, OnePost
  <2>4. PostOK(p)'
    BY <2>1, <2>3 DEF PostOK
  <2>5. Due(p)' = {}
    BY <2>1, <2>3, <1>8 DEF Due, LotsOf, RejectedIn
  <2>. QED  BY <1>4, <2>1, <2>2, <2>4, <2>5
<1>. QED  BY <1>3, <1>6, <1>7, <1>8

\* A lot that is answered with 200 reports what was acked of it and what was not.
LEMMA SendLotStep ==
  ASSUME Inv, NEW p \in Posts, SendLot(p)
  PROVE  Inv'
<1>1. /\ TypeOK /\ LandedInv /\ post[p].pc = "send" /\ post[p].ok = 0 /\ p \notin unseen
      /\ post[p].body = "lot" /\ clock \in Nat /\ {lots, faults} \subseteq Nat
  BY DEF Inv, SendLot, PostInv, PostOK, TypeOK
<1>2. UNCHANGED <<feed, clock, dashboard, faults, unseen>>
  BY DEF SendLot
<1>3. PICK landed \in 0 .. Wafers : \E ok \in 0 .. landed :
        Landed(landed) /\ Step(p, "emit", "lot", ok, 200, <<Produced(ok), Latency(Wafers - ok)>>)
  BY DEF SendLot
<1>14. PICK ok \in 0 .. landed :
         Landed(landed) /\ Step(p, "emit", "lot", ok, 200, <<Produced(ok), Latency(Wafers - ok)>>)
  BY <1>3
<1>4. ok \in 0 .. Wafers /\ Wafers - ok \in 0 .. Wafers /\ landed \in Nat /\ ok <= landed
  BY IntakeAssumption
<1>5. PICK m, n : m = Produced(ok) /\ n = Latency(Wafers - ok)
  OBVIOUS
<1>6. /\ m \in Metric /\ m.kind = "produced" /\ m.n = ok
      /\ n \in Metric /\ n.kind = "latency" /\ n.errors = Wafers - ok
  BY <1>1, <1>4, <1>5 DEF Produced, Latency, Metric
<1>15. PICK u : u = [pc |-> "emit", body |-> "lot", ok |-> ok, status |-> 200, metrics |-> <<m, n>>]
  OBVIOUS
<1>7. u \in Upload /\ post' = [post EXCEPT ![p] = u] /\ post'[p] = u
  <2>1. <<m, n>> \in Seq(Metric)
    BY <1>6
  <2>2. u \in Upload
    BY <2>1, <1>4, <1>15 DEF Upload, Bodies
  <2>3. post' = [post EXCEPT ![p] = u]
    BY <1>14, <1>5, <1>15 DEF Step
  <2>. QED  BY <1>1, <2>2, <2>3, OnePost
<1>8. p \in LotsOf(Posts)' /\ p \notin RejectedIn(Posts)'
  BY <1>7, <1>15 DEF LotsOf, RejectedIn
<1>9. Due(p)' = {"produced", "latency"}
  BY <1>8 DEF Due
<1>10. Says(m, p)' /\ Says(n, p)'
  BY <1>6, <1>7, <1>8, <1>15 DEF Says
<1>11. PostOK(p)'
  <2>1. post'[p].pc = "emit" /\ post'[p].metrics = <<m, n>>
    BY <1>7, <1>15
  <2>2. DOMAIN <<m, n>> = {1, 2} /\ <<m, n>>[1] = m /\ <<m, n>>[2] = n
    OBVIOUS
  <2>. QED  BY <2>1, <2>2, <1>1, <1>2, <1>6, <1>9, <1>10 DEF PostOK
<1>12. LandedInv'
  BY <1>1, <1>14, <1>15, <1>4, <1>7, LandedSent, OnePost DEF Landed
<1>13. lots' \in Nat
  BY <1>1, <1>14 DEF Landed
<1>. QED  BY <1>1, <1>2, <1>7, <1>15, <1>11, <1>12, <1>13, UploadStep DEF Over

\* A send that acks nothing.
LEMMA SentNothing ==
  ASSUME Inv, NEW p \in Posts, post[p].pc = "send", NEW landed \in 0 .. Wafers, Landed(landed),
         NEW u \in Upload, post' = [post EXCEPT ![p] = u], u.ok = 0, PostOK(p)',
         u.pc \in {"emit", "answered"}, u.pc = "answered" => Due(p)' = {},
         UNCHANGED <<feed, clock, dashboard, unseen>>, faults' \in Nat
  PROVE  Inv'
<1>1. TypeOK /\ LandedInv /\ post[p].ok = 0 /\ lots \in Nat /\ lots' = lots + landed
  BY DEF Inv, PostInv, PostOK, TypeOK, Landed
<1>2. post'[p] = u /\ \A q \in Posts \ {p} : post'[q] = post[q]
  BY <1>1, OnePost
<1>3. \A q \in Posts : post'[q].ok = post[q].ok
  BY <1>1, <1>2
<1>4. LandedInv'
  BY <1>1, <1>3, LandedKept
<1>5. lots' \in Nat
  BY <1>1, IntakeAssumption
<1>6. post[p].pc \notin Over
  BY DEF Over
<1>. QED  BY <1>1, <1>4, <1>5, <1>6, UploadStep

\* A send that fails is answered with 503 and reported as a fault.
LEMMA SendLotFailsStep ==
  ASSUME Inv, NEW p \in Posts, SendLotFails(p)
  PROVE  Inv'
<1>1. /\ TypeOK /\ post[p].pc = "send" /\ p \notin unseen /\ post[p].body = "lot"
      /\ clock \in Nat /\ faults' \in Nat
  BY DEF Inv, SendLotFails, PostInv, PostOK, TypeOK, Fault
<1>2. UNCHANGED <<feed, clock, dashboard, unseen>>
  BY DEF SendLotFails
<1>3. PICK landed \in 0 .. Wafers : Landed(landed)
  BY DEF SendLotFails
<1>4. PICK m : m = FaultMetric
  OBVIOUS
<1>5. m \in Metric /\ m.kind = "fault" /\ 0 \in 0 .. Wafers
  <2>1. m \in [kind : {"rejected", "fault"}, text : Texts, ts : Nat]
    <3>1. m = [kind |-> "fault", text |-> "send_failed", ts |-> clock]
      BY <1>4 DEF FaultMetric
    <3>2. "send_failed" \in Texts
      BY DEF Texts
    <3>. QED  BY <3>1, <3>2, <1>1
  <2>2. m \in Metric
    BY <2>1 DEF Metric
  <2>3. m.kind = "fault"
    BY <1>4 DEF FaultMetric
  <2>. QED  BY <2>2, <2>3, IntakeAssumption
<1>10. PICK u : u = [pc |-> "emit", body |-> "lot", ok |-> 0, status |-> 503, metrics |-> <<m>>]
  OBVIOUS
<1>6. u \in Upload /\ post' = [post EXCEPT ![p] = u] /\ post'[p] = u
  <2>1. <<m>> \in Seq(Metric)
    BY <1>5
  <2>2. u \in Upload
    BY <2>1, <1>5, <1>10 DEF Upload, Bodies
  <2>3. post' = [post EXCEPT ![p] = u]
    BY <1>4, <1>10 DEF SendLotFails, Step
  <2>. QED  BY <1>1, <2>2, <2>3, OnePost
<1>7. Due(p)' = {}
  BY <1>6, <1>10 DEF Due, LotsOf, RejectedIn
<1>8. Says(m, p)'
  BY <1>5 DEF Says
<1>9. PostOK(p)'
  <2>1. post'[p].pc = "emit" /\ post'[p].metrics = <<m>>
    BY <1>6, <1>10
  <2>. QED  BY <2>1, <1>1, <1>2, <1>7, <1>8 DEF PostOK
<1>. QED  BY <1>1, <1>2, <1>3, <1>6, <1>9, <1>10, SentNothing

\* A synthetic batch reports nothing, whether its send fails or not.
LEMMA SyntheticStep ==
  ASSUME Inv, NEW p \in Posts, SendSynthetic(p) \/ SendSyntheticFails(p)
  PROVE  Inv'
<1>1. TypeOK /\ post[p].pc = "send"
  BY DEF Inv, SendSynthetic, SendSyntheticFails
<1>2. UNCHANGED <<feed, clock, dashboard, unseen>> /\ faults' \in Nat
  BY DEF SendSynthetic, SendSyntheticFails, Inv, TypeOK, Fault
<1>3. PICK landed \in 0 .. Wafers : Landed(landed)
  BY DEF SendSynthetic, SendSyntheticFails
<1>4. ASSUME NEW status \in {200, 500}, Step(p, "answered", "batch", 0, status, <<>>)
      PROVE  Inv'
  <2>. DEFINE r == [pc |-> "answered", body |-> "batch", ok |-> 0, status |-> status, metrics |-> <<>>]
  <2>1. PICK u : u = r
    <3>. HIDE DEF r
    <3>. QED  OBVIOUS
  <2>2. u \in Upload
    <3>1. 0 \in 0 .. Wafers
      BY IntakeAssumption
    <3>2. <<>> \in Seq(Metric)
      OBVIOUS
    <3>. QED  BY <2>1, <3>1, <3>2 DEF Upload, Bodies
  <2>3. post' = [post EXCEPT ![p] = u]
    BY <1>4, <2>1 DEF Step
  <2>4. post'[p] = u
    <3>1. post \in [Posts -> Upload]
      BY <1>1 DEF TypeOK
    <3>. HIDE DEF r
    <3>. QED  BY <2>3, <3>1
  <2>5. Due(p)' = {}
    BY <2>1, <2>4 DEF Due, LotsOf, RejectedIn
  <2>6. PostOK(p)'
    BY <2>1, <2>4 DEF PostOK
  <2>7. u.pc = "answered" /\ u.ok = 0
    BY <2>1
  <2>. QED  BY <1>1, <1>2, <1>3, <2>2, <2>3, <2>5, <2>6, <2>7, SentNothing
<1>. QED  BY <1>4 DEF SendSynthetic, SendSyntheticFails

\* An answer, or an instance that is gone, changes nothing of what was reported.
LEMMA EndStep ==
  ASSUME Inv, NEW p \in Posts, Answer(p) \/ Die(p)
  PROVE  Inv'
<1>1. /\ TypeOK /\ LandedInv /\ faults' \in Nat /\ lots' = lots /\ lots \in Nat
      /\ <<>> \in Seq(Metric) /\ post[p] \in Upload
  BY DEF Inv, TypeOK, Answer, Die, Fault
<1>2. UNCHANGED <<feed, clock, dashboard, unseen>>
  BY DEF Answer, Die
<1>3. PICK u \in Upload :
        /\ post' = [post EXCEPT ![p] = u] /\ u.body = post[p].body /\ u.ok = post[p].ok
        /\ u.status = post[p].status
        /\ \/ u.pc = "gone"
           \/ u.pc = "answered" /\ post[p].pc = "reply"
  <2>1. CASE Answer(p)
    <3>. DEFINE u == [post[p] EXCEPT !.pc = "answered"]
    <3>1. u \in Upload /\ u.body = post[p].body /\ u.ok = post[p].ok /\ u.status = post[p].status
          /\ u.pc = "answered"
      BY <1>1 DEF Upload
    <3>2. post' = [post EXCEPT ![p] = u] /\ post[p].pc = "reply"
      BY <2>1 DEF Answer
    <3>. HIDE DEF u
    <3>. QED  BY <3>1, <3>2
  <2>2. CASE Die(p)
    <3>. DEFINE u == [post[p] EXCEPT !.pc = "gone", !.metrics = <<>>]
    <3>1. u \in Upload /\ u.body = post[p].body /\ u.ok = post[p].ok /\ u.status = post[p].status
          /\ u.pc = "gone"
      BY <1>1 DEF Upload
    <3>2. post' = [post EXCEPT ![p] = u]
      BY <2>2, <1>1 DEF Die, TypeOK
    <3>. HIDE DEF u
    <3>. QED  BY <3>1, <3>2
  <2>. QED  BY <2>1, <2>2
<1>4. post'[p] = u /\ \A q \in Posts \ {p} : post'[q] = post[q]
  BY <1>1, <1>3, OnePost
<1>5. LandedInv'
  <2>1. \A q \in Posts : post'[q].ok = post[q].ok
    BY <1>3, <1>4
  <2>. QED  BY <2>1, <1>1, LandedKept
<1>6. PostOK(p)'
  BY <1>3, <1>4 DEF PostOK
<1>. QED  BY <1>1, <1>2, <1>3, <1>5, <1>6, UploadStep DEF Over

\* Metrics K of an upload land, all of them or some.
LEMMA FeedStep ==
  ASSUME Inv, NEW p \in Posts, post[p].pc = "emit", NEW K \in Seq(Metric), feed' = feed \o K,
         post' = [post EXCEPT ![p].pc = "reply", ![p].metrics = <<>>],
         UNCHANGED <<lots, clock, dashboard>>, faults' \in Nat,
         unseen' \in {unseen, unseen \cup {p}},
         \A i \in DOMAIN K : Says(K[i], p),
         \A i, j \in DOMAIN K : K[i].kind = K[j].kind => i = j,
         p \notin unseen' => \A d \in Due(p) : \E i \in DOMAIN K : K[i].kind = d
  PROVE  Inv'
<1>1. TypeOK /\ PostInv /\ LandedInv /\ IntakeInv /\ LedgerInv
  BY DEF Inv
<1>2. PICK u \in Upload : post' = [post EXCEPT ![p] = u] /\ u.ok = post[p].ok /\ u.pc = "reply"
  <2>. DEFINE u == [post[p] EXCEPT !.pc = "reply", !.metrics = <<>>]
  <2>1. <<>> \in Seq(Metric)
    OBVIOUS
  <2>2. post[p] \in Upload
    BY <1>1 DEF TypeOK
  <2>3. u \in Upload /\ u.ok = post[p].ok /\ u.pc = "reply"
    BY <2>1, <2>2 DEF Upload
  <2>4. post' = [post EXCEPT ![p] = u]
    BY <1>1 DEF TypeOK
  <2>. HIDE DEF u
  <2>. QED  BY <2>3, <2>4
<1>3. /\ post' \in [Posts -> Upload] /\ post'[p] = u
      /\ \A q \in Posts \ {p} : post'[q] = post[q]
  BY <1>1, <1>2, OnePost
<1>4. /\ feed \in Seq(Metric) /\ feed' \in Seq(Metric) /\ Len(feed') >= Len(feed)
      /\ \A k \in 1 .. read : feed'[k] = feed[k]
  <2>1. feed \in Seq(Metric) /\ read \in 0 .. Len(feed)
    BY <1>1 DEF TypeOK
  <2>2. feed' = feed \o K
    OBVIOUS
  <2>. QED  BY <2>1, <2>2
<1>5. TypeOK'
  <2>1. lots' \in Nat /\ clock' \in Nat /\ faults' \in Nat /\ unseen' \subseteq Posts
    BY <1>1 DEF TypeOK
  <2>. QED  BY <2>1, <1>1, <1>3, <1>4, TypeMoved
<1>6. PostInv'
  <2>1. PostOK(p)'
    BY <1>2, <1>3 DEF PostOK
  <2>. QED  BY <2>1, <1>1, <1>3, PostMoved
<1>7. LandedInv'
  <2>1. \A q \in Posts : post'[q].ok = post[q].ok
    BY <1>2, <1>3
  <2>2. lots' \in Nat /\ lots' >= lots
    BY <1>1 DEF TypeOK
  <2>. QED  BY <2>1, <2>2, <1>1, LandedKept
<1>8. IntakeInv'
  BY <1>1, IntakeFed DEF dashboard
<1>9. LedgerInv'
  BY <1>1, <1>4, LedgerUnread DEF dashboard
<1>. QED  BY <1>5, <1>6, <1>7, <1>8, <1>9 DEF Inv

\* An upload whose outcome is known reports all of it.
LEMMA EmitStep ==
  ASSUME Inv, NEW p \in Posts, Emit(p)
  PROVE  Inv'
<1>1. PICK K : K = post[p].metrics
  OBVIOUS
<1>2. /\ post[p].pc = "emit" /\ feed' = feed \o K
      /\ post' = [post EXCEPT ![p].pc = "reply", ![p].metrics = <<>>]
      /\ UNCHANGED <<lots, clock, dashboard>> /\ faults' = faults /\ unseen' = unseen
  BY <1>1 DEF Emit
<1>3. K \in Seq(Metric) /\ faults \in Nat
  BY <1>1 DEF Inv, TypeOK, Upload
<1>4. PostOK(p)
  BY DEF Inv, PostInv
<1>5. /\ \A i \in DOMAIN K : Says(K[i], p)
      /\ \A i, j \in DOMAIN K : K[i].kind = K[j].kind => i = j
      /\ \A d \in Due(p) : \E i \in DOMAIN K : K[i].kind = d
  BY <1>1, <1>2, <1>4 DEF PostOK
<1>. QED  BY <1>2, <1>3, <1>5, FeedStep

\* Of metrics that are lost one may be left.
LEMMA EmitFailsStep ==
  ASSUME Inv, NEW p \in Posts, EmitFails(p)
  PROVE  Inv'
<1>1. /\ post[p].pc = "emit" /\ post' = [post EXCEPT ![p].pc = "reply", ![p].metrics = <<>>]
      /\ UNCHANGED <<lots, clock, dashboard>> /\ unseen' = unseen \cup {p} /\ p \in unseen'
  BY DEF EmitFails
<1>2. PICK K \in {<<>>} \cup {<<m>> : m \in Range(post[p].metrics)} : feed' = feed \o K
  BY DEF EmitFails
<1>3. faults' \in Nat /\ post[p].metrics \in Seq(Metric)
  BY DEF Inv, TypeOK, EmitFails, Fault, Upload
<1>4. PostOK(p)
  BY DEF Inv, PostInv
<1>5. \A i \in DOMAIN post[p].metrics : Says(post[p].metrics[i], p) /\ post[p].metrics[i] \in Metric
  BY <1>1, <1>3, <1>4 DEF PostOK
<1>6. /\ K \in Seq(Metric) /\ \A i \in DOMAIN K : Says(K[i], p)
      /\ \A i, j \in DOMAIN K : i = j
  <2>1. CASE K = <<>>
    BY <2>1
  <2>2. CASE K # <<>>
    <3>1. PICK m \in Range(post[p].metrics) : K = <<m>>
      BY <1>2, <2>2
    <3>2. m \in Metric /\ Says(m, p)
      BY <3>1, <1>5 DEF Range
    <3>3. K \in Seq(Metric) /\ DOMAIN K = {1} /\ K[1] = m
      BY <3>1, <3>2
    <3>. QED  BY <3>2, <3>3
  <2>. QED  BY <2>1, <2>2
<1>. QED  BY <1>1, <1>2, <1>3, <1>6, FeedStep

(***************************************************************************)
(* The dashboard.                                                          *)
(***************************************************************************)

\* Where the uploads, their records and their metrics stand still, only the
\* dashboard's own part of the invariant is to be shown.
LEMMA DashboardStep ==
  ASSUME Inv, UNCHANGED <<intake, feed, unseen>>, TypeOK', IntakeInv', LedgerInv'
  PROVE  Inv'
<1>1. post' = post /\ lots' = lots /\ feed' = feed /\ unseen' = unseen
  BY DEF intake
<1>2. TypeOK /\ PostInv /\ LandedInv /\ lots \in Nat
  BY DEF Inv, TypeOK
<1>3. PostInv'
  BY <1>1, <1>2, PostKept
<1>4. LandedInv'
  BY <1>1, <1>2, LandedKept
<1>. QED  BY <1>3, <1>4 DEF Inv

\* A metric is folded.
LEMMA FoldStep ==
  ASSUME Inv, Fold
  PROVE  Inv'
<1>1. TypeOK /\ IntakeInv /\ LedgerInv
  BY DEF Inv
<1>2. UNCHANGED <<intake, feed, clock, saved, refed, faults, unseen>> /\ read' = read + 1
      /\ read < Len(feed)
  BY DEF Fold
<1>3. post' = post /\ lots' = lots
  BY <1>2 DEF intake
<1>4. LedgerOK(panel'.ledger) /\ LedgerInv'
  BY <1>1, FoldLedger
<1>5. IntakeInv'
  BY <1>1, IntakeFold
<1>. DEFINE v == feed[read + 1]
<1>6. /\ v \in Metric
      /\ panel' = [joined   |-> panel'.joined, wafers |-> panel'.wafers, lots |-> panel'.lots,
                   errors   |-> panel'.errors, rejected |-> panel'.rejected,
                   ledger   |-> panel'.ledger]
      /\ panel'.joined = IF panel.joined = -1 THEN read ELSE panel.joined
      /\ panel'.wafers = panel.wafers + (IF v.kind = "produced" THEN v.n ELSE 0)
      /\ panel'.lots = panel.lots + (IF v.kind = "produced" THEN 1 ELSE 0)
      /\ panel'.errors = panel.errors + (IF v.kind = "latency" THEN v.errors ELSE 0)
      /\ panel'.rejected = panel.rejected + (IF v.kind = "rejected" THEN 1 ELSE 0)
  <2>. HIDE DEF v
  <2>. QED  BY <1>1, FoldEffect DEF v
<1>7. /\ v.kind = "produced" => v.n \in Nat
      /\ v.kind = "latency" => v.errors \in Nat
  <2>. HIDE DEF v
  <2>. QED  BY <1>6, MetricKinds, IntakeAssumption
<1>8. /\ {panel.wafers, panel.lots, panel.errors, panel.rejected} \subseteq Nat
      /\ panel.joined \in -1 .. Len(feed) /\ read \in Nat /\ Len(feed) \in Nat
      /\ saved \in 0 .. read
  BY <1>1 DEF TypeOK
<1>. HIDE DEF v
<1>9. /\ {panel'.wafers, panel'.lots, panel'.errors, panel'.rejected} \subseteq Nat
      /\ panel'.joined \in -1 .. Len(feed)
  BY <1>2, <1>6, <1>7, <1>8
<1>10. read' \in 0 .. Len(feed) /\ saved \in 0 .. read'
  BY <1>2, <1>8
<1>11. LET seen == panel'.ledger.seen IN
         /\ DOMAIN seen \subseteq Texts /\ seen \in [DOMAIN seen -> Nat]
         /\ panel'.ledger \in [rows : Seq([text : Texts, ts : Nat]), seen : {seen}]
  BY <1>4 DEF LedgerOK, Rows
<1>12. LET seen == panel'.ledger.seen IN
         panel' \in [joined : -1 .. Len(feed), wafers : Nat, lots : Nat, errors : Nat, rejected : Nat,
                     ledger : [rows : Seq([text : Texts, ts : Nat]), seen : {seen}]]
  BY <1>6, <1>9, <1>11
<1>13. TypeOK'
  BY <1>1, <1>2, <1>3, <1>10, <1>11, <1>12 DEF TypeOK
<1>. QED  BY <1>2, <1>4, <1>5, <1>13, DashboardStep

\* The position is committed.
LEMMA SaveStep ==
  ASSUME Inv, Save
  PROVE  Inv'
<1>1. TypeOK /\ PostInv /\ IntakeInv /\ LedgerInv /\ UNCHANGED <<intake, feed, clock, read, panel, refed, faults, unseen>>
      /\ saved' = read
  BY DEF Inv, Save
<1>2. post' = post /\ lots' = lots
  BY <1>1 DEF intake
<1>3. TypeOK'
  BY <1>1, <1>2 DEF TypeOK
<1>4. IntakeInv'
  BY <1>1, <1>2, IntakeKept
<1>5. LedgerInv'
  BY <1>1, LedgerUnread
<1>. QED  BY <1>1, <1>3, <1>4, <1>5, DashboardStep

\* The clock ticks.
LEMMA TickStep ==
  ASSUME Inv, Tick
  PROVE  Inv'
<1>1. TypeOK /\ PostInv /\ IntakeInv /\ LedgerInv /\ UNCHANGED <<intake, feed, dashboard, faults, unseen>>
      /\ clock' = clock + 1
  BY DEF Inv, Tick
<1>2. /\ post' = post /\ lots' = lots /\ read' = read /\ saved' = saved /\ panel' = panel
      /\ refed' = refed
  BY <1>1 DEF intake, dashboard
<1>3. TypeOK'
  BY <1>1, <1>2 DEF TypeOK
<1>4. IntakeInv'
  BY <1>1, <1>2, IntakeKept
<1>5. LedgerInv'
  BY <1>1, <1>2, LedgerUnread
<1>. QED  BY <1>1, <1>3, <1>4, <1>5, DashboardStep

\* A new instance starts from the committed position with nothing counted; one
\* handed records again is no longer held to anything.
LEMMA ResetStep ==
  ASSUME Inv, Refeed \/ Takeover
  PROVE  Inv'
<1>1. /\ TypeOK /\ IntakeInv /\ read' = saved /\ faults' \in Nat
      /\ UNCHANGED <<intake, feed, clock, saved, unseen>>
  BY DEF Inv, TypeOK, Refeed, Takeover, Fault
<1>2. post' = post /\ lots' = lots
  BY <1>1 DEF intake
<1>3. TypeOK'
  <2>1. read' \in 0 .. Len(feed) /\ saved' \in 0 .. read'
    BY <1>1 DEF TypeOK
  <2>2. CASE Refeed
    BY <1>1, <1>2, <2>1, <2>2 DEF TypeOK, Refeed
  <2>3. CASE Takeover
    <3>1. panel' = Fresh /\ refed' = FALSE
      BY <2>3 DEF Takeover
    <3>2. /\ Fresh.ledger = [rows |-> <<>>, seen |-> <<>>]
          /\ Fresh = [joined |-> -1, wafers |-> 0, lots |-> 0, errors |-> 0, rejected |-> 0,
                      ledger |-> [rows |-> <<>>, seen |-> <<>>]]
      BY DEF Fresh, NoFaults
    <3>3. DOMAIN <<>> = {} /\ <<>> \in [DOMAIN <<>> -> Nat] /\ <<>> \in Seq([text : Texts, ts : Nat])
      OBVIOUS
    <3>4. [rows |-> <<>>, seen |-> <<>>] \in [rows : Seq([text : Texts, ts : Nat]), seen : {<<>>}]
      BY <3>3
    <3>5. -1 \in -1 .. Len(feed)
      BY <1>1 DEF TypeOK
    <3>6. Fresh \in [joined : -1 .. Len(feed), wafers : Nat, lots : Nat, errors : Nat, rejected : Nat,
                     ledger : [rows : Seq([text : Texts, ts : Nat]), seen : {<<>>}]]
      BY <3>2, <3>4, <3>5
    <3>7. Fresh.ledger.seen = <<>>
      BY <3>2
    <3>. QED  BY <1>1, <1>2, <2>1, <3>1, <3>3, <3>6, <3>7 DEF TypeOK
  <2>. QED  BY <2>2, <2>3
<1>4. IntakeInv'
  BY <1>1, IntakeReset
<1>5. LedgerInv'
  <2>1. CASE Refeed
    BY <2>1 DEF Refeed, LedgerInv
  <2>2. CASE Takeover
    <3>1. panel'.ledger.rows = <<>> /\ panel'.ledger.seen = <<>>
      BY <2>2 DEF Takeover, Fresh, NoFaults
    <3>. QED  BY <3>1 DEF LedgerInv, RowsApart
  <2>. QED  BY <2>1, <2>2
<1>. QED  BY <1>1, <1>3, <1>4, <1>5, DashboardStep

\* Nothing moves.
LEMMA StutterStep ==
  ASSUME Inv, UNCHANGED vars
  PROVE  Inv'
<1>1. /\ UNCHANGED <<intake, feed, clock, dashboard, faults, unseen>>
      /\ TypeOK /\ IntakeInv /\ LedgerInv
  BY DEF Inv, vars
<1>2. /\ post' = post /\ lots' = lots /\ read' = read /\ saved' = saved /\ panel' = panel
      /\ refed' = refed
  BY <1>1 DEF intake, dashboard
<1>3. TypeOK'
  BY <1>1, <1>2 DEF TypeOK
<1>4. IntakeInv'
  BY <1>1, <1>2, IntakeKept
<1>5. LedgerInv'
  BY <1>1, <1>2, LedgerUnread
<1>. QED  BY <1>1, <1>3, <1>4, <1>5, DashboardStep

(***************************************************************************)
(* The specification.                                                      *)
(***************************************************************************)

\* Nothing is posted, and nothing read, to begin with.
LEMMA InitInv ==
  ASSUME Init
  PROVE  Inv
<1>1. /\ post = [p \in Posts |-> NotPosted] /\ lots = 0 /\ feed = <<>> /\ clock = 0
      /\ read = 0 /\ saved = 0 /\ panel = Fresh
      /\ faults = 0 /\ unseen = {} /\ refed = FALSE
  BY DEF Init
<1>2. /\ DOMAIN <<>> = {} /\ <<>> \in [DOMAIN <<>> -> Nat] /\ Len(<<>>) = 0
      /\ <<>> \in Seq([text : Texts, ts : Nat])
  OBVIOUS
<1>3. <<>> \in Seq(Metric)
  OBVIOUS
<1>4. /\ Fresh = [joined |-> -1, wafers |-> 0, lots |-> 0, errors |-> 0, rejected |-> 0,
                  ledger |-> [rows |-> <<>>, seen |-> <<>>]]
  BY DEF Fresh, NoFaults
<1>5. Wafers \in Nat
  BY IntakeAssumption
<1>6. NotPosted \in Upload
  BY <1>3, <1>5 DEF NotPosted, Upload
<1>7. \A p \in Posts : post[p] = NotPosted
  BY <1>1
<1>8. NotPosted.ok = 0 /\ NotPosted.pc = "idle"
  BY DEF NotPosted
<1>9. TypeOK
  <2>1. [rows |-> <<>>, seen |-> <<>>] \in [rows : Seq([text : Texts, ts : Nat]), seen : {<<>>}]
    BY <1>2
  <2>2. Fresh \in [joined : -1 .. 0, wafers : Nat, lots : Nat, errors : Nat, rejected : Nat,
                   ledger : [rows : Seq([text : Texts, ts : Nat]), seen : {<<>>}]]
    BY <1>4, <2>1
  <2>3. panel.ledger.seen = <<>>
    BY <1>1, <1>4
  <2>4. post \in [Posts -> Upload]
    BY <1>1, <1>6
  <2>5. panel \in [joined : -1 .. Len(feed), wafers : Nat, lots : Nat, errors : Nat, rejected : Nat,
                   ledger : [rows : Seq([text : Texts, ts : Nat]), seen : {<<>>}]]
    BY <1>1, <1>2, <2>2
  <2>6. read \in 0 .. Len(feed) /\ saved \in 0 .. read
    BY <1>1, <1>2
  <2>7. LET seen == panel.ledger.seen IN
          /\ DOMAIN seen \subseteq Texts /\ seen \in [DOMAIN seen -> Nat]
          /\ panel \in [joined : -1 .. Len(feed), wafers : Nat, lots : Nat, errors : Nat, rejected : Nat,
                        ledger : [rows : Seq([text : Texts, ts : Nat]), seen : {seen}]]
    BY <1>2, <2>3, <2>5
  <2>8. lots \in Nat /\ {clock, faults} \subseteq Nat
    BY <1>1
  <2>10. unseen \subseteq Posts /\ refed \in BOOLEAN
    BY <1>1
  <2>9. feed \in Seq(Metric)
    BY <1>1, <1>3
  <2>. QED  BY <2>4, <2>6, <2>7, <2>8, <2>9, <2>10 DEF TypeOK
<1>10. PostInv
  <2>1. ASSUME NEW p \in Posts PROVE PostOK(p)
    BY <1>1, <1>7, <1>8 DEF PostOK
  <2>. QED  BY <2>1 DEF PostInv
<1>11. LandedInv
  <2>1. Acked(Posts) = {}
    BY <1>5, <1>7, <1>8 DEF Acked
  <2>. QED  BY <1>1, <2>1, FS_EmptySet DEF LandedInv
<1>12. IntakeInv
  <2>1. DOMAIN feed = {}
    BY <1>1, <1>2
  <2>2. PICK src : src = [k \in DOMAIN feed |-> CHOOSE p \in Posts : TRUE]
    OBVIOUS
  <2>3. src \in [DOMAIN feed -> Posts]
    BY <2>1, <2>2
  <2>4. SourceInv(src)
    BY <1>7, <1>8, <2>1 DEF SourceInv
  <2>5. PanelInv(src)
    <3>1. panel.joined = -1 /\ panel.wafers = 0 /\ panel.lots = 0 /\ panel.errors = 0
          /\ panel.rejected = 0
      BY <1>1, <1>4
    <3>2. Joined + 1 .. read = {}
      BY <1>1, <3>1 DEF Joined
    <3>3. Seen(src, "produced") = {} /\ Seen(src, "latency") = {} /\ Seen(src, "rejected") = {}
      BY <3>2 DEF Seen
    <3>4. Acked({}) = {} /\ Unacked({}) = {}
      BY DEF Acked, Unacked
    <3>5. Cardinality({}) = 0
      BY FS_EmptySet
    <3>6. panel.joined <= read
      BY <1>1, <3>1
    <3>. QED  BY <3>1, <3>3, <3>4, <3>5, <3>6 DEF PanelInv
  <2>. QED  BY <2>3, <2>4, <2>5 DEF IntakeInv
<1>13. LedgerInv
  <2>1. panel.ledger.rows = <<>> /\ panel.ledger.seen = <<>>
    BY <1>1, <1>4
  <2>. QED  BY <1>2, <2>1 DEF LedgerInv, RowsApart
<1>. QED  BY <1>9, <1>10, <1>11, <1>12, <1>13 DEF Inv

\* The invariant is kept by every step.
LEMMA NextStep == Inv /\ [Next]_vars => Inv'
<1>. SUFFICES ASSUME Inv, [Next]_vars PROVE Inv'
  OBVIOUS
<1>1. CASE UNCHANGED vars
  BY <1>1, StutterStep
<1>2. ASSUME NEW p \in Posts,
             \/ Accept(p) \/ SendLot(p) \/ SendLotFails(p) \/ SendSynthetic(p) \/ SendSyntheticFails(p)
             \/ Emit(p) \/ EmitFails(p) \/ Answer(p) \/ Die(p)
      PROVE  Inv'
  BY <1>2, AcceptStep, SendLotStep, SendLotFailsStep, SyntheticStep, EmitStep, EmitFailsStep, EndStep
<1>3. CASE Fold
  BY <1>3, FoldStep
<1>4. CASE Save
  BY <1>4, SaveStep
<1>5. CASE Refeed \/ Takeover
  BY <1>5, ResetStep
<1>6. CASE Tick
  BY <1>6, TickStep
<1>. QED  BY <1>1, <1>2, <1>3, <1>4, <1>5, <1>6 DEF Next

\* The inductive invariant: every metric of the feed is one upload's, with the
\* figures that upload was answered, and the panel counts each it folded once.
THEOREM Invariance == Spec => []Inv
  BY InitInv, NextStep, PTL DEF Spec

\* "The same fault (station + text) within 60 s is one row": any two rows of a
\* fault are 60 s apart, however many faults push_fault pruned or dropped between.
THEOREM RowsApartTheorem == Spec => []RowsApart
<1>1. Inv => RowsApart
  BY DEF Inv, LedgerInv, RowsApart
<1>. QED  BY <1>1, Invariance, PTL

\* PanelExact's two sets of uploads: those surely in the panel, and those that may be.
Sure  == {p \in Posts : post[p].pc = "answered"} \ unseen
Maybe == {p \in Posts : post[p].pc \in {"answered", "gone"}}

\* Once every upload is over and the whole feed folded from its first metric, the
\* panel folded the metrics of each upload that lost none, and none but those of
\* uploads that are over.
LEMMA SettledSeen ==
  ASSUME TypeOK, NEW src \in [DOMAIN feed -> Posts], SourceInv(src),
         panel.joined = IF feed = <<>> THEN -1 ELSE 0, read = Len(feed),
         \A p \in Posts : post[p].pc \in {"idle", "answered", "gone"},
         NEW sure, sure = Sure, NEW maybe, maybe = Maybe
  PROVE  /\ \A kind \in {"produced", "latency"} :
              LotsOf(sure) \subseteq Seen(src, kind) /\ Seen(src, kind) \subseteq LotsOf(maybe)
         /\ RejectedIn(sure) \subseteq Seen(src, "rejected")
         /\ Seen(src, "rejected") \subseteq RejectedIn(maybe)
         /\ {LotsOf(sure), LotsOf(maybe), RejectedIn(sure), RejectedIn(maybe)} \subseteq SUBSET Posts
<1>. USE DEF Sure, Maybe
<1>1. Joined = 0
  <2>1. CASE feed = <<>>
    BY <2>1 DEF Joined
  <2>2. CASE feed # <<>>
    BY <2>2 DEF Joined
  <2>. QED  BY <2>1, <2>2
<1>2. DOMAIN feed = 1 .. read /\ feed \in Seq(Metric)
  BY DEF TypeOK
<1>3. \A kind : Seen(src, kind) = {p \in Posts : \E k \in DOMAIN feed : src[k] = p /\ feed[k].kind = kind}
  BY <1>1, <1>2 DEF Seen
<1>4. \A p \in sure : \A d \in Due(p) : p \in Seen(src, d)
  <2>. SUFFICES ASSUME NEW p \in sure, NEW d \in Due(p) PROVE p \in Seen(src, d)
    OBVIOUS
  <2>1. p \in Posts \ unseen /\ post[p].pc \in {"reply", "answered"}
    OBVIOUS
  <2>2. \E k \in DOMAIN feed : src[k] = p /\ feed[k].kind = d
    BY <2>1 DEF SourceInv
  <2>. QED  BY <1>3, <2>1, <2>2
<1>5. \A k \in DOMAIN feed : Says(feed[k], src[k]) /\ src[k] \in maybe
  BY DEF SourceInv
<1>6. ASSUME NEW kind, NEW p \in Seen(src, kind)
      PROVE  \E k \in DOMAIN feed : src[k] = p /\ feed[k].kind = kind /\ Says(feed[k], p) /\ p \in maybe
  BY <1>3, <1>5
<1>7. /\ \A p \in LotsOf(sure) : p \in sure /\ "produced" \in Due(p) /\ "latency" \in Due(p)
      /\ \A p \in RejectedIn(sure) : p \in sure /\ "rejected" \in Due(p)
  BY DEF LotsOf, RejectedIn, Due
<1>8. /\ \A p \in maybe : p \in LotsOf(Posts) => p \in LotsOf(maybe)
      /\ \A p \in maybe : p \in RejectedIn(Posts) => p \in RejectedIn(maybe)
  BY DEF LotsOf, RejectedIn
<1>9. Seen(src, "produced") \subseteq LotsOf(maybe)
  BY <1>6, <1>8 DEF Says
<1>10. Seen(src, "latency") \subseteq LotsOf(maybe)
  BY <1>6, <1>8 DEF Says
<1>11. Seen(src, "rejected") \subseteq RejectedIn(maybe)
  BY <1>6, <1>8 DEF Says
<1>12. {LotsOf(sure), LotsOf(maybe), RejectedIn(sure), RejectedIn(maybe)} \subseteq SUBSET Posts
  BY DEF LotsOf, RejectedIn
<1>. QED  BY <1>4, <1>7, <1>9, <1>10, <1>11, <1>12

\* What panels and responses count is in order as the sets of uploads are.
LEMMA BetweenUploads ==
  ASSUME NEW S \in SUBSET Posts, NEW T \in SUBSET Posts, NEW U \in SUBSET Posts, S \subseteq T, T \subseteq U
  PROVE  /\ Between(Cardinality(S), Cardinality(T), Cardinality(U))
         /\ Between(Cardinality(Acked(S)), Cardinality(Acked(T)), Cardinality(Acked(U)))
         /\ Between(Cardinality(Unacked(S)), Cardinality(Unacked(T)), Cardinality(Unacked(U)))
  BY MoreUploads DEF Between

\* The panel never counts a wafer that is not on probe.lots, and once everything
\* is over and folded it shows what the responses said, up to the uploads whose
\* metrics were lost or that died.
THEOREM PanelExactTheorem == Spec => []PanelExact
<1>1. Inv => PanelExact
  <2>. SUFFICES ASSUME Inv, ~refed PROVE PanelExact
    BY DEF PanelExact
  <2>1. TypeOK /\ LandedInv /\ IntakeInv /\ lots \in Nat
    BY DEF Inv, TypeOK
  <2>2. PICK src \in [DOMAIN feed -> Posts] : SourceInv(src) /\ PanelInv(src)
    BY <2>1 DEF IntakeInv
  <2>3. /\ panel.wafers = Cardinality(Acked(Seen(src, "produced")))
        /\ panel.lots = Cardinality(Seen(src, "produced"))
        /\ panel.errors = Cardinality(Unacked(Seen(src, "latency")))
        /\ panel.rejected = Cardinality(Seen(src, "rejected"))
    BY <2>2 DEF PanelInv
  <2>4. /\ Seen(src, "produced") \in SUBSET Posts /\ Seen(src, "latency") \in SUBSET Posts
        /\ Seen(src, "rejected") \in SUBSET Posts
    BY DEF Seen
  <2>5. panel.wafers <= lots
    <3>1. Cardinality(Acked(Seen(src, "produced"))) <= Cardinality(Acked(Posts))
      BY <2>4, MoreUploads
    <3>2. Cardinality(Acked(Seen(src, "produced"))) \in Nat /\ Cardinality(Acked(Posts)) \in Nat
      BY <2>4, FiniteUploads
    <3>3. Cardinality(Acked(Posts)) <= lots
      BY <2>1 DEF LandedInv
    <3>. QED  BY <2>1, <2>3, <3>1, <3>2, <3>3
  <2>6. ASSUME panel.joined = IF feed = <<>> THEN -1 ELSE 0, read = Len(feed),
               \A p \in Posts : post[p].pc \in {"idle", "answered", "gone"}
        PROVE  /\ Between(OkIn(Sure), panel.wafers, OkIn(Maybe))
               /\ Between(FailedIn(Sure), panel.errors, FailedIn(Maybe))
               /\ Between(Cardinality(LotsOf(Sure)), panel.lots, Cardinality(LotsOf(Maybe)))
               /\ Between(Cardinality(RejectedIn(Sure)), panel.rejected, Cardinality(RejectedIn(Maybe)))
    <3>1. PICK sure : sure = Sure
      OBVIOUS
    <3>2. PICK maybe : maybe = Maybe
      OBVIOUS
    <3>3. /\ \A kind \in {"produced", "latency"} :
               LotsOf(sure) \subseteq Seen(src, kind) /\ Seen(src, kind) \subseteq LotsOf(maybe)
          /\ RejectedIn(sure) \subseteq Seen(src, "rejected")
          /\ Seen(src, "rejected") \subseteq RejectedIn(maybe)
          /\ {LotsOf(sure), LotsOf(maybe), RejectedIn(sure), RejectedIn(maybe)} \subseteq SUBSET Posts
      BY <2>1, <2>2, <2>6, <3>1, <3>2, SettledSeen
    <3>4. /\ Between(OkIn(sure), panel.wafers, OkIn(maybe))
          /\ Between(Cardinality(LotsOf(sure)), panel.lots, Cardinality(LotsOf(maybe)))
      BY <2>3, <2>4, <3>3, BetweenUploads DEF OkIn
    <3>5. Between(FailedIn(sure), panel.errors, FailedIn(maybe))
      BY <2>3, <2>4, <3>3, BetweenUploads DEF FailedIn
    <3>6. Between(Cardinality(RejectedIn(sure)), panel.rejected, Cardinality(RejectedIn(maybe)))
      BY <2>3, <2>4, <3>3, BetweenUploads
    <3>. QED  BY <3>1, <3>2, <3>4, <3>5, <3>6
  <2>. QED  BY <2>5, <2>6 DEF PanelExact, Sure, Maybe
<1>. QED  BY <1>1, Invariance, PTL
=============================================================================
