-------------------------- MODULE ValidationProofs --------------------------
(***************************************************************************)
(* What the dashboard's counts and validate.sh's verdict are worth, for    *)
(* any number of records, any rate, any rounds and any number of rewinds,  *)
(* restarts and takeovers.                                                 *)
(***************************************************************************)
EXTENDS Validation, FiniteSetTheorems, TLAPS

(***************************************************************************)
(* The fold of a `consumed` metric, for any state of it and any report.    *)
(***************************************************************************)

Folds == [hw : Int, consumed : Nat, redelivered : Nat]

\* A report's n scaled by a share of its span is that share, if it counts all of
\* its span.
LEMMA WholeShare ==
  ASSUME NEW k \in Nat, NEW s \in Nat \ {0}
  PROVE  (s * k) \div s = k
OBVIOUS

\* What a report that counts all of its range adds to the count, and where it
\* leaves the mark.
LEMMA FoldFresh ==
  ASSUME NEW d \in Folds, NEW first \in Nat, NEW last \in Nat, first <= last, d.hw >= -1
  PROVE  LET e     == FoldConsumed(d, last - first + 1, first, last)
             fresh == Positive(last - Higher(first, d.hw + 1) + 1)
         IN  /\ e.hw = Higher(d.hw, last) /\ e.consumed = d.consumed + fresh
             /\ fresh \in Nat /\ e \in Folds
<1>. DEFINE e     == FoldConsumed(d, last - first + 1, first, last)
            fresh == Positive(last - Higher(first, d.hw + 1) + 1)
<1>1. e = [hw |-> Higher(d.hw, last), consumed |-> d.consumed + fresh,
           redelivered |-> d.redelivered + (last - first + 1 - fresh)]
  <2>. DEFINE n == last - first + 1
  <2>1. n \in Nat \ {0} /\ Positive(n) = n /\ fresh \in 0 .. n
    BY DEF Positive, Higher, Folds
  <2>2. e = [hw |-> Higher(d.hw, last), consumed |-> d.consumed + (n * fresh) \div n,
             redelivered |-> d.redelivered + (n - (n * fresh) \div n)]
    BY <2>1 DEF FoldConsumed
  <2>3. (n * fresh) \div n = fresh
    BY <2>1, WholeShare
  <2>. QED  BY <2>1, <2>2, <2>3
<1>2. fresh \in Nat /\ fresh <= last - first + 1
  BY DEF Positive, Higher, Folds
<1>3. Higher(d.hw, last) \in Int /\ d.consumed \in Nat /\ d.redelivered \in Nat
  BY DEF Higher, Folds
<1>. HIDE DEF e, fresh
<1>4. e.hw = Higher(d.hw, last) /\ e.consumed = d.consumed + fresh /\ e \in Folds
  BY <1>1, <1>2, <1>3 DEF Folds
<1>. QED
  BY <1>2, <1>4 DEF e, fresh

-----------------------------------------------------------------------------
(***************************************************************************)
(* Counting the records that are not in a set.                             *)
(***************************************************************************)

\* Records outside M from a to h, none of them up to k, add what they are many;
\* if all between k and a is in M they are all there is.
LEMMA Segment ==
  ASSUME NEW M, NEW k \in Int, NEW a \in Nat, NEW h \in Int,
         k >= -1, k < a, a <= h + 1, (a .. h) \cap M = {}
  PROVE  /\ Cardinality((0 .. k) \ M) + (h - a + 1) <= Cardinality((0 .. h) \ M)
         /\ (\A o \in k + 1 .. a - 1 : o \in M) =>
              Cardinality((0 .. h) \ M) = Cardinality((0 .. k) \ M) + (h - a + 1)
<1>. DEFINE S == (0 .. k) \ M
            T == a .. h
            U == (0 .. h) \ M
<1>1. IsFiniteSet(0 .. k) /\ IsFiniteSet(0 .. h) /\ IsFiniteSet(T)
      /\ Cardinality(T) = h - a + 1
  BY FS_Interval
<1>2. IsFiniteSet(S) /\ IsFiniteSet(U)
  BY <1>1, FS_Difference
<1>3. S \cap T = {}
  OBVIOUS
<1>6. S \cup T \subseteq U
  OBVIOUS
<1>8. (\A o \in k + 1 .. a - 1 : o \in M) => U = S \cup T
  OBVIOUS
<1>. HIDE DEF S, T, U
<1>4. Cardinality(S \cup T) = Cardinality(S) + Cardinality(T) - Cardinality({})
  BY <1>1, <1>2, <1>3, FS_Union
<1>5. Cardinality({}) = 0 /\ Cardinality(S) \in Nat /\ Cardinality(U) \in Nat
  BY <1>2, FS_EmptySet, FS_CardinalityType
<1>7. Cardinality(S \cup T) <= Cardinality(U)
  BY <1>2, <1>6, FS_Subset
<1>9. Cardinality(S \cup T) = Cardinality(S) + (h - a + 1)
  BY <1>1, <1>4, <1>5
<1>10. /\ Cardinality(S) + (h - a + 1) <= Cardinality(U)
       /\ (\A o \in k + 1 .. a - 1 : o \in M) => Cardinality(U) = Cardinality(S) + (h - a + 1)
  BY <1>7, <1>8, <1>9
<1>. QED
  BY <1>10 DEF S, U

\* A run of healthy records after mark k adds its length to the healthy ones.
LEMMA HealthySegment ==
  ASSUME NEW k \in Int, NEW a \in Nat, NEW h \in Int,
         k >= -1, k < a, a <= h + 1, (a .. h) \cap malformed = {}
  PROVE  /\ Healthy(k) + (h - a + 1) <= Healthy(h)
         /\ (\A o \in k + 1 .. a - 1 : o \in malformed) => Healthy(h) = Healthy(k) + (h - a + 1)
BY Segment DEF Healthy

\* The counts of healthy and of malformed records are finite.
LEMMA CountType ==
  ASSUME NEW M, NEW k \in Int
  PROVE  /\ IsFiniteSet((0 .. k) \ M) /\ Cardinality((0 .. k) \ M) \in Nat
         /\ IsFiniteSet((0 .. k) \cap M) /\ Cardinality((0 .. k) \cap M) \in Nat
         /\ k < 0 => Cardinality((0 .. k) \ M) = 0 /\ Cardinality((0 .. k) \cap M) = 0
<1>1. IsFiniteSet(0 .. k)
  BY FS_Interval
<1>2. IsFiniteSet((0 .. k) \ M) /\ IsFiniteSet((0 .. k) \cap M)
  BY <1>1, FS_Difference, FS_Intersection
<1>3. k < 0 => (0 .. k) \ M = {} /\ (0 .. k) \cap M = {}
  OBVIOUS
<1>. QED
  BY <1>2, <1>3, FS_CardinalityType, FS_EmptySet

\* Both sides of a set make up the interval.
LEMMA CountSplit ==
  ASSUME NEW M, NEW k \in Nat
  PROVE  Cardinality((0 .. k - 1) \ M) + Cardinality((0 .. k - 1) \cap M) = k
<1>1. IsFiniteSet(0 .. k - 1) /\ Cardinality(0 .. k - 1) = k
  BY FS_Interval
<1>2. Cardinality((0 .. k - 1) \ M) = Cardinality(0 .. k - 1) - Cardinality((0 .. k - 1) \cap M)
  BY <1>1, FS_Difference
<1>3. Cardinality((0 .. k - 1) \ M) \in Nat /\ Cardinality((0 .. k - 1) \cap M) \in Nat
  BY CountType
<1>. QED
  BY <1>1, <1>2, <1>3

\* One more record is on one side or the other.
LEMMA CountNext ==
  ASSUME NEW M, NEW k \in Nat
  PROVE  /\ k \in M => /\ Cardinality((0 .. k) \ M) = Cardinality((0 .. k - 1) \ M)
                       /\ Cardinality((0 .. k) \cap M) = Cardinality((0 .. k - 1) \cap M) + 1
         /\ k \notin M => /\ Cardinality((0 .. k) \ M) = Cardinality((0 .. k - 1) \ M) + 1
                          /\ Cardinality((0 .. k) \cap M) = Cardinality((0 .. k - 1) \cap M)
<1>. DEFINE I == 0 .. k - 1
<1>1. 0 .. k = I \cup {k} /\ k \notin I
  OBVIOUS
<1>2. IsFiniteSet(I \ M) /\ IsFiniteSet(I \cap M)
  <2>1. k - 1 \in Int
    OBVIOUS
  <2>. QED
    BY <2>1, CountType
<1>3. /\ Cardinality((I \ M) \cup {k}) = Cardinality(I \ M) + 1
      /\ Cardinality((I \cap M) \cup {k}) = Cardinality(I \cap M) + 1
  BY <1>1, <1>2, FS_AddElement
<1>4. /\ k \in M => (I \cup {k}) \ M = I \ M /\ (I \cup {k}) \cap M = (I \cap M) \cup {k}
      /\ k \notin M => (I \cup {k}) \ M = (I \ M) \cup {k} /\ (I \cup {k}) \cap M = I \cap M
  OBVIOUS
<1>. QED
  BY <1>1, <1>3, <1>4

-----------------------------------------------------------------------------
(***************************************************************************)
(* What a fold does to the model.                                          *)
(***************************************************************************)

\* The elements of a sequence over S.
LEMMA Elements == ASSUME NEW S, NEW s \in Seq(S) PROVE \A i \in 1 .. Len(s) : s[i] \in S
OBVIOUS

FoldType == [hw : -1 .. InputLen - 1, consumed : Nat, redelivered : Nat]

\* What the leaves need of TypeOK, each in its own terms.
LEMMA StateType ==
  TypeOK =>
    /\ InputLen \in Nat /\ produced \in Nat /\ position \in Nat /\ unreported \in Nat
    /\ produced <= InputLen /\ position <= produced
    /\ \A f \in Feeds : Len(feed[f]) \in Nat /\ read[f] \in Nat /\ read[f] <= Len(feed[f])
                        /\ saved[f] \in Nat /\ saved[f] <= Len(feed[f])
    /\ \A i \in 1 .. Len(Reports) :
         Reports[i].n \in Nat /\ Reports[i].first \in Inputs /\ Reports[i].last \in Inputs
    /\ \A i \in 1 .. Len(feed["metrics/sim"]) : feed["metrics/sim"][i].n \in Nat
    /\ model.station \in FoldType /\ model.station \in Folds
    /\ model.station.hw \in Int /\ model.station.hw >= -1 /\ model.station.consumed \in Nat
    /\ model.simProduced \in Nat /\ model.dlq \in Nat
    /\ \A f \in Feeds : model.firstOffset[f] \in Int
<1>. HAVE TypeOK
<1>1. /\ InputLen \in Nat /\ produced \in Nat /\ position \in Nat /\ unreported \in Nat
      /\ produced <= InputLen /\ position <= produced
  BY DashboardAssumption DEF TypeOK
<1>2. \A f \in Feeds : /\ read[f] \in Nat /\ read[f] <= Len(feed[f])
                       /\ saved[f] \in Nat /\ saved[f] <= Len(feed[f])
  BY DEF TypeOK
<1>0. /\ feed["metrics/sim"] \in Seq([n : Nat])
      /\ feed["metrics/station"] \in Seq([n : Nat, first : Inputs, last : Inputs])
      /\ feed["dlq"] \in Seq(Inputs)
  BY DEF TypeOK
<1>3. \A f \in Feeds : Len(feed[f]) \in Nat
  <2>1. \A f \in Feeds : f = "metrics/sim" \/ f = "metrics/station" \/ f = "dlq"
    BY DEF Feeds, MetricsOf
  <2>2. /\ Len(feed["metrics/sim"]) \in Nat /\ Len(feed["metrics/station"]) \in Nat
        /\ Len(feed["dlq"]) \in Nat
    BY <1>0
  <2>. QED
    BY <2>1, <2>2
<1>4. \A i \in 1 .. Len(Reports) : Reports[i] \in [n : Nat, first : Inputs, last : Inputs]
  BY <1>0, Elements DEF Reports
<1>5. \A i \in 1 .. Len(feed["metrics/sim"]) : feed["metrics/sim"][i] \in [n : Nat]
  BY <1>0, Elements
<1>6. /\ model.station \in FoldType /\ model.simProduced \in Nat /\ model.dlq \in Nat
      /\ \A f \in Feeds : model.firstOffset[f] \in {Unseen} \cup Nat
  BY DEF TypeOK, FoldType
<1>7. /\ model.station \in Folds /\ model.station.hw \in Int /\ model.station.hw >= -1
      /\ model.station.consumed \in Nat
  BY <1>1, <1>6 DEF FoldType, Folds
<1>8. \A f \in Feeds : model.firstOffset[f] \in Int
  BY <1>6 DEF Unseen
<1>. QED
  BY <1>1, <1>2, <1>3, <1>4, <1>5, <1>6, <1>7, <1>8

\* The first offset of a feed is noted once; nothing else of the model changes.
LEMMA NotedType ==
  TypeOK => \A f \in Feeds :
    LET m == Noted(model, f, read[f]) IN
      /\ m \in [firstOffset : [Feeds -> {Unseen} \cup Nat], simProduced : Nat, dlq : Nat,
                station : FoldType]
      /\ m.station = model.station /\ m.simProduced = model.simProduced /\ m.dlq = model.dlq
      /\ \A g \in Feeds :
           m.firstOffset[g] = IF g = f /\ model.firstOffset[f] = Unseen THEN read[f]
                              ELSE model.firstOffset[g]
<1>. HAVE TypeOK
<1>. TAKE f \in Feeds
<1>1. model \in [firstOffset : [Feeds -> {Unseen} \cup Nat], simProduced : Nat, dlq : Nat,
                 station : FoldType]
  BY DEF TypeOK, FoldType
<1>2. read[f] \in Nat
  BY StateType
<1>. HIDE DEF FoldType, Feeds
<1>. QED
  BY <1>1, <1>2 DEF Noted

\* How the feeds' own part of the model changes; the other parts do not.
Touches(f) ==
  /\ f # "metrics/sim"     => model'.simProduced = model.simProduced
  /\ f # "metrics/station" => model'.station = model.station
  /\ f # "dlq"             => model'.dlq = model.dlq

\* What the fold of the next metric of a feed does to the model.
LEMMA FoldEffect ==
  TypeOK => \A f \in Feeds : Fold(f) =>
    /\ read[f] + 1 \in 1 .. Len(feed[f])
    /\ read' = [read EXCEPT ![f] = @ + 1]
    /\ UNCHANGED <<line, saved, rewinds, blurred, refed>>
    /\ \A g \in Feeds :
         model'.firstOffset[g] = IF g = f /\ model.firstOffset[f] = Unseen THEN read[f]
                                 ELSE model.firstOffset[g]
    /\ Touches(f)
    /\ f = "metrics/sim" =>
         model'.simProduced = model.simProduced + feed["metrics/sim"][read[f] + 1].n
    /\ f = "metrics/station" =>
         LET r == Reports[read[f] + 1] IN
           model'.station = IF ranged THEN FoldConsumed(model.station, r.n, r.first, r.last)
                            ELSE FoldUnranged(model.station, r.n)
    /\ f = "dlq" => model'.dlq = model.dlq + 1
    /\ model'.station \in FoldType =>
         model' \in [firstOffset : [Feeds -> {Unseen} \cup Nat], simProduced : Nat, dlq : Nat,
                     station : FoldType]
<1>. HAVE TypeOK
<1>. TAKE f \in Feeds
<1>. HAVE Fold(f)
<1>. DEFINE m == Noted(model, f, read[f])
            k == read[f] + 1
            MT == [firstOffset : [Feeds -> {Unseen} \cup Nat], simProduced : Nat, dlq : Nat,
                   station : FoldType]
<1>0. read[f] \in Nat /\ Len(feed[f]) \in Nat
  BY StateType
<1>1. /\ k \in 1 .. Len(feed[f]) /\ read' = [read EXCEPT ![f] = @ + 1]
      /\ UNCHANGED <<line, saved, rewinds, blurred, refed>>
      /\ model' = Folded(m, f, feed[f][k])
  BY <1>0 DEF Fold
<1>2. /\ m \in MT
      /\ m.station = model.station /\ m.simProduced = model.simProduced /\ m.dlq = model.dlq
      /\ \A g \in Feeds :
           m.firstOffset[g] = IF g = f /\ model.firstOffset[f] = Unseen THEN read[f]
                              ELSE model.firstOffset[g]
  BY NotedType
<1>. HIDE DEF m, k
<1>3. CASE f = "metrics/sim"
  <2>1. model' = [m EXCEPT !.simProduced = @ + feed["metrics/sim"][k].n]
    BY <1>1, <1>3 DEF Folded, FoldProduced
  <2>2. feed["metrics/sim"][k].n \in Nat
    BY <1>1, <1>3, StateType
  <2>. HIDE DEF FoldType, Feeds
  <2>3. /\ model' \in MT /\ model'.firstOffset = m.firstOffset
        /\ model'.simProduced = m.simProduced + feed["metrics/sim"][k].n
        /\ model'.station = m.station /\ model'.dlq = m.dlq
    BY <1>2, <2>1, <2>2
  <2>. QED
    BY <1>1, <1>2, <1>3, <2>3 DEF Touches, k
<1>4. CASE f = "metrics/station"
  <2>. DEFINE r == Reports[k]
              e == IF ranged THEN FoldConsumed(model.station, r.n, r.first, r.last)
                   ELSE FoldUnranged(model.station, r.n)
  <2>1. model' = [m EXCEPT !.station = e]
    BY <1>1, <1>2, <1>4 DEF Folded, FoldStation, Reports
  <2>. HIDE DEF FoldType, Feeds, e
  <2>2. /\ model'.firstOffset = m.firstOffset /\ model'.simProduced = m.simProduced
        /\ model'.station = e /\ model'.dlq = m.dlq
        /\ e \in FoldType => model' \in MT
    BY <1>2, <2>1
  <2>. QED
    BY <1>1, <1>2, <1>4, <2>2 DEF Touches, k, e
<1>5. CASE f = "dlq"
  <2>1. model' = [m EXCEPT !.dlq = @ + 1]
    BY <1>1, <1>5 DEF Folded, FoldDeadLetter
  <2>. HIDE DEF FoldType, Feeds
  <2>2. /\ model' \in MT /\ model'.firstOffset = m.firstOffset
        /\ model'.simProduced = m.simProduced
        /\ model'.station = m.station /\ model'.dlq = m.dlq + 1
    BY <1>2, <2>1
  <2>. QED
    BY <1>1, <1>2, <1>5, <2>2 DEF Touches, k
<1>. QED
  BY <1>3, <1>4, <1>5 DEF Feeds, MetricsOf

\* The station's fold of a report that names its range.
LEMMA RangedFold ==
  TypeOK /\ ReportsInv /\ ranged /\ Fold("metrics/station") =>
    \E r \in {Reports[read["metrics/station"] + 1]}, fresh \in Nat :
      /\ read["metrics/station"] + 1 \in 1 .. Len(Reports)
      /\ r.first \in Nat /\ r.last \in Nat /\ r.first <= r.last /\ r.last < produced
      /\ fresh = Positive(r.last - Higher(r.first, model.station.hw + 1) + 1)
      /\ model'.station.hw = Higher(model.station.hw, r.last)
      /\ model'.station.consumed = model.station.consumed + fresh
      /\ model'.station \in FoldType
<1>. HAVE TypeOK /\ ReportsInv /\ ranged /\ Fold("metrics/station")
<1>. DEFINE k     == read["metrics/station"] + 1
            r     == Reports[k]
            d     == model.station
            first == r.first
            last  == r.last
            fresh == Positive(last - Higher(first, d.hw + 1) + 1)
<1>0. "metrics/station" \in Feeds
  BY DEF Feeds, MetricsOf
<1>1. k \in 1 .. Len(Reports)
      /\ model'.station = FoldConsumed(d, r.n, first, last)
  <2>1. read["metrics/station"] + 1 \in 1 .. Len(feed["metrics/station"])
        /\ LET e == Reports[read["metrics/station"] + 1] IN
             model'.station = IF ranged THEN FoldConsumed(model.station, e.n, e.first, e.last)
                              ELSE FoldUnranged(model.station, e.n)
    BY <1>0, FoldEffect
  <2>. QED
    BY <2>1 DEF Reports
<1>2. first \in Inputs /\ last \in Inputs /\ first <= last /\ last < produced
      /\ r.n = last - first + 1
  BY <1>1, StateType DEF ReportsInv
<1>3. d \in Folds /\ d.hw >= -1 /\ d \in FoldType /\ produced <= InputLen
      /\ produced \in Nat /\ InputLen \in Nat
  BY StateType
<1>4. first \in Nat /\ last \in Nat
  BY <1>2, <1>3 DEF Inputs
<1>. HIDE DEF d, first, last, r, k
<1>a. d \in Folds /\ d.hw >= -1 /\ first \in Nat /\ last \in Nat /\ first <= last
  BY <1>2, <1>3, <1>4
<1>5. LET e == FoldConsumed(d, last - first + 1, first, last)
          new == Positive(last - Higher(first, d.hw + 1) + 1)
      IN  /\ e.hw = Higher(d.hw, last) /\ e.consumed = d.consumed + new
          /\ new \in Nat /\ e \in Folds
  BY <1>a, FoldFresh
<1>6. model'.station = FoldConsumed(d, last - first + 1, first, last)
  BY <1>1, <1>2
<1>7. /\ model'.station.hw = Higher(d.hw, last)
      /\ model'.station.consumed = d.consumed + fresh
      /\ fresh \in Nat /\ model'.station \in Folds
  BY <1>5, <1>6
<1>8. Higher(d.hw, last) \in -1 .. InputLen - 1
  BY <1>2, <1>3, <1>4 DEF Higher, FoldType
<1>9. model'.station \in FoldType
  BY <1>7, <1>8 DEF Folds, FoldType
<1>. QED
  BY <1>1, <1>2, <1>4, <1>7, <1>9 DEF fresh, first, last, r, d, k

\* A report without a range is added, whatever was folded before.
LEMMA UnrangedFold ==
  TypeOK /\ ~ranged /\ Fold("metrics/station") =>
    \E n \in {Reports[read["metrics/station"] + 1].n} :
      /\ n \in Nat
      /\ model'.station.hw = model.station.hw
      /\ model'.station.consumed = model.station.consumed + n
      /\ model'.station \in FoldType
<1>. HAVE TypeOK /\ ~ranged /\ Fold("metrics/station")
<1>. DEFINE k == read["metrics/station"] + 1
            n == Reports[k].n
            d == model.station
<1>0. "metrics/station" \in Feeds
  BY DEF Feeds, MetricsOf
<1>1. k \in 1 .. Len(Reports) /\ model'.station = FoldUnranged(d, n)
  <2>1. read["metrics/station"] + 1 \in 1 .. Len(feed["metrics/station"])
        /\ LET e == Reports[read["metrics/station"] + 1] IN
             model'.station = IF ranged THEN FoldConsumed(model.station, e.n, e.first, e.last)
                              ELSE FoldUnranged(model.station, e.n)
    BY <1>0, FoldEffect
  <2>. QED
    BY <2>1 DEF Reports
<1>2. n \in Nat
  BY <1>1, StateType
<1>3. d \in FoldType
  BY StateType
<1>. HIDE DEF n, d, k
<1>4. /\ model'.station.hw = d.hw
      /\ model'.station.consumed = d.consumed + n
      /\ model'.station \in FoldType
  BY <1>1, <1>2, <1>3 DEF FoldUnranged, FoldType
<1>. QED
  BY <1>2, <1>4 DEF n, d, k

\* A record goes to the end of its feed.
LEMMA Emitted ==
  TypeOK => \A f \in Feeds : \A r : Emit(f, r) =>
    /\ DOMAIN feed' = Feeds
    /\ \A g \in Feeds : g # f => feed'[g] = feed[g]
    /\ feed'[f] = Append(feed[f], r)
    /\ Len(feed'[f]) = Len(feed[f]) + 1 /\ feed'[f][Len(feed[f]) + 1] = r
    /\ \A i \in 1 .. Len(feed[f]) : feed'[f][i] = feed[f][i]
<1>. HAVE TypeOK
<1>. TAKE f \in Feeds
<1>. TAKE r
<1>. HAVE Emit(f, r)
<1>0. /\ feed["metrics/sim"] \in Seq([n : Nat])
      /\ feed["metrics/station"] \in Seq([n : Nat, first : Inputs, last : Inputs])
      /\ feed["dlq"] \in Seq(Inputs)
      /\ DOMAIN feed = Feeds
  BY DEF TypeOK
<1>1. \E S : feed[f] \in Seq(S)
  BY <1>0 DEF Feeds, MetricsOf
<1>2. feed' = [feed EXCEPT ![f] = Append(feed[f], r)]
  BY DEF Emit
<1>3. /\ DOMAIN feed' = Feeds
      /\ \A g \in Feeds : g # f => feed'[g] = feed[g]
      /\ feed'[f] = Append(feed[f], r)
  BY <1>0, <1>2
<1>4. ASSUME NEW S, NEW s \in Seq(S)
      PROVE  /\ Len(Append(s, r)) = Len(s) + 1 /\ Append(s, r)[Len(s) + 1] = r
             /\ \A i \in 1 .. Len(s) : Append(s, r)[i] = s[i]
  OBVIOUS
<1>. QED
  BY <1>1, <1>3, <1>4

-----------------------------------------------------------------------------
(***************************************************************************)
(* What the reports cover.                                                 *)
(***************************************************************************)

\* The script and the control reader leave the line alone, but for its running.
Quiet ==
  /\ running' \in BOOLEAN
  /\ UNCHANGED <<malformed, ranged, tick, unreported, produced, position, feed, observers,
                 rewinds, blurred>>

LineStep == LineNext \/ SimRestarts \/ Quiet

Watches == (\E f \in Feeds : Fold(f) \/ Save(f) \/ Refeed(f)) \/ Takeover

\* Reached, of the reports R.
Covered(R, o, k) == \A h \in (0 .. o - 1) \ malformed : \E j \in 1 .. k : h <= R[j].last

\* What ReportsInv says of N reports R, when produced records are there and the
\* station stands at o.
Reporting(R, N, made, o) ==
  /\ \A i \in 1 .. N :
       /\ R[i].first <= R[i].last /\ R[i].last < made
       /\ R[i].n = R[i].last - R[i].first + 1
       /\ R[i].first .. R[i].last \cap malformed = {}
       /\ Covered(R, R[i].first, i - 1)
  /\ Covered(R, o, N)

\* The reports' invariant in terms of Reporting, before and after a step.
LEMMA ReportingStep ==
  /\ ReportsInv <=> Reporting(Reports, Len(Reports), produced, position)
  /\ malformed' = malformed =>
       (ReportsInv' <=> Reporting(Reports', Len(Reports'), produced', position'))
BY DEF ReportsInv, Reporting, Reached, Covered

\* More records on the input topic, or a position moved back: the reports stand.
LEMMA ReportingMonotone ==
  ASSUME NEW R, NEW N \in Nat, NEW made \in Nat, NEW more \in Nat, NEW o \in Nat, NEW u \in Nat,
         made <= more, \A h \in (0 .. u - 1) \ malformed : h \in 0 .. o - 1,
         \A i \in 1 .. N : R[i].last \in Nat,
         Reporting(R, N, made, o)
  PROVE  Reporting(R, N, more, u)
<1>1. Covered(R, u, N)
  BY DEF Reporting, Covered
<1>2. \A i \in 1 .. N : R[i].last < more
  BY DEF Reporting
<1>. QED
  BY <1>1, <1>2 DEF Reporting

\* The station reports the batch it is at.
LEMMA ReportingAppend ==
  ASSUME NEW R, NEW Q, NEW N \in Nat, NEW made \in Nat, NEW o \in Nat, NEW last \in Nat,
         o <= last, last < made, (o .. last) \cap malformed = {},
         \A i \in 1 .. N : Q[i] = R[i],
         Q[N + 1] = [n |-> last - o + 1, first |-> o, last |-> last],
         Reporting(R, N, made, o)
  PROVE  Reporting(Q, N + 1, made, last + 1)
<1>1. ASSUME NEW k \in 0 .. N, NEW u, Covered(R, u, k) PROVE Covered(Q, u, k)
  <2>1. \A j \in 1 .. k : j \in 1 .. N
    OBVIOUS
  <2>. QED
    BY <1>1, <2>1 DEF Covered
<1>2. Covered(Q, last + 1, N + 1)
  <2>. SUFFICES ASSUME NEW h \in (0 .. last + 1 - 1) \ malformed
                PROVE  \E j \in 1 .. N + 1 : h <= Q[j].last
    BY DEF Covered
  <2>1. h <= last /\ N + 1 \in 1 .. N + 1 /\ Q[N + 1].last = last
    OBVIOUS
  <2>. QED
    BY <2>1
<1>3. ASSUME NEW i \in 1 .. N
      PROVE  /\ Q[i].first <= Q[i].last /\ Q[i].last < made
             /\ Q[i].n = Q[i].last - Q[i].first + 1
             /\ Q[i].first .. Q[i].last \cap malformed = {}
             /\ Covered(Q, Q[i].first, i - 1)
  <2>1. i - 1 \in 0 .. N
    OBVIOUS
  <2>2. Covered(R, R[i].first, i - 1)
    BY DEF Reporting
  <2>3. Covered(Q, R[i].first, i - 1)
    BY <1>1, <2>1, <2>2
  <2>. QED
    BY <2>3 DEF Reporting
<1>4. /\ Q[N + 1].first <= Q[N + 1].last /\ Q[N + 1].last < made
      /\ Q[N + 1].n = Q[N + 1].last - Q[N + 1].first + 1
      /\ Q[N + 1].first .. Q[N + 1].last \cap malformed = {}
      /\ Covered(Q, Q[N + 1].first, N)
  <2>1. Covered(R, o, N)
    BY DEF Reporting
  <2>2. Covered(Q, o, N)
    BY <1>1, <2>1
  <2>. QED
    BY <2>2
<1>5. \A i \in 1 .. N + 1 : i \in 1 .. N \/ i = N + 1
  OBVIOUS
<1>6. N + 1 - 1 = N
  OBVIOUS
<1>. QED
  BY <1>2, <1>3, <1>4, <1>5, <1>6 DEF Reporting

\* A step keeps the station's reports gapless.
LEMMA StepReportsInv == TypeOK /\ ReportsInv /\ LineStep => ReportsInv'
<1>. SUFFICES ASSUME TypeOK, ReportsInv, LineStep PROVE ReportsInv'
  OBVIOUS
<1>. DEFINE N == Len(Reports)
<1>0. /\ produced \in Nat /\ position \in Nat /\ N \in Nat /\ position <= produced
      /\ "metrics/station" \in Feeds /\ "metrics/sim" \in Feeds /\ "dlq" \in Feeds
      /\ Len(feed["metrics/station"]) = N
      /\ \A i \in 1 .. N : Reports[i].last \in Nat
  <2>1. "metrics/station" \in Feeds /\ "metrics/sim" \in Feeds /\ "dlq" \in Feeds
    BY DEF Feeds, MetricsOf
  <2>2. Inputs \subseteq Nat
    BY StateType DEF Inputs
  <2>3. /\ produced \in Nat /\ position \in Nat /\ position <= produced
        /\ Len(feed["metrics/station"]) \in Nat
    BY <2>1, StateType
  <2>4. \A i \in 1 .. N : Reports[i].last \in Inputs
    BY StateType
  <2>. QED
    BY <2>1, <2>2, <2>3, <2>4 DEF Reports
<1>r. Reporting(Reports, N, produced, position)
  BY ReportingStep
<1>a. ASSUME Reports' = Reports, malformed' = malformed, position' \in Nat,
             produced' = produced \/ produced' = produced + 1,
             \A h \in (0 .. position' - 1) \ malformed : h \in 0 .. position - 1
      PROVE  ReportsInv'
  <2>1. produced' \in Nat /\ produced <= produced'
    BY <1>0, <1>a
  <2>. HIDE DEF N
  <2>2. Reporting(Reports, N, produced', position')
    BY <1>0, <1>a, <1>r, <2>1, ReportingMonotone
  <2>. QED
    BY <1>a, <2>2, ReportingStep DEF N
<1>1. CASE SimTicks \/ SimRestarts \/ Quiet \/ Watches
  <2>1. Reports' = Reports /\ malformed' = malformed /\ position' = position /\ produced' = produced
    BY <1>1 DEF SimTicks, SimRestarts, Quiet, Watches, Fold, Save, Refeed, Takeover, line, sim,
                Reports
  <2>. QED
    BY <1>0, <1>a, <2>1
<1>2. CASE SimProduces
  <2>1. Reports' = Reports /\ malformed' = malformed /\ position' = position
        /\ produced' = produced + 1
    BY <1>2 DEF SimProduces, Reports
  <2>. QED
    BY <1>0, <1>a, <2>1
<1>3. CASE SimReports
  <2>1. Reports' = Reports
    BY <1>0, <1>3, Emitted DEF SimReports, Reports
  <2>2. malformed' = malformed /\ position' = position /\ produced' = produced
    BY <1>3 DEF SimReports
  <2>. QED
    BY <1>0, <1>a, <2>1, <2>2
<1>4. CASE StationHandles
  <2>1. PICK last \in position .. produced - 1 :
          /\ position .. last \cap malformed = {}
          /\ Emit("metrics/station", [n |-> last - position + 1, first |-> position, last |-> last])
          /\ position' = last + 1
    BY <1>4 DEF StationHandles
  <2>2. /\ Len(Reports') = N + 1
        /\ Reports'[N + 1] = [n |-> last - position + 1, first |-> position, last |-> last]
        /\ \A i \in 1 .. N : Reports'[i] = Reports[i]
    BY <1>0, <2>1, Emitted DEF Reports
  <2>3. malformed' = malformed /\ produced' = produced
    BY <1>4 DEF StationHandles, sim
  <2>4. last \in Nat /\ position <= last /\ last < produced
    BY <1>0
  <2>. HIDE DEF N
  <2>5. Reporting(Reports', N + 1, produced, last + 1)
    BY <1>0, <1>r, <2>1, <2>2, <2>4, ReportingAppend
  <2>. QED
    BY <2>1, <2>2, <2>3, <2>5, ReportingStep
<1>5. CASE StationDeadLetters
  <2>1. /\ position \in malformed /\ Emit("dlq", position) /\ position' = position + 1
        /\ malformed' = malformed /\ produced' = produced
    BY <1>5 DEF StationDeadLetters, sim
  <2>2. Reports' = Reports
    BY <1>0, <2>1, Emitted DEF Reports
  <2>. QED
    BY <1>0, <1>a, <2>1, <2>2
<1>6. CASE StationRewinds
  <2>1. PICK o \in 0 .. position - 1 : position' = o
    BY <1>6 DEF StationRewinds
  <2>2. malformed' = malformed /\ produced' = produced /\ Reports' = Reports
    BY <1>6 DEF StationRewinds, sim, Reports
  <2>. QED
    BY <1>0, <1>a, <2>1, <2>2
<1>. QED
  BY <1>1, <1>2, <1>3, <1>4, <1>5, <1>6 DEF LineStep, LineNext, Watches

-----------------------------------------------------------------------------
(***************************************************************************)
(* Type correctness.                                                       *)
(***************************************************************************)

LineTypeOK ==
  /\ malformed \subseteq Inputs /\ ranged \in BOOLEAN
  /\ running \in BOOLEAN /\ tick \in 0 .. Rate /\ unreported \in 0 .. Rate - tick
  /\ produced \in 0 .. InputLen /\ position \in 0 .. produced

FeedTypeOK ==
  /\ DOMAIN feed = Feeds
  /\ feed["metrics/sim"] \in Seq([n : Nat])
  /\ feed["metrics/station"] \in Seq([n : Nat, first : Inputs, last : Inputs])
  /\ feed["dlq"] \in Seq(Inputs)

ReadTypeOK ==
  /\ {read, saved} \subseteq [Feeds -> Nat]
  /\ \A f \in Feeds : saved[f] <= Len(feed[f]) /\ read[f] <= Len(feed[f])

ModelTypeOK ==
  model \in [firstOffset : [Feeds -> {Unseen} \cup Nat], simProduced : Nat, dlq : Nat,
             station : FoldType]

RestTypeOK == rewinds \in 0 .. MaxRewinds /\ blurred \in BOOLEAN /\ refed \subseteq Feeds

\* TypeOK by what a step can leave alone.
LEMMA TypeParts ==
  /\ TypeOK <=> LineTypeOK /\ FeedTypeOK /\ ReadTypeOK /\ ModelTypeOK /\ RestTypeOK
  /\ TypeOK' <=> LineTypeOK' /\ FeedTypeOK' /\ ReadTypeOK' /\ ModelTypeOK' /\ RestTypeOK'
BY DEF TypeOK, LineTypeOK, FeedTypeOK, ReadTypeOK, ModelTypeOK, RestTypeOK, FoldType

\* A sequence with an element appended.
LEMMA AppendType ==
  ASSUME NEW S, NEW s \in Seq(S), NEW x \in S PROVE Append(s, x) \in Seq(S)
OBVIOUS

\* A record of the right shape at the end of a feed leaves every position in it.
LEMMA EmitType ==
  TypeOK => \A f \in Feeds : \A r :
    /\ Emit(f, r) /\ UNCHANGED <<read, saved>>
    /\ f = "metrics/sim"     => r \in [n : Nat]
    /\ f = "metrics/station" => r \in [n : Nat, first : Inputs, last : Inputs]
    /\ f = "dlq"             => r \in Inputs
    => FeedTypeOK' /\ ReadTypeOK'
<1>. HAVE TypeOK
<1>. TAKE f \in Feeds
<1>. TAKE r
<1>. HAVE /\ Emit(f, r) /\ UNCHANGED <<read, saved>>
          /\ f = "metrics/sim"     => r \in [n : Nat]
          /\ f = "metrics/station" => r \in [n : Nat, first : Inputs, last : Inputs]
          /\ f = "dlq"             => r \in Inputs
<1>1. FeedTypeOK /\ ReadTypeOK
  BY TypeParts
<1>2. /\ DOMAIN feed' = Feeds /\ feed'[f] = Append(feed[f], r)
      /\ Len(feed'[f]) = Len(feed[f]) + 1
      /\ \A g \in Feeds : g # f => feed'[g] = feed[g]
  BY Emitted
<1>7. ReadTypeOK'
  <2>1. \A g \in Feeds : Len(feed[g]) <= Len(feed'[g]) /\ Len(feed[g]) \in Nat
                         /\ Len(feed'[g]) \in Nat
    <3>1. \A g \in Feeds : Len(feed[g]) \in Nat
      BY StateType
    <3>. QED
      BY <1>2, <3>1
  <2>. HIDE DEF Feeds
  <2>. QED
    BY <1>1, <2>1 DEF ReadTypeOK
<1>4. CASE f = "metrics/sim"
  <2>1. feed'["metrics/sim"] \in Seq([n : Nat])
    <3>. DEFINE S == [n : Nat]
    <3>1. feed["metrics/sim"] \in Seq(S) /\ r \in S
      BY <1>1, <1>4 DEF FeedTypeOK
    <3>. HIDE DEF S
    <3>2. Append(feed["metrics/sim"], r) \in Seq(S)
      BY <3>1, AppendType
    <3>. QED
      BY <1>2, <1>4, <3>2 DEF S
  <2>. QED
    BY <1>1, <1>2, <1>4, <1>7, <2>1 DEF FeedTypeOK, Feeds, MetricsOf
<1>5. CASE f = "metrics/station"
  <2>1. feed'["metrics/station"] \in Seq([n : Nat, first : Inputs, last : Inputs])
    <3>. DEFINE S == [n : Nat, first : Inputs, last : Inputs]
    <3>1. feed["metrics/station"] \in Seq(S) /\ r \in S
      BY <1>1, <1>5 DEF FeedTypeOK
    <3>. HIDE DEF S
    <3>2. Append(feed["metrics/station"], r) \in Seq(S)
      BY <3>1, AppendType
    <3>. QED
      BY <1>2, <1>5, <3>2 DEF S
  <2>. QED
    BY <1>1, <1>2, <1>5, <1>7, <2>1 DEF FeedTypeOK, Feeds, MetricsOf
<1>6. CASE f = "dlq"
  <2>1. feed'["dlq"] \in Seq(Inputs)
    <3>. DEFINE S == Inputs
    <3>1. feed["dlq"] \in Seq(S) /\ r \in S
      BY <1>1, <1>6 DEF FeedTypeOK
    <3>. HIDE DEF S
    <3>2. Append(feed["dlq"], r) \in Seq(S)
      BY <3>1, AppendType
    <3>. QED
      BY <1>2, <1>6, <3>2 DEF S
  <2>. QED
    BY <1>1, <1>2, <1>6, <1>7, <2>1 DEF FeedTypeOK, Feeds, MetricsOf
<1>. QED
  BY <1>4, <1>5, <1>6 DEF Feeds, MetricsOf

\* A step keeps the types.
LEMMA StepTypeOK == TypeOK /\ ReportsInv /\ LineStep => TypeOK'
<1>. SUFFICES ASSUME TypeOK, ReportsInv, LineStep PROVE TypeOK'
  OBVIOUS
<1>0. /\ LineTypeOK /\ FeedTypeOK /\ ReadTypeOK /\ ModelTypeOK /\ RestTypeOK
      /\ produced \in Nat /\ position \in Nat /\ InputLen \in Nat /\ Rate \in Nat
      /\ position <= produced /\ produced <= InputLen
      /\ "metrics/station" \in Feeds /\ "metrics/sim" \in Feeds /\ "dlq" \in Feeds
  BY TypeParts, StateType, DashboardAssumption DEF Feeds, MetricsOf
<1>r. Rewound => rewinds' \in 0 .. MaxRewinds
  BY <1>0, DashboardAssumption DEF Rewound, RestTypeOK
<1>1. CASE SimTicks \/ SimProduces \/ SimRestarts \/ StationRewinds \/ Quiet
  <2>1. UNCHANGED <<malformed, ranged, feed, read, saved, model, refed>>
    BY <1>1 DEF SimTicks, SimProduces, SimRestarts, StationRewinds, Quiet, observers, sim
  <2>2. LineTypeOK'
    <3>1. CASE SimTicks
      BY <1>0, <3>1 DEF SimTicks, LineTypeOK
    <3>2. CASE SimProduces
      BY <1>0, <3>2 DEF SimProduces, LineTypeOK
    <3>3. CASE SimRestarts
      BY <1>0, <3>3 DEF SimRestarts, LineTypeOK
    <3>4. CASE StationRewinds
      BY <1>0, <3>4 DEF StationRewinds, LineTypeOK, sim
    <3>5. CASE Quiet
      BY <1>0, <3>5 DEF Quiet, LineTypeOK
    <3>. QED
      BY <1>1, <3>1, <3>2, <3>3, <3>4, <3>5
  <2>3. RestTypeOK'
    BY <1>0, <1>1, <1>r, <2>1
       DEF SimTicks, SimProduces, SimRestarts, StationRewinds, Quiet, RestTypeOK
  <2>4. FeedTypeOK' /\ ReadTypeOK' /\ ModelTypeOK'
    BY <1>0, <2>1 DEF FeedTypeOK, ReadTypeOK, ModelTypeOK
  <2>. QED
    BY <2>2, <2>3, <2>4, TypeParts
<1>2. CASE SimReports
  <2>1. UNCHANGED <<malformed, ranged, running, produced, position, observers, rewinds, blurred>>
        /\ Emit("metrics/sim", [n |-> unreported]) /\ tick' = 0 /\ unreported' = 0
    BY <1>2 DEF SimReports
  <2>2. [n |-> unreported] \in [n : Nat]
    BY <1>0 DEF LineTypeOK
  <2>3. FeedTypeOK' /\ ReadTypeOK'
    BY <1>0, <2>1, <2>2, EmitType DEF observers
  <2>. QED
    BY <1>0, <2>1, <2>3, TypeParts DEF observers, LineTypeOK, ModelTypeOK, RestTypeOK
<1>3. CASE StationHandles
  <2>1. PICK last \in position .. produced - 1 :
          /\ Emit("metrics/station", [n |-> last - position + 1, first |-> position, last |-> last])
          /\ position' = last + 1
    BY <1>3 DEF StationHandles
  <2>2. UNCHANGED <<malformed, ranged, sim, observers, rewinds, blurred>>
    BY <1>3 DEF StationHandles
  <2>3. last - position + 1 \in Nat /\ position \in Inputs /\ last \in Inputs
        /\ last + 1 \in 0 .. produced
    BY <1>0 DEF Inputs
  <2>4. FeedTypeOK' /\ ReadTypeOK'
    <3>. DEFINE r == [n |-> last - position + 1, first |-> position, last |-> last]
    <3>1. r \in [n : Nat, first : Inputs, last : Inputs]
      BY <2>3
    <3>. HIDE DEF r
    <3>2. Emit("metrics/station", r)
      BY <2>1 DEF r
    <3>. QED
      BY <1>0, <2>2, <3>1, <3>2, EmitType DEF observers
  <2>. QED
    BY <1>0, <2>1, <2>2, <2>3, <2>4, TypeParts DEF observers, sim, LineTypeOK, ModelTypeOK, RestTypeOK
<1>4. CASE StationDeadLetters
  <2>1. /\ Emit("dlq", position) /\ position' = position + 1 /\ position < produced
        /\ UNCHANGED <<malformed, ranged, sim, observers, rewinds, blurred>>
    BY <1>4 DEF StationDeadLetters
  <2>2. position \in Inputs /\ position + 1 \in 0 .. produced
    BY <1>0, <2>1 DEF Inputs
  <2>3. FeedTypeOK' /\ ReadTypeOK'
    BY <1>0, <2>1, <2>2, EmitType DEF observers
  <2>. QED
    BY <1>0, <2>1, <2>2, <2>3, TypeParts DEF observers, sim, LineTypeOK, ModelTypeOK, RestTypeOK
<1>5. ASSUME NEW f \in Feeds, Fold(f) PROVE TypeOK'
  <2>1. /\ read[f] + 1 \in 1 .. Len(feed[f])
        /\ read' = [read EXCEPT ![f] = @ + 1]
        /\ UNCHANGED <<line, saved, rewinds, blurred, refed>>
        /\ f # "metrics/station" => model'.station = model.station
        /\ model'.station \in FoldType => ModelTypeOK'
    BY <1>5, FoldEffect DEF Touches, ModelTypeOK
  <2>2. model'.station \in FoldType
    <3>1. model.station \in FoldType
      BY StateType
    <3>2. f = "metrics/station" => model'.station \in FoldType
      BY <1>5, RangedFold, UnrangedFold
    <3>. QED
      BY <2>1, <3>1, <3>2
  <2>3. ReadTypeOK'
    <3>1. feed' = feed /\ saved' = saved
      BY <2>1 DEF line
    <3>2. read \in [Feeds -> Nat] /\ saved \in [Feeds -> Nat]
          /\ \A g \in Feeds : saved[g] <= Len(feed[g]) /\ read[g] <= Len(feed[g])
      BY <1>0 DEF ReadTypeOK
    <3>. HIDE DEF Feeds
    <3>3. read' \in [Feeds -> Nat] /\ \A g \in Feeds : read'[g] <= Len(feed[g])
      BY <2>1, <3>2
    <3>. QED
      BY <3>1, <3>2, <3>3 DEF ReadTypeOK
  <2>4. LineTypeOK' /\ FeedTypeOK' /\ RestTypeOK'
    BY <1>0, <2>1 DEF line, sim, LineTypeOK, FeedTypeOK, RestTypeOK
  <2>. QED
    BY <2>1, <2>2, <2>3, <2>4, TypeParts
<1>6. ASSUME NEW f \in Feeds, Save(f) \/ Refeed(f) PROVE TypeOK'
  <2>1. /\ UNCHANGED <<line, model, blurred>>
        /\ rewinds' \in 0 .. MaxRewinds /\ refed' \subseteq Feeds
        /\ \/ saved' = [saved EXCEPT ![f] = read[f]] /\ read' = read
           \/ read' = [read EXCEPT ![f] = saved[f]] /\ saved' = saved
    BY <1>0, <1>6, <1>r DEF Save, Refeed, RestTypeOK
  <2>2. ReadTypeOK'
    <3>1. feed' = feed
      BY <2>1 DEF line
    <3>. HIDE DEF Feeds
    <3>. QED
      BY <1>0, <2>1, <3>1 DEF ReadTypeOK
  <2>3. LineTypeOK' /\ FeedTypeOK' /\ RestTypeOK' /\ ModelTypeOK'
    BY <1>0, <2>1 DEF line, sim, LineTypeOK, FeedTypeOK, RestTypeOK, ModelTypeOK
  <2>. QED
    BY <2>2, <2>3, TypeParts
<1>7. CASE Takeover
  <2>1. /\ UNCHANGED <<line, saved, blurred>> /\ model' = Fresh /\ read' = saved
        /\ refed' = {} /\ rewinds' \in 0 .. MaxRewinds
    BY <1>7, <1>r DEF Takeover
  <2>2. ModelTypeOK'
    BY <1>0, <2>1 DEF Fresh, ModelTypeOK, FoldType, NothingFolded
  <2>3. LineTypeOK' /\ FeedTypeOK' /\ RestTypeOK' /\ ReadTypeOK'
    BY <1>0, <2>1 DEF line, sim, LineTypeOK, FeedTypeOK, RestTypeOK, ReadTypeOK
  <2>. QED
    BY <2>2, <2>3, TypeParts
<1>. QED
  BY <1>1, <1>2, <1>3, <1>4, <1>5, <1>6, <1>7 DEF LineStep, LineNext

-----------------------------------------------------------------------------
(***************************************************************************)
(* What the model holds of a feed it has not seen: nothing.                *)
(***************************************************************************)

\* Who changes the model, and how.
LEMMA ModelSteps ==
  LineStep =>
    \/ \E f \in Feeds : Fold(f)
    \/ Takeover
    \/ model' = model /\ ranged' = ranged /\ malformed' = malformed
BY DEF LineStep, LineNext, SimTicks, SimProduces, SimReports, SimRestarts, StationHandles,
       StationDeadLetters, StationRewinds, Save, Refeed, Quiet, observers, line

\* A takeover starts from an empty model.
LEMMA FreshModel ==
  Takeover => /\ \A f \in Feeds : model'.firstOffset[f] = Unseen
              /\ model'.simProduced = 0 /\ model'.dlq = 0 /\ model'.station = NothingFolded
              /\ refed' = {} /\ UNCHANGED <<line, blurred>>
BY DEF Takeover, Fresh

\* Who changes the feeds, and how.
LEMMA FeedSteps == LineStep => feed' = feed \/ \E f \in Feeds : \E r : Emit(f, r)
<1>. SUFFICES ASSUME LineStep PROVE feed' = feed \/ \E f \in Feeds : \E r : Emit(f, r)
  OBVIOUS
<1>0. "metrics/sim" \in Feeds /\ "metrics/station" \in Feeds /\ "dlq" \in Feeds
  BY DEF Feeds, MetricsOf
<1>1. CASE SimReports
  BY <1>0, <1>1 DEF SimReports
<1>2. CASE StationHandles
  BY <1>0, <1>2 DEF StationHandles
<1>3. CASE StationDeadLetters
  BY <1>0, <1>3 DEF StationDeadLetters
<1>4. CASE ~SimReports /\ ~StationHandles /\ ~StationDeadLetters
  BY <1>4 DEF LineStep, LineNext, SimTicks, SimProduces, SimRestarts, StationRewinds, Fold, Save,
              Refeed, Takeover, Quiet, line
<1>. QED
  BY <1>1, <1>2, <1>3, <1>4

\* Feeds only grow.
LEMMA FeedsGrow == TypeOK /\ LineStep => \A f \in Feeds : Len(feed'[f]) >= Len(feed[f])
<1>. HAVE TypeOK /\ LineStep
<1>. TAKE f \in Feeds
<1>1. Len(feed[f]) \in Nat
  BY StateType
<1>2. ASSUME NEW g \in Feeds, NEW r, Emit(g, r) PROVE Len(feed'[f]) >= Len(feed[f])
  <2>1. /\ Len(feed'[g]) = Len(feed[g]) + 1 /\ (f # g => feed'[f] = feed[f])
    BY <1>2, Emitted
  <2>. QED
    BY <1>1, <2>1
<1>3. feed' = feed => Len(feed'[f]) >= Len(feed[f])
  BY <1>1
<1>. QED
  BY <1>2, <1>3, FeedSteps

\* A step keeps the count of a feed never seen at zero.
LEMMA StepUnseenInv == TypeOK /\ ReportsInv /\ UnseenInv /\ LineStep => UnseenInv'
<1>. SUFFICES ASSUME TypeOK, ReportsInv, UnseenInv, LineStep PROVE UnseenInv'
  OBVIOUS
<1>0. "metrics/sim" \in Feeds /\ "metrics/station" \in Feeds /\ "dlq" \in Feeds
  BY DEF Feeds, MetricsOf
<1>b. ASSUME \A f \in Feeds : model'.firstOffset[f] < Len(feed[f])
      PROVE  \A f \in Feeds : model'.firstOffset[f] < Len(feed'[f])
  <2>. SUFFICES ASSUME NEW f \in Feeds PROVE model'.firstOffset[f] < Len(feed'[f])
    OBVIOUS
  <2>1. model'.firstOffset[f] < Len(feed[f]) /\ Len(feed'[f]) >= Len(feed[f])
        /\ Len(feed[f]) \in Nat
    BY <1>b, FeedsGrow, StateType
  <2>2. TypeOK'
    BY StepTypeOK
  <2>3. model'.firstOffset[f] \in Int /\ Len(feed'[f]) \in Int
    <3>1. model'.firstOffset[f] \in {Unseen} \cup Nat
      BY <2>2 DEF TypeOK
    <3>2. feed' = feed \/ \E g \in Feeds : \E r : Emit(g, r)
      BY FeedSteps
    <3>3. Len(feed'[f]) = Len(feed[f]) \/ Len(feed'[f]) = Len(feed[f]) + 1
      BY <3>2, Emitted
    <3>. QED
      BY <2>1, <3>1, <3>3 DEF Unseen
  <2>. QED
    BY <2>1, <2>3
<1>1. ASSUME NEW f \in Feeds, Fold(f) PROVE UnseenInv'
  <2>1. model'.firstOffset[f] # Unseen
        /\ \A g \in Feeds : g # f => model'.firstOffset[g] = model.firstOffset[g]
    <3>1. read[f] # Unseen
      BY StateType DEF Unseen
    <3>2. \A g \in Feeds :
            model'.firstOffset[g] = IF g = f /\ model.firstOffset[f] = Unseen THEN read[f]
                                    ELSE model.firstOffset[g]
      BY <1>1, FoldEffect
    <3>. QED
      BY <3>1, <3>2
  <2>2. Touches(f)
    BY <1>1, FoldEffect
  <2>3. \A g \in Feeds : model'.firstOffset[g] < Len(feed[g])
    <3>1. read[f] < Len(feed[f])
      BY <1>1 DEF Fold
    <3>2. \A g \in Feeds :
            model'.firstOffset[g] = IF g = f /\ model.firstOffset[f] = Unseen THEN read[f]
                                    ELSE model.firstOffset[g]
      BY <1>1, FoldEffect
    <3>. QED
      BY <3>1, <3>2 DEF UnseenInv
  <2>. QED
    BY <1>0, <1>b, <2>1, <2>2, <2>3 DEF UnseenInv, Touches
<1>2. CASE Takeover
  <2>1. \A g \in Feeds : model'.firstOffset[g] < Len(feed[g])
    BY <1>2, FreshModel, StateType DEF Unseen
  <2>. QED
    BY <1>0, <1>2, <1>b, <2>1, FreshModel DEF UnseenInv
<1>3. CASE model' = model
  <2>1. \A g \in Feeds : model'.firstOffset[g] < Len(feed[g])
    BY <1>3 DEF UnseenInv
  <2>. QED
    BY <1>3, <1>b, <2>1 DEF UnseenInv
<1>. QED
  BY <1>1, <1>2, <1>3, ModelSteps

-----------------------------------------------------------------------------
(***************************************************************************)
(* The station's consumed records: none twice, and none missed.            *)
(***************************************************************************)

\* A report whose range starts above the mark leaves no record out that the
\* station does not dead-letter: an earlier report would have covered it.
LEMMA NothingSkipped ==
  ASSUME NEW R, NEW k \in Nat, NEW hw \in Int, NEW o \in Nat,
         Covered(R, o, k), \A j \in 1 .. k : R[j].last \in Nat /\ R[j].last <= hw
  PROVE  \A h \in Nat : hw < h /\ h < o => h \in malformed
<1>. SUFFICES ASSUME NEW h \in Nat, hw < h, h < o, h \notin malformed PROVE FALSE
  OBVIOUS
<1>1. h \in (0 .. o - 1) \ malformed
  OBVIOUS
<1>2. PICK j \in 1 .. k : h <= R[j].last
  BY <1>1 DEF Covered
<1>. QED
  BY <1>2

\* Where the new records of a report from u to l start, above a mark at x.
LEMMA AboveMark ==
  ASSUME NEW x \in Int, NEW u \in Nat, NEW l \in Nat, x >= -1, u <= l
  PROVE  LET b == Higher(u, x + 1) IN
           /\ b \in Nat /\ x < b /\ u <= b
           /\ l > x => b <= l + 1 /\ Positive(l - b + 1) = l - b + 1 /\ Higher(x, l) = l
           /\ ~(l > x) => Positive(l - b + 1) = 0 /\ Higher(x, l) = x
<1>1. CASE u > x + 1
  BY <1>1 DEF Higher, Positive
<1>2. CASE ~(u > x + 1)
  BY <1>2 DEF Higher, Positive
<1>. QED
  BY <1>1, <1>2

\* The fold of a ranged report keeps `consumed` exact.
LEMMA StepConsumedExact ==
  TypeOK /\ ReportsInv /\ FoldInv /\ UnseenInv /\ ranged /\ Fold("metrics/station") => FoldInv'
<1>. HAVE TypeOK /\ ReportsInv /\ FoldInv /\ UnseenInv /\ ranged /\ Fold("metrics/station")
<1>. DEFINE k == read["metrics/station"]
            d == model.station
<1>0. "metrics/station" \in Feeds
  BY DEF Feeds, MetricsOf
<1>1. PICK r \in {Reports[k + 1]}, fresh \in Nat :
      /\ k + 1 \in 1 .. Len(Reports)
      /\ r.first \in Nat /\ r.last \in Nat /\ r.first <= r.last /\ r.last < produced
      /\ fresh = Positive(r.last - Higher(r.first, d.hw + 1) + 1)
      /\ model'.station.hw = Higher(d.hw, r.last)
      /\ model'.station.consumed = d.consumed + fresh
      /\ model'.station \in FoldType
  BY RangedFold
<1>2. /\ k \in Nat /\ Len(Reports) \in Nat /\ produced \in Nat
      /\ d.hw \in Int /\ d.hw >= -1 /\ d.consumed \in Nat
  BY <1>0, StateType DEF Reports
<1>i. Inputs \subseteq Nat
  BY StateType DEF Inputs
<1>3. /\ malformed' = malformed /\ produced' = produced /\ Reports' = Reports /\ ranged' = ranged
      /\ read'["metrics/station"] = k + 1
      /\ \A g \in Feeds :
           model'.firstOffset[g] = IF g = "metrics/station" /\ model.firstOffset["metrics/station"] = Unseen
                                   THEN k ELSE model.firstOffset[g]
  <2>1. /\ read' = [read EXCEPT !["metrics/station"] = @ + 1]
        /\ UNCHANGED <<line, saved, rewinds, blurred, refed>>
        /\ \A g \in Feeds :
           model'.firstOffset[g] = IF g = "metrics/station" /\ model.firstOffset["metrics/station"] = Unseen
                                   THEN read["metrics/station"] ELSE model.firstOffset[g]
    BY <1>0, FoldEffect
  <2>2. read \in [Feeds -> Nat]
    BY DEF TypeOK
  <2>. HIDE DEF Feeds
  <2>. QED
    BY <1>0, <2>1, <2>2 DEF line, sim, Reports
<1>4. /\ r.first .. r.last \cap malformed = {} /\ Covered(Reports, r.first, k)
      /\ \A j \in 1 .. Len(Reports) : Reports[j].last \in Nat
  <2>1. k + 1 - 1 = k
    BY <1>2
  <2>3. \A i \in 1 .. Len(Reports) :
          Reached(Reports[i].first, i - 1) /\ Reports[i].first .. Reports[i].last \cap malformed = {}
    BY DEF ReportsInv
  <2>. HIDE DEF k
  <2>2. /\ Reached(Reports[k + 1].first, k)
        /\ Reports[k + 1].first .. Reports[k + 1].last \cap malformed = {}
    <3>. DEFINE i == k + 1
    <3>1. i \in 1 .. Len(Reports) /\ i - 1 = k
      BY <1>1, <1>2
    <3>. HIDE DEF i
    <3>2. Reached(Reports[i].first, k) /\ Reports[i].first .. Reports[i].last \cap malformed = {}
      BY <2>3, <3>1
    <3>. QED
      BY <3>2 DEF i
  <2>. QED
    BY <1>1, <1>i, <2>1, <2>2, StateType DEF Reached, Covered
<1>5. d.hw < produced /\ d.consumed <= Healthy(d.hw)
  BY DEF FoldInv, ConsumedExact
<1>. DEFINE a == Higher(r.first, d.hw + 1)
<1>6. /\ a \in Nat /\ d.hw < a /\ r.first <= a
      /\ r.last > d.hw => a <= r.last + 1 /\ fresh = r.last - a + 1 /\ model'.station.hw = r.last
      /\ ~(r.last > d.hw) => fresh = 0 /\ model'.station.hw = d.hw
  <2>1. LET b == Higher(r.first, d.hw + 1) IN
          /\ b \in Nat /\ d.hw < b /\ r.first <= b
          /\ r.last > d.hw => b <= r.last + 1 /\ Positive(r.last - b + 1) = r.last - b + 1
                              /\ Higher(d.hw, r.last) = r.last
          /\ ~(r.last > d.hw) => Positive(r.last - b + 1) = 0 /\ Higher(d.hw, r.last) = d.hw
    <3>. DEFINE x == d.hw
                u == r.first
                l == r.last
    <3>1. x \in Int /\ x >= -1 /\ u \in Nat /\ l \in Nat /\ u <= l
      BY <1>1, <1>2
    <3>. HIDE DEF x, u, l
    <3>2. LET b == Higher(u, x + 1) IN
            /\ b \in Nat /\ x < b /\ u <= b
            /\ l > x => b <= l + 1 /\ Positive(l - b + 1) = l - b + 1 /\ Higher(x, l) = l
            /\ ~(l > x) => Positive(l - b + 1) = 0 /\ Higher(x, l) = x
      BY <3>1, AboveMark
    <3>. QED
      BY <3>2 DEF x, u, l
  <2>2. fresh = Positive(r.last - a + 1) /\ model'.station.hw = Higher(d.hw, r.last)
    BY <1>1
  <2>3. r.first <= a
    BY <2>1
  <2>. HIDE DEF d
  <2>. QED
    BY <2>1, <2>2, <2>3
<1>. DEFINE Gap == \A o \in d.hw + 1 .. a - 1 : o \in malformed
            hw == model'.station.hw
<1>h. Healthy(d.hw) \in Nat /\ Healthy(d.hw) = Cardinality((0 .. d.hw) \ malformed)
      /\ Healthy(model.station.hw)' = Cardinality((0 .. hw) \ malformed)
  <2>1. Healthy(model.station.hw)' = Cardinality((0 .. hw) \ malformed)
    BY <1>3 DEF Healthy
  <2>2. d.hw \in Int
    BY <1>2
  <2>3. Cardinality((0 .. d.hw) \ malformed) \in Nat
    BY <2>2, CountType
  <2>. QED
    BY <2>1, <2>3 DEF Healthy
<1>7. /\ model'.station.consumed <= Cardinality((0 .. hw) \ malformed)
      /\ d.consumed = Healthy(d.hw) /\ Gap => model'.station.consumed = Cardinality((0 .. hw) \ malformed)
  <2>1. CASE r.last > d.hw
    <3>. DEFINE l == r.last
                e == d.hw
    <3>1. (a .. l) \cap malformed = {}
      <4>1. \A x \in a .. l : x \in r.first .. r.last
        BY <1>1, <1>6
      <4>. QED
        BY <1>4, <4>1
    <3>2. l \in Int /\ a <= l + 1 /\ e \in Int /\ a \in Nat /\ e < a /\ e >= -1
      BY <1>1, <1>2, <1>6, <2>1
    <3>3. hw = l /\ fresh = l - a + 1
      BY <1>6, <2>1
    <3>. HIDE DEF l, a, e
    <3>4. /\ Healthy(e) + (l - a + 1) <= Healthy(l)
          /\ (\A o \in e + 1 .. a - 1 : o \in malformed) => Healthy(l) = Healthy(e) + (l - a + 1)
      BY <3>1, <3>2, HealthySegment
    <3>5. Cardinality((0 .. l) \ malformed) \in Nat /\ Cardinality((0 .. l) \ malformed) = Healthy(l)
      BY <3>2, CountType DEF Healthy
    <3>6. (\A o \in e + 1 .. a - 1 : o \in malformed) <=> Gap
      BY DEF e
    <3>7. Healthy(e) = Healthy(d.hw)
      BY DEF e
    <3>. HIDE DEF Gap, hw, d
    <3>. QED
      BY <1>1, <1>2, <1>5, <1>h, <3>2, <3>3, <3>4, <3>5, <3>6, <3>7
  <2>2. CASE ~(r.last > d.hw)
    <3>1. fresh = 0 /\ hw = d.hw
      BY <1>6, <2>2
    <3>. HIDE DEF Gap, hw, d, a
    <3>. QED
      BY <1>1, <1>2, <1>5, <1>h, <3>1
  <2>. QED
    BY <2>1, <2>2
\* From the first record on: nothing was skipped so far, and nothing is now.
<1>8. ASSUME model'.firstOffset["metrics/station"] = 0
      PROVE  /\ d.consumed = Healthy(d.hw)
             /\ \A j \in 1 .. k : Reports[j].last <= d.hw
  <2>1. CASE model.firstOffset["metrics/station"] = Unseen
    <3>1. k = 0 /\ d = NothingFolded
      BY <1>0, <1>3, <1>8, <2>1 DEF UnseenInv
    <3>2. d.hw = -1 /\ d.consumed = 0
      BY <3>1 DEF NothingFolded
    <3>3. Healthy(-1) = 0
      BY CountType DEF Healthy
    <3>4. Healthy(d.hw) = 0
      BY <3>2, <3>3
    <3>. QED
      BY <3>1, <3>2, <3>4
  <2>2. CASE model.firstOffset["metrics/station"] # Unseen
    <3>1. model.firstOffset["metrics/station"] = 0
      BY <1>0, <1>3, <1>8, <2>2
    <3>. QED
      BY <3>1 DEF FoldInv, ConsumedExact
  <2>. QED
    BY <2>1, <2>2
<1>9. ASSUME model'.firstOffset["metrics/station"] = 0
      PROVE  /\ Gap
             /\ \A j \in 1 .. k + 1 : Reports[j].last <= hw
  <2>1. \A j \in 1 .. k : j \in 1 .. Len(Reports)
    BY <1>1, <1>2
  <2>2. \A j \in 1 .. k : Reports[j].last \in Nat /\ Reports[j].last <= d.hw
    BY <1>4, <1>8, <1>9, <2>1
  <2>3. Gap
    <3>1. CASE a = d.hw + 1
      BY <1>2, <3>1
    <3>2. CASE a = r.first
      <4>. DEFINE e == d.hw
                  o == r.first
      <4>1. e \in Int /\ o \in Nat /\ Covered(Reports, o, k) /\ e >= -1
            /\ \A j \in 1 .. k : Reports[j].last \in Nat /\ Reports[j].last <= e
        BY <1>1, <1>2, <1>4, <2>2
      <4>. HIDE DEF e, o
      <4>2. \A h \in Nat : e < h /\ h < o => h \in malformed
        BY <1>2, <4>1, NothingSkipped
      <4>3. \A x \in e + 1 .. o - 1 : x \in malformed
        BY <4>1, <4>2
      <4>. QED
        BY <3>2, <4>3 DEF e, o
    <3>3. a = d.hw + 1 \/ a = r.first
      BY DEF Higher
    <3>. QED
      BY <3>1, <3>2, <3>3
  <2>4. d.hw <= hw /\ r.last <= hw
    <3>. HIDE DEF d
    <3>. QED
      BY <1>1, <1>2 DEF Higher
  <2>5. \A j \in 1 .. k + 1 : j \in 1 .. k \/ j = k + 1
    BY <1>2
  <2>6. hw \in Int
    BY <1>1 DEF FoldType
  <2>7. \A j \in 1 .. k : Reports[j].last <= hw
    <3>. HIDE DEF d, hw
    <3>. QED
      BY <1>2, <2>2, <2>4, <2>6
  <2>8. Reports[k + 1].last <= hw
    BY <1>1, <2>4
  <2>. QED
    BY <2>3, <2>5, <2>7, <2>8
<1>10. hw < produced
  <2>. HIDE DEF d
  <2>. QED
    BY <1>1, <1>2, <1>5 DEF Higher
<1>11. ConsumedExact'
  BY <1>7, <1>8, <1>9, <1>h DEF ConsumedExact
<1>. QED
  BY <1>3, <1>9, <1>10, <1>11 DEF FoldInv

\* A step that is neither a fold nor a takeover leaves what was folded in place.
LEMMA Untouched ==
  TypeOK /\ LineStep =>
    \/ \E f \in Feeds : Fold(f)
    \/ Takeover
    \/ /\ model' = model /\ ranged' = ranged /\ malformed' = malformed
       /\ produced' \in Nat /\ produced' >= produced
       /\ read'["metrics/station"] <= read["metrics/station"]
       /\ \A j \in 1 .. Len(Reports) : Reports'[j] = Reports[j]
<1>. SUFFICES ASSUME TypeOK, LineStep, \A f \in Feeds : ~Fold(f), ~Takeover
              PROVE  /\ model' = model /\ ranged' = ranged /\ malformed' = malformed
                     /\ produced' \in Nat /\ produced' >= produced
                     /\ read'["metrics/station"] <= read["metrics/station"]
                     /\ \A j \in 1 .. Len(Reports) : Reports'[j] = Reports[j]
  OBVIOUS
<1>0. /\ "metrics/sim" \in Feeds /\ "metrics/station" \in Feeds /\ "dlq" \in Feeds
      /\ produced \in Nat /\ read["metrics/station"] \in Nat
  <2>1. "metrics/sim" \in Feeds /\ "metrics/station" \in Feeds /\ "dlq" \in Feeds
    BY DEF Feeds, MetricsOf
  <2>. QED
    BY <2>1, StateType
<1>1. model' = model /\ ranged' = ranged /\ malformed' = malformed
  BY ModelSteps
<1>2. produced' = produced \/ produced' = produced + 1
  BY DEF LineStep, LineNext, SimTicks, SimProduces, SimReports, SimRestarts, StationHandles,
         StationDeadLetters, StationRewinds, Save, Refeed, Quiet, sim, line
<1>3. read'["metrics/station"] <= read["metrics/station"]
  <2>1. CASE read' = read
    BY <1>0, <2>1
  <2>2. CASE \E f \in Feeds : Refeed(f)
    <3>1. PICK f \in Feeds : saved[f] < read[f] /\ read' = [read EXCEPT ![f] = saved[f]]
      BY <2>2 DEF Refeed
    <3>2. read \in [Feeds -> Nat] /\ saved \in [Feeds -> Nat]
      BY DEF TypeOK
    <3>. HIDE DEF Feeds
    <3>. QED
      BY <1>0, <3>1, <3>2
  <2>3. read' = read \/ \E f \in Feeds : Refeed(f)
    BY DEF LineStep, LineNext, SimTicks, SimProduces, SimReports, SimRestarts, StationHandles,
           StationDeadLetters, StationRewinds, Save, Quiet, observers
  <2>. QED
    BY <2>1, <2>2, <2>3
<1>4. \A j \in 1 .. Len(Reports) : Reports'[j] = Reports[j]
  <2>1. CASE feed' = feed
    BY <2>1 DEF Reports
  <2>2. ASSUME NEW f \in Feeds, NEW r, Emit(f, r)
        PROVE  \A j \in 1 .. Len(Reports) : Reports'[j] = Reports[j]
    BY <1>0, <2>2, Emitted DEF Reports
  <2>. QED
    BY <2>1, <2>2, FeedSteps
<1>. QED
  BY <1>0, <1>1, <1>2, <1>3, <1>4

\* A step keeps the fold exact.
LEMMA StepFoldInv ==
  TypeOK /\ ReportsInv /\ FoldInv /\ UnseenInv /\ LineStep => FoldInv'
<1>. SUFFICES ASSUME TypeOK, ReportsInv, FoldInv, UnseenInv, LineStep PROVE FoldInv'
  OBVIOUS
<1>0. /\ "metrics/station" \in Feeds /\ produced \in Nat
      /\ read["metrics/station"] \in Nat /\ Len(Reports) \in Nat
      /\ read["metrics/station"] <= Len(Reports)
      /\ model.station.hw \in Int
  <2>1. "metrics/station" \in Feeds
    BY DEF Feeds, MetricsOf
  <2>. QED
    BY <2>1, StateType DEF Reports
<1>1. ASSUME NEW f \in Feeds, Fold(f) PROVE FoldInv'
  <2>1. /\ read' = [read EXCEPT ![f] = @ + 1] /\ UNCHANGED line
        /\ f # "metrics/station" =>
             model'.firstOffset["metrics/station"] = model.firstOffset["metrics/station"]
        /\ Touches(f)
    BY <1>0, <1>1, FoldEffect
  <2>2. produced' = produced /\ malformed' = malformed /\ ranged' = ranged /\ Reports' = Reports
    BY <2>1 DEF line, sim, Reports
  <2>3. CASE f = "metrics/station" /\ ranged
    BY <1>1, <2>3, StepConsumedExact
  <2>4. CASE f = "metrics/station" /\ ~ranged
    <3>1. model'.station.hw = model.station.hw
      BY <1>1, <2>4, UnrangedFold
    <3>. QED
      BY <2>2, <2>4, <3>1 DEF FoldInv, ConsumedExact
  <2>5. CASE f # "metrics/station"
    <3>1. read'["metrics/station"] = read["metrics/station"]
      BY <1>0, <2>1, <2>5 DEF TypeOK
    <3>2. model'.station = model.station
      BY <2>1, <2>5 DEF Touches
    <3>. QED
      BY <2>1, <2>2, <2>5, <3>1, <3>2 DEF FoldInv, ConsumedExact, Healthy
  <2>. QED
    BY <2>3, <2>4, <2>5
<1>2. CASE Takeover
  <2>1. /\ model'.firstOffset["metrics/station"] = Unseen /\ model'.station = NothingFolded
        /\ produced' = produced /\ malformed' = malformed
    BY <1>0, <1>2, FreshModel DEF line, sim
  <2>2. Healthy(model.station.hw)' = 0
    <3>1. Healthy(model.station.hw)' = Cardinality((0 .. -1) \ malformed)
      BY <2>1 DEF Healthy, NothingFolded
    <3>. QED
      BY <3>1, CountType
  <2>3. ConsumedExact'
    BY <2>1, <2>2 DEF ConsumedExact, NothingFolded, Unseen
  <2>. QED
    BY <1>0, <2>1, <2>3 DEF FoldInv, NothingFolded, Unseen
<1>3. CASE /\ model' = model /\ ranged' = ranged /\ malformed' = malformed
           /\ produced' \in Nat /\ produced' >= produced
           /\ read'["metrics/station"] <= read["metrics/station"]
           /\ \A j \in 1 .. Len(Reports) : Reports'[j] = Reports[j]
  <2>1. ConsumedExact'
    BY <1>3 DEF FoldInv, ConsumedExact, Healthy
  <2>2. model'.station.hw < produced'
    <3>1. model.station.hw < produced
      BY DEF FoldInv
    <3>. QED
      BY <1>0, <1>3, <3>1
  <2>3. TypeOK' /\ read'["metrics/station"] \in Nat
    <3>1. TypeOK'
      BY StepTypeOK
    <3>2. read'["metrics/station"] \in Nat
      BY <1>0, <3>1 DEF TypeOK
    <3>. QED
      BY <3>1, <3>2
  <2>4. \A j \in 1 .. read'["metrics/station"] :
          j \in 1 .. read["metrics/station"] /\ Reports'[j] = Reports[j]
    BY <1>0, <1>3, <2>3
  <2>. QED
    BY <1>3, <2>1, <2>2, <2>4 DEF FoldInv
<1>. QED
  BY <1>1, <1>2, <1>3, Untouched

-----------------------------------------------------------------------------
(***************************************************************************)
(* What the metrics add up to.                                             *)
(***************************************************************************)

\* AddsUp, of the metrics F, the position rd in them, and whether the count is
\* to be exact.
Adding(F, total, rd, count, exact) ==
  \E g \in [0 .. Len(F) -> 0 .. InputLen] :
    /\ g[0] = 0 /\ \A i \in 1 .. Len(F) : g[i] = g[i - 1] + F[i].n
    /\ g[Len(F)] = total
    /\ exact => count = g[rd]

Exact(f) == model.firstOffset[f] = 0 /\ f \notin refed

SimSums     == AddsUp("metrics/sim", produced - unreported, model.simProduced)
StationSums == AddsUp("metrics/station", Healthy(position - 1), model.station.consumed)

\* The sums of the two metrics feeds in terms of Adding, before and after a step.
LEMMA SumsParts ==
  /\ SimSums <=> Adding(feed["metrics/sim"], produced - unreported, read["metrics/sim"],
                        model.simProduced, Exact("metrics/sim"))
  /\ SimSums' <=> Adding(feed'["metrics/sim"], produced' - unreported', read'["metrics/sim"],
                         model'.simProduced, Exact("metrics/sim")')
  /\ StationSums <=> Adding(Reports, Healthy(position - 1), read["metrics/station"],
                            model.station.consumed, Exact("metrics/station"))
  /\ StationSums' <=> Adding(Reports', Healthy(position - 1)', read'["metrics/station"],
                             model'.station.consumed, Exact("metrics/station")')
BY DEF SimSums, StationSums, AddsUp, Sums, Adding, Exact, Reports

\* A count that need not be exact may stand for anything.
LEMMA AddingVague ==
  ASSUME NEW F, NEW total, NEW rd, NEW count, NEW exact, NEW e, NEW r, NEW c,
         Adding(F, total, rd, count, exact), ~e
  PROVE  Adding(F, total, r, c, e)
BY DEF Adding

\* One metric more on a feed adds its count to the total.
LEMMA AddingAppend ==
  ASSUME NEW F, NEW G, NEW total \in Int, NEW n \in Nat, NEW rd \in Nat, NEW count,
         NEW exact \in BOOLEAN,
         Len(F) \in Nat, Len(G) = Len(F) + 1, rd <= Len(F), total + n <= InputLen,
         InputLen \in Nat, \A i \in 1 .. Len(F) : G[i] = F[i], G[Len(F) + 1].n = n,
         Adding(F, total, rd, count, exact)
  PROVE  Adding(G, total + n, rd, count, exact)
<1>. DEFINE N == Len(F)
<1>1. PICK g \in [0 .. N -> 0 .. InputLen] :
        /\ g[0] = 0 /\ \A i \in 1 .. N : g[i] = g[i - 1] + F[i].n
        /\ g[N] = total
        /\ exact => count = g[rd]
  BY DEF Adding
<1>. DEFINE h == [i \in 0 .. N + 1 |-> IF i = N + 1 THEN total + n ELSE g[i]]
<1>2. total \in 0 .. InputLen
  BY <1>1
<1>3. h \in [0 .. N + 1 -> 0 .. InputLen]
  BY <1>1, <1>2
<1>4. \A i \in 0 .. N : h[i] = g[i]
  OBVIOUS
<1>5. h[N + 1] = total + n
  OBVIOUS
<1>. HIDE DEF h, N
<1>6. ASSUME NEW i \in 1 .. N + 1 PROVE h[i] = h[i - 1] + G[i].n
  <2>1. CASE i \in 1 .. N
    <3>1. i \in 0 .. N /\ i - 1 \in 0 .. N
      BY <2>1 DEF N
    <3>2. g[i] = g[i - 1] + F[i].n
      BY <1>1, <2>1
    <3>3. G[i] = F[i]
      BY <2>1 DEF N
    <3>. QED
      BY <1>4, <3>1, <3>2, <3>3
  <2>2. CASE i = N + 1
    <3>1. i - 1 = N /\ N \in 0 .. N
      BY <2>2 DEF N
    <3>2. h[i - 1] = total
      BY <1>1, <1>4, <3>1
    <3>3. G[i].n = n
      BY <2>2 DEF N
    <3>. QED
      BY <1>5, <2>2, <3>2, <3>3
  <2>. QED
    BY <2>1, <2>2 DEF N
<1>7. h[0] = 0 /\ h[rd] = g[rd]
  <2>1. 0 \in 0 .. N /\ rd \in 0 .. N
    BY DEF N
  <2>. QED
    BY <1>1, <1>4, <2>1
<1>8. Len(G) = N + 1
  BY DEF N
<1>. QED
  BY <1>1, <1>3, <1>5, <1>6, <1>7, <1>8 DEF Adding

\* The model takes the next metric in, at the first of them or after a count that
\* was exact.
LEMMA AddingFold ==
  ASSUME NEW F, NEW total, NEW rd \in Nat, NEW count, NEW exact, NEW e,
         Len(F) \in Nat, rd + 1 <= Len(F), e => exact \/ (rd = 0 /\ count = 0),
         Adding(F, total, rd, count, exact)
  PROVE  Adding(F, total, rd + 1, count + F[rd + 1].n, e)
<1>. DEFINE N == Len(F)
<1>1. PICK g \in [0 .. N -> 0 .. InputLen] :
        /\ g[0] = 0 /\ \A i \in 1 .. N : g[i] = g[i - 1] + F[i].n
        /\ g[N] = total
        /\ exact => count = g[rd]
  BY DEF Adding
<1>2. e => count = g[rd]
  BY <1>1
<1>3. g[rd + 1] = g[rd] + F[rd + 1].n
  <2>1. rd + 1 \in 1 .. N /\ rd + 1 - 1 = rd
    OBVIOUS
  <2>. QED
    BY <1>1, <2>1
<1>4. e => count + F[rd + 1].n = g[rd + 1]
  BY <1>2, <1>3
<1>. QED
  BY <1>1, <1>4 DEF Adding

\* The invariant of the sums by its parts.
LEMMA SumsInvParts ==
  /\ SumsInv <=>
       /\ ~blurred => /\ SimSums /\ (~ranged => StationSums)
                      /\ Len(feed["dlq"]) = Cardinality((0 .. position - 1) \cap malformed)
       /\ Exact("dlq") => model.dlq = read["dlq"]
  /\ SumsInv' <=>
       /\ ~blurred' => /\ SimSums' /\ (~ranged' => StationSums')
                       /\ Len(feed'["dlq"]) = Cardinality((0 .. position' - 1) \cap malformed')
       /\ Exact("dlq")' => model'.dlq = read'["dlq"]
BY DEF SumsInv, SimSums, StationSums, Exact

\* Positions at which the counts below them are the same.
LEMMA SameCounts ==
  ASSUME NEW o \in Nat, NEW p \in Nat, o <= p, (o .. p - 1) \cap malformed = {}
  PROVE  (0 .. o - 1) \cap malformed = (0 .. p - 1) \cap malformed
OBVIOUS

\* What a fold leaves of the sums of the other feeds, and of its own.
LEMMA FoldSums ==
  TypeOK /\ UnseenInv => \A f \in Feeds : Fold(f) =>
    /\ \A g \in Feeds : g # f => Exact(g)' = Exact(g) /\ read'[g] = read[g]
    /\ Exact(f) \in BOOLEAN /\ read'[f] = read[f] + 1
    /\ Exact(f)' => Exact(f) \/ (read[f] = 0 /\ model.firstOffset[f] = Unseen)
<1>. HAVE TypeOK /\ UnseenInv
<1>. TAKE f \in Feeds
<1>. HAVE Fold(f)
<1>1. /\ read' = [read EXCEPT ![f] = @ + 1] /\ refed' = refed
      /\ \A g \in Feeds :
           model'.firstOffset[g] = IF g = f /\ model.firstOffset[f] = Unseen THEN read[f]
                                   ELSE model.firstOffset[g]
  BY FoldEffect
<1>2. read \in [Feeds -> Nat]
  BY DEF TypeOK
<1>3. \A g \in Feeds : g # f => read'[g] = read[g]
  BY <1>1, <1>2
<1>4. read'[f] = read[f] + 1
  BY <1>1, <1>2
<1>5. \A g \in Feeds : g # f => Exact(g)' = Exact(g)
  BY <1>1 DEF Exact
<1>6. Exact(f)' => Exact(f) \/ (read[f] = 0 /\ model.firstOffset[f] = Unseen)
  BY <1>1 DEF Exact
<1>. QED
  BY <1>3, <1>4, <1>5, <1>6 DEF Exact

\* Folding a metric keeps the sums.
LEMMA FoldKeepsSums ==
  TypeOK /\ ReportsInv /\ UnseenInv /\ SumsInv => \A f \in Feeds : Fold(f) => SumsInv'
<1>. HAVE TypeOK /\ ReportsInv /\ UnseenInv /\ SumsInv
<1>. TAKE f \in Feeds
<1>. HAVE Fold(f)
<1>0. /\ "metrics/sim" \in Feeds /\ "metrics/station" \in Feeds /\ "dlq" \in Feeds
      /\ f = "metrics/sim" \/ f = "metrics/station" \/ f = "dlq"
  BY DEF Feeds, MetricsOf
<1>1. /\ \A g \in Feeds : g # f => Exact(g)' = Exact(g) /\ read'[g] = read[g]
      /\ read'[f] = read[f] + 1
      /\ Exact(f)' => Exact(f) \/ (read[f] = 0 /\ model.firstOffset[f] = Unseen)
  BY FoldSums
<1>2. /\ feed' = feed /\ produced' = produced /\ unreported' = unreported /\ ranged' = ranged
      /\ position' = position /\ malformed' = malformed /\ blurred' = blurred
      /\ read[f] \in Nat /\ read[f] + 1 \in 1 .. Len(feed[f]) /\ Len(feed[f]) \in Nat
  <2>1. UNCHANGED <<line, blurred>> /\ read[f] + 1 \in 1 .. Len(feed[f])
    BY FoldEffect
  <2>. QED
    BY <2>1, StateType DEF line, sim
<1>3. Touches(f)
  BY FoldEffect
<1>4. ~blurred => SimSums'
  <2>. HAVE ~blurred
  <2>1. Adding(feed["metrics/sim"], produced - unreported, read["metrics/sim"],
               model.simProduced, Exact("metrics/sim"))
    BY SumsInvParts, SumsParts
  <2>2. CASE f = "metrics/sim"
    <3>1. model'.simProduced = model.simProduced + feed["metrics/sim"][read["metrics/sim"] + 1].n
      BY <2>2, FoldEffect
    <3>2. Exact("metrics/sim")' =>
            Exact("metrics/sim") \/ (read["metrics/sim"] = 0 /\ model.simProduced = 0)
      BY <1>1, <2>2 DEF UnseenInv
    <3>. DEFINE F == feed["metrics/sim"]
                e == Exact("metrics/sim")'
                x == Exact("metrics/sim")
                c == model.simProduced
                rd == read["metrics/sim"]
                t == produced - unreported
    <3>3. /\ rd \in Nat /\ Len(F) \in Nat /\ rd + 1 <= Len(F)
          /\ e => x \/ (rd = 0 /\ c = 0)
          /\ Adding(F, t, rd, c, x)
      BY <1>2, <2>1, <2>2, <3>2
    <3>. HIDE DEF F, e, x, c, rd, t
    <3>4. Adding(F, t, rd + 1, c + F[rd + 1].n, e)
      BY <3>3, AddingFold
    <3>. QED
      BY <1>1, <1>2, <2>2, <3>1, <3>4, SumsParts DEF F, e, x, c, rd, t
  <2>3. CASE f # "metrics/sim"
    BY <1>0, <1>1, <1>2, <1>3, <2>1, <2>3, SumsParts DEF Touches
  <2>. QED
    BY <2>2, <2>3
<1>5. ~blurred /\ ~ranged => StationSums'
  <2>. HAVE ~blurred /\ ~ranged
  <2>1. Adding(Reports, Healthy(position - 1), read["metrics/station"],
               model.station.consumed, Exact("metrics/station"))
    BY SumsInvParts, SumsParts
  <2>2. CASE f = "metrics/station"
    <3>1. model'.station.consumed = model.station.consumed + Reports[read["metrics/station"] + 1].n
      BY <2>2, UnrangedFold
    <3>2. Exact("metrics/station")' =>
            Exact("metrics/station") \/ (read["metrics/station"] = 0 /\ model.station.consumed = 0)
      BY <1>1, <2>2 DEF UnseenInv, NothingFolded
    <3>. DEFINE F == Reports
                e == Exact("metrics/station")'
                x == Exact("metrics/station")
                c == model.station.consumed
                rd == read["metrics/station"]
                t == Healthy(position - 1)
    <3>3. /\ rd \in Nat /\ Len(F) \in Nat /\ rd + 1 <= Len(F)
          /\ e => x \/ (rd = 0 /\ c = 0)
          /\ Adding(F, t, rd, c, x)
      BY <1>2, <2>1, <2>2, <3>2 DEF Reports
    <3>5. Reports' = F /\ Healthy(position - 1)' = t
      BY <1>2 DEF Reports, Healthy
    <3>. HIDE DEF F, e, x, c, rd, t
    <3>4. Adding(F, t, rd + 1, c + F[rd + 1].n, e)
      BY <3>3, AddingFold
    <3>. QED
      BY <1>1, <1>2, <2>2, <3>1, <3>4, <3>5, SumsParts DEF F, e, x, c, rd
  <2>3. CASE f # "metrics/station"
    <3>1. Reports' = Reports /\ Healthy(position - 1)' = Healthy(position - 1)
      BY <1>2 DEF Reports, Healthy
    <3>. QED
      BY <1>0, <1>1, <1>2, <1>3, <2>1, <2>3, <3>1, SumsParts DEF Touches
  <2>. QED
    BY <2>2, <2>3
<1>6. Exact("dlq")' => model'.dlq = read'["dlq"]
  <2>1. CASE f = "dlq"
    <3>1. model'.dlq = model.dlq + 1
      BY <2>1, FoldEffect
    <3>2. Exact("dlq")' => model.dlq = read["dlq"]
      BY <1>1, <2>1, SumsInvParts DEF UnseenInv
    <3>. QED
      BY <1>1, <2>1, <3>1, <3>2
  <2>2. CASE f # "dlq"
    BY <1>0, <1>1, <1>3, <2>2, SumsInvParts DEF Touches
  <2>. QED
    BY <2>1, <2>2
<1>. QED
  BY <1>2, <1>4, <1>5, <1>6, SumsInvParts

\* The line reports what the sums were short of.
LEMMA EmitKeepsSums ==
  TypeOK /\ SumsInv /\ (SimReports \/ StationHandles \/ StationDeadLetters) => SumsInv'
<1>. SUFFICES ASSUME TypeOK, SumsInv, SimReports \/ StationHandles \/ StationDeadLetters
              PROVE  SumsInv'
  OBVIOUS
<1>0. /\ "metrics/sim" \in Feeds /\ "metrics/station" \in Feeds /\ "dlq" \in Feeds
      /\ InputLen \in Nat /\ produced \in Nat /\ produced <= InputLen /\ unreported \in Nat
      /\ position \in Nat /\ position <= produced
      /\ \A f \in Feeds : Len(feed[f]) \in Nat /\ read[f] \in Nat /\ read[f] <= Len(feed[f])
  <2>1. "metrics/sim" \in Feeds /\ "metrics/station" \in Feeds /\ "dlq" \in Feeds
    BY DEF Feeds, MetricsOf
  <2>. QED
    BY <2>1, StateType
<1>1. /\ malformed' = malformed /\ ranged' = ranged /\ produced' = produced
      /\ read' = read /\ model' = model /\ refed' = refed /\ blurred' = blurred
  BY DEF SimReports, StationHandles, StationDeadLetters, observers, sim
<1>2. /\ Exact("metrics/sim")' = Exact("metrics/sim")
      /\ Exact("metrics/station")' = Exact("metrics/station")
      /\ Exact("dlq")' = Exact("dlq")
  BY <1>1 DEF Exact
<1>3. Exact("dlq")' => model'.dlq = read'["dlq"]
  BY <1>1, <1>2, SumsInvParts
<1>4. CASE SimReports
  <2>1. /\ Emit("metrics/sim", [n |-> unreported]) /\ unreported' = 0 /\ position' = position
    BY <1>4 DEF SimReports
  <2>2. /\ Reports' = Reports /\ feed'["dlq"] = feed["dlq"]
        /\ Len(feed'["metrics/sim"]) = Len(feed["metrics/sim"]) + 1
        /\ feed'["metrics/sim"][Len(feed["metrics/sim"]) + 1] = [n |-> unreported]
        /\ \A i \in 1 .. Len(feed["metrics/sim"]) : feed'["metrics/sim"][i] = feed["metrics/sim"][i]
    BY <1>0, <2>1, Emitted DEF Reports
  <2>3. Healthy(position - 1)' = Healthy(position - 1)
    BY <1>1, <2>1 DEF Healthy
  <2>4. ~blurred => SimSums'
    <3>. HAVE ~blurred
    <3>. DEFINE F == feed["metrics/sim"]
                G == feed'["metrics/sim"]
                e == Exact("metrics/sim")
                c == model.simProduced
                rd == read["metrics/sim"]
                t == produced - unreported
    <3>1. Adding(F, t, rd, c, e)
      BY SumsInvParts, SumsParts
    <3>2. /\ t \in Int /\ rd \in Nat /\ Len(F) \in Nat /\ Len(G) = Len(F) + 1 /\ rd <= Len(F)
          /\ t + unreported <= InputLen /\ e \in BOOLEAN
          /\ \A i \in 1 .. Len(F) : G[i] = F[i]
          /\ G[Len(F) + 1].n = unreported
          /\ t + unreported = produced' - unreported'
          /\ InputLen \in Nat /\ unreported \in Nat
      BY <1>0, <1>1, <2>1, <2>2 DEF Exact
    <3>. HIDE DEF F, G, e, c, rd, t
    <3>3. Adding(G, t + unreported, rd, c, e)
      BY ONLY <3>1, <3>2, AddingAppend
    <3>. QED
      BY <1>1, <1>2, <3>2, <3>3, SumsParts DEF F, G, e, c, rd
  <2>5. ~blurred /\ ~ranged => StationSums'
    BY <1>1, <1>2, <2>2, <2>3, SumsInvParts, SumsParts
  <2>. QED
    BY <1>1, <1>3, <2>1, <2>2, <2>4, <2>5, SumsInvParts
<1>5. CASE StationHandles
  <2>1. PICK last \in position .. produced - 1 :
          /\ position .. last \cap malformed = {}
          /\ Emit("metrics/station", [n |-> last - position + 1, first |-> position, last |-> last])
          /\ position' = last + 1
    BY <1>5 DEF StationHandles
  <2>2. /\ Len(Reports') = Len(Reports) + 1
        /\ Reports'[Len(Reports) + 1] = [n |-> last - position + 1, first |-> position, last |-> last]
        /\ \A i \in 1 .. Len(Reports) : Reports'[i] = Reports[i]
        /\ feed'["metrics/sim"] = feed["metrics/sim"] /\ feed'["dlq"] = feed["dlq"]
    BY <1>0, <2>1, Emitted DEF Reports
  <2>3. unreported' = unreported
    BY <1>5 DEF StationHandles, sim
  <2>4. /\ last \in Nat /\ position <= last /\ last < produced /\ last + 1 - 1 = last
        /\ last - position + 1 \in Nat
    BY <1>0
  <2>5. /\ Healthy(position - 1)' = Healthy(position - 1) + (last - position + 1)
        /\ Healthy(position - 1) \in Nat
        /\ Healthy(position - 1) + (last - position + 1) <= InputLen
    <3>. DEFINE k == position - 1
    <3>1. k \in Int /\ k >= -1 /\ k < position /\ position <= last + 1 /\ position .. last \cap malformed = {}
      BY <1>0, <2>1, <2>4
    <3>2. \A o \in k + 1 .. position - 1 : o \in malformed
      BY <1>0
    <3>. HIDE DEF k
    <3>3. Healthy(last) = Healthy(k) + (last - position + 1)
      <4>1. last \in Int
        BY <2>4
      <4>. QED
        BY <1>0, <3>1, <3>2, <4>1, HealthySegment
    <3>4. Healthy(position - 1)' = Healthy(last)
      <4>1. position' - 1 = last
        BY <2>1, <2>4
      <4>. QED
        BY <1>1, <4>1 DEF Healthy
    <3>5. Healthy(k) \in Nat
      BY <3>1, CountType DEF Healthy
    <3>6. Healthy(last) <= last + 1
      <4>. DEFINE l == last + 1
      <4>1. l \in Nat /\ l - 1 = last
        BY <2>4
      <4>. HIDE DEF l
      <4>2. Cardinality((0 .. l - 1) \ malformed) + Cardinality((0 .. l - 1) \cap malformed) = l
        BY <4>1, CountSplit
      <4>3. /\ Cardinality((0 .. l - 1) \ malformed) \in Nat
            /\ Cardinality((0 .. l - 1) \cap malformed) \in Nat
        <5>1. l - 1 \in Int
          BY <4>1
        <5>. QED
          BY <5>1, CountType
      <4>4. Cardinality((0 .. l - 1) \ malformed) <= l
        BY <4>1, <4>2, <4>3
      <4>. QED
        BY <4>1, <4>4 DEF Healthy, l
    <3>7. Healthy(last) <= InputLen
      <4>1. Healthy(last) \in Int
        BY <3>3, <3>5, <2>4
      <4>. QED
        BY <1>0, <2>4, <3>6, <4>1
    <3>. QED
      BY <3>3, <3>4, <3>5, <3>7 DEF k
  <2>6. ~blurred /\ ~ranged => StationSums'
    <3>. HAVE ~blurred /\ ~ranged
    <3>. DEFINE F == Reports
                G == Reports'
                e == Exact("metrics/station")
                c == model.station.consumed
                rd == read["metrics/station"]
                t == Healthy(position - 1)
                m == last - position + 1
    <3>1. Adding(F, t, rd, c, e)
      BY SumsInvParts, SumsParts
    <3>2. /\ t \in Int /\ rd \in Nat /\ Len(F) \in Nat /\ Len(G) = Len(F) + 1 /\ rd <= Len(F)
          /\ t + m <= InputLen /\ e \in BOOLEAN /\ m \in Nat
          /\ \A i \in 1 .. Len(F) : G[i] = F[i]
          /\ G[Len(F) + 1].n = m
      BY <1>0, <2>2, <2>4, <2>5 DEF Exact, Reports
    <3>3. t + m = Healthy(position - 1)'
      BY <2>5
    <3>. HIDE DEF F, G, e, c, rd, t, m
    <3>4. Adding(G, t + m, rd, c, e)
      BY <1>0, <3>1, <3>2, AddingAppend
    <3>. QED
      BY <1>1, <1>2, <3>3, <3>4, SumsParts DEF F, G, e, c, rd
  <2>7. ~blurred => SimSums'
    BY <1>1, <1>2, <2>2, <2>3, SumsInvParts, SumsParts
  <2>8. (0 .. position' - 1) \cap malformed' = (0 .. position - 1) \cap malformed
    <3>1. last + 1 \in Nat /\ position <= last + 1 /\ position .. last + 1 - 1 \cap malformed = {}
      BY <1>0, <2>1, <2>4
    <3>2. (0 .. position - 1) \cap malformed = (0 .. last + 1 - 1) \cap malformed
      BY <1>0, <3>1, SameCounts
    <3>. QED
      BY <1>1, <2>1, <3>2
  <2>. QED
    BY <1>1, <1>3, <2>2, <2>6, <2>7, <2>8, SumsInvParts
<1>6. CASE StationDeadLetters
  <2>1. /\ position \in malformed /\ Emit("dlq", position) /\ position' = position + 1
        /\ unreported' = unreported
    BY <1>6 DEF StationDeadLetters, sim
  <2>2. /\ Reports' = Reports /\ feed'["metrics/sim"] = feed["metrics/sim"]
        /\ Len(feed'["dlq"]) = Len(feed["dlq"]) + 1
    BY <1>0, <2>1, Emitted DEF Reports
  <2>3. /\ Healthy(position - 1)' = Healthy(position - 1)
        /\ Cardinality((0 .. position' - 1) \cap malformed')
             = Cardinality((0 .. position - 1) \cap malformed) + 1
    <3>1. position' - 1 = position
      BY <1>0, <2>1
    <3>2. /\ Cardinality((0 .. position) \ malformed) = Cardinality((0 .. position - 1) \ malformed)
          /\ Cardinality((0 .. position) \cap malformed)
               = Cardinality((0 .. position - 1) \cap malformed) + 1
      BY <1>0, <2>1, CountNext
    <3>. QED
      BY <1>1, <3>1, <3>2 DEF Healthy
  <2>4. ~blurred => SimSums' /\ (~ranged => StationSums')
    BY <1>1, <1>2, <2>1, <2>2, <2>3, SumsInvParts, SumsParts
  <2>. QED
    BY <1>1, <1>3, <2>2, <2>3, <2>4, SumsInvParts
<1>. QED
  BY <1>4, <1>5, <1>6

\* A step keeps the sums.
LEMMA StepSumsInv == TypeOK /\ ReportsInv /\ UnseenInv /\ SumsInv /\ LineStep => SumsInv'
<1>. SUFFICES ASSUME TypeOK, ReportsInv, UnseenInv, SumsInv, LineStep PROVE SumsInv'
  OBVIOUS
<1>0. /\ "metrics/sim" \in Feeds /\ "metrics/station" \in Feeds /\ "dlq" \in Feeds
      /\ produced \in Nat /\ unreported \in Nat /\ position \in Nat
  <2>1. "metrics/sim" \in Feeds /\ "metrics/station" \in Feeds /\ "dlq" \in Feeds
    BY DEF Feeds, MetricsOf
  <2>. QED
    BY <2>1, StateType
<1>1. CASE \E f \in Feeds : Fold(f)
  BY <1>1, FoldKeepsSums
<1>2. CASE SimReports \/ StationHandles \/ StationDeadLetters
  BY <1>2, EmitKeepsSums
<1>3. CASE SimTicks \/ SimProduces \/ Quiet \/ \E f \in Feeds : Save(f)
  <2>1. /\ feed' = feed /\ read' = read /\ model' = model /\ refed' = refed /\ blurred' = blurred
        /\ position' = position /\ malformed' = malformed /\ ranged' = ranged
    BY <1>3 DEF SimTicks, SimProduces, Quiet, Save, observers, line, sim
  <2>2. produced' - unreported' = produced - unreported
    BY <1>0, <1>3 DEF SimTicks, SimProduces, Quiet, Save, line, sim
  <2>3. /\ Exact("metrics/sim")' = Exact("metrics/sim")
        /\ Exact("metrics/station")' = Exact("metrics/station")
        /\ Exact("dlq")' = Exact("dlq") /\ Reports' = Reports
        /\ Healthy(position - 1)' = Healthy(position - 1)
    BY <2>1 DEF Exact, Reports, Healthy
  <2>4. ~blurred => SimSums' /\ (~ranged => StationSums')
    BY <2>1, <2>2, <2>3, SumsInvParts, SumsParts
  <2>. QED
    BY <2>1, <2>3, <2>4, SumsInvParts
<1>4. CASE SimRestarts \/ StationRewinds
  <2>1. /\ feed' = feed /\ read' = read /\ model' = model /\ refed' = refed
        /\ malformed' = malformed /\ ranged' = ranged /\ produced' = produced
    BY <1>4 DEF SimRestarts, StationRewinds, observers, sim
  <2>2. /\ Exact("metrics/sim")' = Exact("metrics/sim")
        /\ Exact("metrics/station")' = Exact("metrics/station")
        /\ Exact("dlq")' = Exact("dlq") /\ Reports' = Reports
    BY <2>1 DEF Exact, Reports
  <2>3. ~blurred' =>
          /\ ~blurred /\ unreported' = unreported
          /\ ranged \/ position' = position
          /\ (0 .. position' - 1) \cap malformed = (0 .. position - 1) \cap malformed
    <3>1. CASE SimRestarts
      <4>1. /\ unreported' = 0 /\ position' = position
            /\ blurred' <=> blurred \/ unreported > 0
        BY <3>1 DEF SimRestarts
      <4>2. ~(unreported > 0) => unreported = 0
        BY <1>0
      <4>. QED
        BY <4>1, <4>2
    <3>2. CASE StationRewinds
      <4>1. PICK o \in 0 .. position - 1 :
              /\ position' = o
              /\ blurred' = (blurred \/ ~ranged \/ o .. position - 1 \cap malformed # {})
        BY <3>2 DEF StationRewinds
      <4>2. unreported' = unreported
        BY <3>2 DEF StationRewinds, sim
      <4>3. o \in Nat /\ o <= position
        BY <1>0
      <4>4. (o .. position - 1) \cap malformed = {} =>
              (0 .. o - 1) \cap malformed = (0 .. position - 1) \cap malformed
        BY <1>0, <4>3, SameCounts
      <4>. QED
        BY <4>1, <4>2, <4>4
    <3>. QED
      BY <1>4, <3>1, <3>2
  <2>4. position' = position => Healthy(position - 1)' = Healthy(position - 1)
    BY <2>1 DEF Healthy
  <2>5. ~blurred' => SimSums' /\ (~ranged' => StationSums')
    BY <2>1, <2>2, <2>3, <2>4, SumsInvParts, SumsParts
  <2>. QED
    BY <2>1, <2>2, <2>3, <2>5, SumsInvParts
<1>5. ASSUME NEW f \in Feeds, Refeed(f) PROVE SumsInv'
  <2>1. /\ UNCHANGED <<line, model, blurred>>
        /\ read' = [read EXCEPT ![f] = saved[f]] /\ refed' = refed \cup {f}
    BY <1>5 DEF Refeed
  <2>2. /\ feed' = feed /\ produced' = produced /\ unreported' = unreported
        /\ position' = position /\ malformed' = malformed /\ ranged' = ranged /\ blurred' = blurred
        /\ Reports' = Reports /\ Healthy(position - 1)' = Healthy(position - 1)
    BY <2>1 DEF line, sim, Reports, Healthy
  <2>3. \A g \in Feeds : Exact(g)' => Exact(g) /\ read'[g] = read[g]
    <3>1. read \in [Feeds -> Nat]
      BY DEF TypeOK
    <3>. HIDE DEF Feeds
    <3>. QED
      BY <2>1, <3>1 DEF Exact
  <2>4. ASSUME NEW F, NEW t, NEW c, NEW g \in Feeds, Adding(F, t, read[g], c, Exact(g))
        PROVE  Adding(F, t, read'[g], c, Exact(g)')
    <3>1. CASE Exact(g)'
      <4>1. Exact(g) /\ read'[g] = read[g]
        BY <2>3, <3>1
      <4>. QED
        BY <2>4, <4>1 DEF Adding
    <3>2. CASE ~Exact(g)'
      BY <2>4, <3>2 DEF Adding
    <3>. QED
      BY <3>1, <3>2
  <2>5. ~blurred => SimSums'
    <3>. HAVE ~blurred
    <3>1. Adding(feed["metrics/sim"], produced - unreported, read["metrics/sim"],
                 model.simProduced, Exact("metrics/sim"))
      BY SumsInvParts, SumsParts
    <3>2. Adding(feed["metrics/sim"], produced - unreported, read'["metrics/sim"],
                 model.simProduced, Exact("metrics/sim")')
      BY <1>0, <2>4, <3>1
    <3>. QED
      BY <2>1, <2>2, <3>2, SumsParts
  <2>6. ~blurred /\ ~ranged => StationSums'
    <3>. HAVE ~blurred /\ ~ranged
    <3>1. Adding(Reports, Healthy(position - 1), read["metrics/station"],
                 model.station.consumed, Exact("metrics/station"))
      BY SumsInvParts, SumsParts
    <3>2. Adding(Reports, Healthy(position - 1), read'["metrics/station"],
                 model.station.consumed, Exact("metrics/station")')
      BY <1>0, <2>4, <3>1
    <3>. QED
      BY <2>1, <2>2, <3>2, SumsParts
  <2>7. Exact("dlq")' => model'.dlq = read'["dlq"]
    BY <1>0, <2>1, <2>3, SumsInvParts
  <2>. QED
    BY <2>2, <2>5, <2>6, <2>7, SumsInvParts
<1>6. CASE Takeover
  <2>1. \A g \in Feeds : ~Exact(g)'
    BY <1>6, FreshModel DEF Exact, Unseen
  <2>2. /\ feed' = feed /\ produced' = produced /\ unreported' = unreported
        /\ position' = position /\ malformed' = malformed /\ ranged' = ranged /\ blurred' = blurred
        /\ Reports' = Reports /\ Healthy(position - 1)' = Healthy(position - 1)
    BY <1>6, FreshModel DEF line, sim, Reports, Healthy
  <2>3. ~blurred => SimSums'
    <3>. HAVE ~blurred
    <3>1. Adding(feed["metrics/sim"], produced - unreported, read["metrics/sim"],
                 model.simProduced, Exact("metrics/sim"))
      BY SumsInvParts, SumsParts
    <3>2. Adding(feed["metrics/sim"], produced - unreported, read'["metrics/sim"],
                 model'.simProduced, Exact("metrics/sim")')
      BY <1>0, <2>1, <3>1 DEF Adding
    <3>. QED
      BY <2>2, <3>2, SumsParts
  <2>4. ~blurred /\ ~ranged => StationSums'
    <3>. HAVE ~blurred /\ ~ranged
    <3>1. Adding(Reports, Healthy(position - 1), read["metrics/station"],
                 model.station.consumed, Exact("metrics/station"))
      BY SumsInvParts, SumsParts
    <3>2. Adding(Reports, Healthy(position - 1), read'["metrics/station"],
                 model'.station.consumed, Exact("metrics/station")')
      BY <1>0, <2>1, <3>1 DEF Adding
    <3>. QED
      BY <2>2, <3>2, SumsParts
  <2>. QED
    BY <1>0, <2>1, <2>2, <2>3, <2>4, SumsInvParts
<1>. QED
  BY <1>1, <1>2, <1>3, <1>4, <1>5, <1>6 DEF LineStep, LineNext

-----------------------------------------------------------------------------
(***************************************************************************)
(* The line's part of the inductive invariant.                             *)
(***************************************************************************)

\* The line's invariant at the start.
LEMMA InitLineInv == Init => LineInv
<1>. SUFFICES ASSUME Init PROVE LineInv
  OBVIOUS
<1>0. /\ malformed \subseteq Inputs /\ ranged \in BOOLEAN
      /\ running = TRUE /\ tick = 0 /\ unreported = 0 /\ produced = 0 /\ position = 0
      /\ feed = [f \in Feeds |-> <<>>] /\ read = [f \in Feeds |-> 0]
      /\ saved = [f \in Feeds |-> 0] /\ model = Fresh
      /\ rewinds = 0 /\ blurred = FALSE /\ refed = {}
      /\ InputLen \in Nat /\ MaxRewinds \in Nat /\ Rate \in Nat
  BY DashboardAssumption DEF Init
<1>f. /\ "metrics/sim" \in Feeds /\ "metrics/station" \in Feeds /\ "dlq" \in Feeds
  BY DEF Feeds, MetricsOf
<1>e. /\ \A f \in Feeds : feed[f] = <<>> /\ Len(feed[f]) = 0
      /\ Reports = <<>> /\ Len(Reports) = 0
  BY <1>0, <1>f DEF Reports
<1>h. Healthy(-1) = 0
  BY CountType DEF Healthy
<1>1. TypeOK
  <2>1. LineTypeOK
    BY <1>0 DEF LineTypeOK
  <2>2. FeedTypeOK
    <3>1. feed["metrics/sim"] = <<>> /\ feed["metrics/station"] = <<>> /\ feed["dlq"] = <<>>
      BY <1>e, <1>f
    <3>2. \A S : <<>> \in Seq(S)
      OBVIOUS
    <3>. QED
      BY <1>0, <3>1, <3>2 DEF FeedTypeOK
  <2>3. ReadTypeOK
    BY <1>0, <1>e DEF ReadTypeOK
  <2>4. ModelTypeOK
    BY <1>0 DEF Fresh, ModelTypeOK, FoldType, NothingFolded
  <2>5. RestTypeOK
    <3>1. rewinds = 0 /\ MaxRewinds \in Nat /\ blurred = FALSE /\ refed = {}
      BY <1>0
    <3>2. rewinds \in 0 .. MaxRewinds
      BY <3>1
    <3>3. blurred \in BOOLEAN /\ refed \subseteq Feeds
      BY <3>1, Zenon
    <3>. QED
      BY <3>2, <3>3 DEF RestTypeOK
  <2>. QED
    BY <2>1, <2>2, <2>3, <2>4, <2>5, TypeParts
<1>2. ReportsInv
  BY <1>0, <1>e DEF ReportsInv, Reached
<1>3. FoldInv
  <2>1. model.station.hw = -1 /\ model.station.consumed = 0
        /\ model.firstOffset["metrics/station"] = -1
    BY <1>0, <1>f DEF Fresh, NothingFolded, Unseen
  <2>2. ConsumedExact
    BY <1>h, <2>1 DEF ConsumedExact
  <2>. QED
    BY <1>0, <2>1, <2>2 DEF FoldInv
<1>4. UnseenInv
  BY <1>0, <1>e, <1>f DEF UnseenInv, Fresh, Unseen
<1>5. SumsInv
  <2>. DEFINE g == [i \in 0 .. 0 |-> 0]
  <2>1. g \in [0 .. 0 -> 0 .. InputLen] /\ g[0] = 0
    BY <1>0
  <2>. HIDE DEF g
  <2>2. ASSUME NEW F, Len(F) = 0, NEW e PROVE Adding(F, 0, 0, 0, e)
    BY <2>1, <2>2 DEF Adding
  <2>3. /\ read["metrics/sim"] = 0 /\ read["metrics/station"] = 0 /\ read["dlq"] = 0
        /\ model.simProduced = 0 /\ model.station.consumed = 0 /\ model.dlq = 0
        /\ produced - unreported = 0 /\ position - 1 = -1
    BY <1>0, <1>f DEF Fresh, NothingFolded
  <2>4. SimSums /\ StationSums
    BY <1>e, <1>f, <1>h, <2>2, <2>3, SumsParts
  <2>5. Len(feed["dlq"]) = Cardinality((0 .. position - 1) \cap malformed)
    <3>1. Cardinality((0 .. -1) \cap malformed) = 0
      BY CountType
    <3>. QED
      BY <1>e, <1>f, <2>3, <3>1
  <2>. QED
    BY <2>3, <2>4, <2>5, SumsInvParts
<1>. QED
  BY <1>1, <1>2, <1>3, <1>4, <1>5 DEF LineInv

\* The line's invariant over a step.
LEMMA StepLineInv == LineInv /\ LineStep => LineInv'
BY StepTypeOK, StepReportsInv, StepUnseenInv, StepFoldInv, StepSumsInv DEF LineInv

\* Every step of the validation is a step of the line, or none of its.
LEMMA LineSteps ==
  TypeOK /\ ValidationNext => /\ LineStep
                              /\ Act \/ running' = running \/ Restart
<1>. SUFFICES ASSUME TypeOK, ValidationNext
              PROVE  LineStep /\ (Act \/ running' = running \/ Restart)
  OBVIOUS
<1>0. running \in BOOLEAN
  BY DEF TypeOK
<1>1. CASE LineNext
  BY <1>1 DEF LineStep, LineNext, SimTicks, SimProduces, SimReports, StationHandles,
              StationDeadLetters, StationRewinds, Fold, Save, Refeed, Takeover, line, sim
<1>2. CASE Act
  <2>1. running' \in BOOLEAN
    BY <1>2 DEF Act
  <2>. QED
    BY <1>2, <2>1 DEF Act, LineStep, Quiet
<1>3. CASE Restart
  BY <1>3 DEF Restart, LineStep
<1>4. CASE CommitControl \/ Script
  <2>1. UNCHANGED vars
    BY <1>4 DEF CommitControl, Script, Pause, ReadLag, RoundEnds, Resume, Die
  <2>. QED
    BY <1>0, <2>1 DEF LineStep, Quiet, vars, line, sim, observers
<1>. QED
  BY <1>1, <1>2, <1>3, <1>4 DEF ValidationNext

-----------------------------------------------------------------------------
(***************************************************************************)
(* The script and the control reader.                                      *)
(***************************************************************************)

ScriptType == [pc : {"idle", "absent", "drain", "fetch", "done", "died"},
               next : 1 .. Len(GroupsToCheck) + 1, round : 1 .. MaxRounds,
               within : SUBSET ToSet(GroupsToCheck), resume : BOOLEAN, disturbed : BOOLEAN]

\* The three consumer groups the script reads the lag of.
LEMMA Groups ==
  /\ Len(GroupsToCheck) = 3 /\ GroupsToCheck[1] = "simulator" /\ GroupsToCheck[2] = "station"
  /\ GroupsToCheck[3] = "dashboard"
  /\ \A i \in 1 .. 3 : GroupsToCheck[i] \in ToSet(GroupsToCheck)
<1>1. /\ Len(GroupsToCheck) = 3 /\ GroupsToCheck[1] = "simulator" /\ GroupsToCheck[2] = "station"
      /\ GroupsToCheck[3] = "dashboard" /\ DOMAIN GroupsToCheck = 1 .. 3
  BY DEF GroupsToCheck
<1>2. \A i \in 1 .. 3 : GroupsToCheck[i] \in ToSet(GroupsToCheck)
  BY <1>1 DEF ToSet
<1>. QED
  BY <1>1, <1>2

\* How the script moves; controls grows by at most the record it queues.
LEMMA ScriptEffect ==
  ScriptTypeOK /\ (Script \/ Restart) =>
    /\ script' \in ScriptType
    /\ \/ Pause /\ script.pc = "idle" /\ script'.pc = "drain" /\ script'.within = script.within
          /\ (controls' = Append(controls, "stop") \/ (controls' = controls /\ script'.disturbed))
       \/ /\ ReadLag /\ script.pc = "drain" /\ script'.pc = "drain" /\ controls' = controls
          /\ script'.disturbed = script.disturbed
          /\ "simulator" \in script'.within /\ "simulator" \notin script.within =>
               Lag("simulator") <= LagLimit("simulator")
       \/ /\ RoundEnds /\ script.pc = "drain" /\ script'.pc \in {"drain", "fetch"}
          /\ controls' = controls /\ script'.disturbed = script.disturbed
          /\ script'.within \subseteq script.within
       \/ /\ Resume \/ Die
          /\ script'.pc \in {"done", "died"}
          /\ controls' = controls \/ controls' = Append(controls, "start")
       \/ /\ Restart /\ script'.pc = script.pc /\ script'.within = script.within
          /\ script'.disturbed = (script.pc # "idle") /\ controls' = controls
<1>. HAVE ScriptTypeOK /\ (Script \/ Restart)
<1>0. script \in ScriptType /\ MaxRounds \in Nat \ {0}
  BY ValidationAssumption DEF ScriptTypeOK, ScriptType
<1>1. CASE Pause
  <2>1. PICK resume \in BOOLEAN, fails \in BOOLEAN :
          /\ script' = [script EXCEPT !.pc = "drain", !.resume = resume, !.disturbed = fails]
          /\ IF fails THEN UNCHANGED controls ELSE Queue("stop")
    BY <1>1 DEF Pause
  <2>2. /\ script' \in ScriptType /\ script'.pc = "drain" /\ script'.within = script.within
        /\ script'.disturbed = fails
    BY <1>0, <2>1 DEF ScriptType
  <2>3. script.pc = "idle"
    BY <1>1 DEF Pause
  <2>. QED
    BY <1>1, <2>1, <2>2, <2>3 DEF Queue
<1>2. CASE ReadLag
  <2>. DEFINE g == GroupsToCheck[script.next]
              w == IF Lag(g) <= LagLimit(g) THEN script.within \cup {g} ELSE script.within
  <2>1. /\ script.pc = "drain" /\ script.next <= Len(GroupsToCheck)
        /\ script' = [script EXCEPT !.next = script.next + 1, !.within = w]
        /\ controls' = controls
    BY <1>2 DEF ReadLag
  <2>2. script.next \in 1 .. 3
    BY <1>0, <2>1, Groups DEF ScriptType
  <2>3. w \in SUBSET ToSet(GroupsToCheck)
    <3>1. g \in ToSet(GroupsToCheck)
      BY <2>2, Groups
    <3>2. script.within \in SUBSET ToSet(GroupsToCheck)
      BY <1>0 DEF ScriptType
    <3>. HIDE DEF g
    <3>. QED
      BY <3>1, <3>2
  <2>4. "simulator" \in w /\ "simulator" \notin script.within =>
          Lag("simulator") <= LagLimit("simulator")
    <3>. HIDE DEF g
    <3>. QED
      OBVIOUS
  <2>5. script.next + 1 \in 1 .. Len(GroupsToCheck) + 1
    BY <2>2, Groups
  <2>. HIDE DEF w
  <2>6. /\ script' \in ScriptType /\ script'.pc = "drain" /\ script'.within = w
        /\ script'.disturbed = script.disturbed
    BY <1>0, <2>1, <2>3, <2>5 DEF ScriptType
  <2>. QED
    BY <1>2, <2>1, <2>4, <2>6
<1>3. CASE RoundEnds
  <2>1. /\ script.pc = "drain" /\ controls' = controls
        /\ script' = IF AllWithin \/ script.round = MaxRounds THEN [script EXCEPT !.pc = "fetch"]
                     ELSE [script EXCEPT !.next = 1, !.within = {}, !.round = @ + 1]
    BY <1>3 DEF RoundEnds
  <2>2. CASE AllWithin \/ script.round = MaxRounds
    BY <1>0, <1>3, <2>1, <2>2 DEF ScriptType
  <2>3. CASE ~(AllWithin \/ script.round = MaxRounds)
    <3>1. script' = [script EXCEPT !.next = 1, !.within = {}, !.round = script.round + 1]
      BY <2>1, <2>3
    <3>2. script.round + 1 \in 1 .. MaxRounds /\ 1 \in 1 .. Len(GroupsToCheck) + 1
      BY <1>0, <2>3, Groups DEF ScriptType
    <3>3. /\ script' \in ScriptType /\ script'.pc = "drain" /\ script'.within = {}
          /\ script'.disturbed = script.disturbed
      BY <1>0, <2>1, <3>1, <3>2 DEF ScriptType
    <3>. QED
      BY <1>3, <2>1, <3>3
  <2>. QED
    BY <2>2, <2>3
<1>4. CASE Resume \/ Die
  <2>1. script' = [script EXCEPT !.pc = "done"] \/ script' = [script EXCEPT !.pc = "died"]
    BY <1>4 DEF Resume, Die
  <2>2. script' \in ScriptType /\ script'.pc \in {"done", "died"}
    BY <1>0, <2>1 DEF ScriptType
  <2>3. controls' = controls \/ controls' = Append(controls, "start")
    BY <1>4 DEF Resume, Die, Queue
  <2>. QED
    BY <1>4, <2>2, <2>3
<1>5. CASE Restart
  <2>1. script' = [script EXCEPT !.disturbed = script.pc # "idle"] /\ controls' = controls
    BY <1>5 DEF Restart
  <2>2. /\ script' \in ScriptType /\ script'.pc = script.pc /\ script'.within = script.within
        /\ script'.disturbed = (script.pc # "idle")
    BY <1>0, <2>1 DEF ScriptType
  <2>. QED
    BY <1>5, <2>1, <2>2
<1>. QED
  BY <1>1, <1>2, <1>3, <1>4, <1>5 DEF Script

\* The simulator's control records and how far it acted on them.
LEMMA ControlsType ==
  ScriptTypeOK =>
    /\ Len(controls) \in Nat /\ committed \in Nat /\ acted \in Nat
    /\ committed <= acted /\ acted <= committed + 1 /\ acted <= Len(controls)
    /\ \A r \in {"stop", "start"} : /\ Append(controls, r) \in Seq({"stop", "start"})
                                    /\ Len(Append(controls, r)) = Len(controls) + 1
<1>. HAVE ScriptTypeOK
<1>1. controls \in Seq({"stop", "start"})
  BY DEF ScriptTypeOK
<1>2. /\ committed \in Nat /\ acted \in Nat
      /\ committed <= acted /\ acted <= committed + 1 /\ acted <= Len(controls)
  BY DEF ScriptTypeOK
<1>3. Len(controls) \in Nat
  BY <1>1
<1>4. \A r \in {"stop", "start"} : /\ Append(controls, r) \in Seq({"stop", "start"})
                                   /\ Len(Append(controls, r)) = Len(controls) + 1
  BY <1>1
<1>. QED
  BY <1>2, <1>3, <1>4

\* A step keeps the types of the script's state.
LEMMA StepScriptTypeOK == ScriptTypeOK /\ ValidationNext => ScriptTypeOK'
<1>. SUFFICES ASSUME ScriptTypeOK, ValidationNext PROVE ScriptTypeOK'
  OBVIOUS
<1>0. script \in ScriptType /\ controls \in Seq({"stop", "start"})
  BY DEF ScriptTypeOK, ScriptType
<1>1. CASE LineNext /\ UNCHANGED validation
  BY <1>1 DEF validation, ScriptTypeOK
<1>2. CASE Act
  <2>1. /\ acted = committed /\ acted < Len(controls) /\ acted' = acted + 1
        /\ controls' = controls /\ committed' = committed /\ script' = script
    BY <1>2 DEF Act
  <2>2. acted' \in committed' .. committed' + 1 /\ acted' <= Len(controls')
    BY <2>1, ControlsType
  <2>. QED
    BY <2>1, <2>2 DEF ScriptTypeOK
<1>3. CASE CommitControl
  <2>1. committed' = acted /\ controls' = controls /\ acted' = acted /\ script' = script
    BY <1>3 DEF CommitControl
  <2>2. committed' \in Nat /\ acted' \in committed' .. committed' + 1 /\ acted' <= Len(controls')
    BY <2>1, ControlsType
  <2>. QED
    BY <2>1, <2>2 DEF ScriptTypeOK
<1>4. CASE Script \/ Restart
  <2>1. script' \in ScriptType
    BY <1>4, ScriptEffect
  <2>2. controls' = controls \/ controls' = Append(controls, "stop")
        \/ controls' = Append(controls, "start")
    BY <1>4, ScriptEffect
  <2>3. controls' \in Seq({"stop", "start"}) /\ Len(controls') >= Len(controls)
        /\ Len(controls') \in Nat
    <3>1. Len(controls) \in Nat
      BY ControlsType
    <3>2. ASSUME NEW r \in {"stop", "start"}, controls' = Append(controls, r)
          PROVE  controls' \in Seq({"stop", "start"}) /\ Len(controls') = Len(controls) + 1
      BY <3>2, ControlsType
    <3>3. CASE controls' = controls
      BY <1>0, <3>1, <3>3
    <3>4. CASE controls' = Append(controls, "stop") \/ controls' = Append(controls, "start")
      <4>1. controls' \in Seq({"stop", "start"}) /\ Len(controls') = Len(controls) + 1
        BY <3>2, <3>4
      <4>. QED
        BY <3>1, <4>1
    <3>. QED
      BY <2>2, <3>3, <3>4
  <2>4. committed' = committed /\ (acted' = acted \/ acted' = committed)
    BY <1>4 DEF Script, Pause, ReadLag, RoundEnds, Resume, Die, Restart
  <2>5. committed' \in Nat /\ acted' \in committed' .. committed' + 1 /\ acted' <= Len(controls')
    BY <2>3, <2>4, ControlsType
  <2>. QED
    BY <2>1, <2>3, <2>5 DEF ScriptTypeOK, ScriptType
<1>. QED
  BY <1>1, <1>2, <1>3, <1>4 DEF ValidationNext

\* A step keeps the stop in force while the script measures.
LEMMA StepStopInv == TypeOK /\ ScriptTypeOK /\ StopInv /\ ValidationNext => StopInv'
<1>. SUFFICES ASSUME TypeOK, ScriptTypeOK, StopInv, ValidationNext PROVE StopInv'
  OBVIOUS
<1>0. /\ controls = <<"stop">> => Len(controls) = 1 /\ controls[1] = "stop"
      /\ controls = <<>> => Len(controls) = 0 /\ Append(controls, "stop") = <<"stop">>
  <2>1. /\ Len(<<"stop">>) = 1 /\ <<"stop">>[1] = "stop"
        /\ Len(<<>>) = 0 /\ Append(<<>>, "stop") = <<"stop">>
    OBVIOUS
  <2>. QED
    BY <2>1, Zenon
<1>1. CASE LineNext /\ UNCHANGED validation
  <2>1. UNCHANGED <<controls, acted, committed, script>>
    BY <1>1 DEF validation
  <2>2. running' = running
    BY <1>1 DEF LineNext, SimTicks, SimProduces, SimReports, StationHandles,
                StationDeadLetters, StationRewinds, Fold, Save, Refeed, Takeover, line, sim
  <2>. QED
    BY <2>1, <2>2 DEF StopInv
<1>2. CASE Act
  <2>1. /\ acted = committed /\ acted' = acted + 1 /\ running' = (controls[acted'] = "start")
        /\ controls' = controls /\ committed' = committed /\ script' = script
    BY <1>2 DEF Act
  <2>2. controls = <<"stop">> /\ acted' = 1 => ~running'
    BY <1>0, <2>1
  <2>. QED
    BY <2>1, <2>2 DEF StopInv
<1>3. CASE CommitControl
  <2>1. /\ committed < acted /\ committed' = acted /\ UNCHANGED <<vars, controls, acted, script>>
    BY <1>3 DEF CommitControl
  <2>2. running' = running
    BY <2>1 DEF vars, line, sim
  <2>3. committed = 1 /\ controls = <<"stop">> => committed' = 1
    BY <1>0, <2>1, ControlsType
  <2>. QED
    BY <2>1, <2>2, <2>3 DEF StopInv
<1>4. CASE Script \/ Restart
  <2>0. /\ committed' = committed
        /\ Script => acted' = acted /\ running' = running
    BY <1>4 DEF Script, Pause, ReadLag, RoundEnds, Resume, Die, Restart, vars, line, sim
  <2>1. CASE /\ Pause /\ script.pc = "idle" /\ script'.pc = "drain"
             /\ script'.within = script.within
             /\ (controls' = Append(controls, "stop") \/ (controls' = controls /\ script'.disturbed))
    <3>1. controls = <<>> /\ script.within = {} /\ acted' = acted
      BY <2>0, <2>1 DEF StopInv, Script
    <3>2. acted = 0
      BY <1>0, <3>1, ControlsType
    <3>. QED
      BY <1>0, <2>1, <3>1, <3>2 DEF StopInv
  <2>2. CASE /\ ReadLag /\ script.pc = "drain" /\ script'.pc = "drain" /\ controls' = controls
             /\ script'.disturbed = script.disturbed
             /\ "simulator" \in script'.within /\ "simulator" \notin script.within =>
                  Lag("simulator") <= LagLimit("simulator")
    <3>1. acted' = acted /\ running' = running
      BY <2>0, <2>2 DEF Script
    <3>2. Lag("simulator") = Len(controls) - committed /\ LagLimit("simulator") = 0
      BY DEF Lag, LagLimit
    <3>3. controls = <<"stop">> /\ Lag("simulator") <= LagLimit("simulator") => committed = 1
      BY <1>0, <3>2, ControlsType
    <3>. QED
      BY <2>0, <2>2, <3>1, <3>3 DEF StopInv
  <2>3. CASE /\ RoundEnds /\ script.pc = "drain" /\ script'.pc \in {"drain", "fetch"}
             /\ controls' = controls /\ script'.disturbed = script.disturbed
             /\ script'.within \subseteq script.within
    <3>1. acted' = acted /\ running' = running
      BY <2>0, <2>3 DEF Script
    <3>. QED
      BY <2>0, <2>3, <3>1 DEF StopInv
  <2>4. CASE (Resume \/ Die) /\ script'.pc \in {"done", "died"}
    BY <2>4 DEF StopInv
  <2>5. CASE /\ Restart /\ script'.pc = script.pc /\ script'.within = script.within
             /\ script'.disturbed = (script.pc # "idle") /\ controls' = controls
    BY <2>5 DEF StopInv
  <2>. QED
    BY <1>4, <2>1, <2>2, <2>3, <2>4, <2>5, ScriptEffect
<1>. QED
  BY <1>1, <1>2, <1>3, <1>4 DEF ValidationNext

-----------------------------------------------------------------------------
(***************************************************************************)
(* The inductive invariant, and what follows from it.                      *)
(***************************************************************************)

\* The inductive invariant at the start.
LEMMA InitInv == ValidationInit => Inv
<1>. SUFFICES ASSUME ValidationInit PROVE Inv
  OBVIOUS
<1>1. LineInv
  BY InitLineInv DEF ValidationInit
<1>2. controls = <<>> /\ acted = 0 /\ committed = 0
      /\ script \in [pc : {"idle", "absent"}, next : {1}, round : {1}, within : {{}},
                     resume : {FALSE}, disturbed : {FALSE}]
  BY DEF ValidationInit
<1>3. Len(controls) = 0 /\ controls \in Seq({"stop", "start"})
  <2>1. Len(<<>>) = 0 /\ \A S : <<>> \in Seq(S)
    OBVIOUS
  <2>. QED
    BY <1>2, <2>1
<1>4. script \in ScriptType
  <2>1. 1 \in 1 .. MaxRounds /\ 1 \in 1 .. Len(GroupsToCheck) + 1
    BY Groups, ValidationAssumption
  <2>. QED
    BY <1>2, <2>1 DEF ScriptType
<1>5. ScriptTypeOK
  BY <1>2, <1>3, <1>4 DEF ScriptTypeOK, ScriptType
<1>6. StopInv
  BY <1>2 DEF StopInv
<1>. QED
  BY <1>1, <1>5, <1>6 DEF Inv

\* The inductive invariant over a step.
LEMMA StepInv == Inv /\ [ValidationNext]_everything => Inv'
<1>. SUFFICES ASSUME Inv, [ValidationNext]_everything PROVE Inv'
  OBVIOUS
<1>1. CASE ValidationNext
  <2>1. TypeOK
    BY DEF Inv, LineInv
  <2>2. LineInv'
    BY <1>1, <2>1, LineSteps, StepLineInv DEF Inv
  <2>3. ScriptTypeOK' /\ StopInv'
    BY <1>1, <2>1, StepScriptTypeOK, StepStopInv DEF Inv
  <2>. QED
    BY <2>2, <2>3 DEF Inv
<1>2. CASE UNCHANGED everything
  <2>1. LineStep /\ UNCHANGED validation /\ running' = running
    <3>1. running \in BOOLEAN
      BY DEF Inv, LineInv, TypeOK
    <3>. QED
      BY <1>2, <3>1 DEF everything, LineStep, Quiet, vars, line, sim, observers
  <2>2. LineInv'
    BY <2>1, StepLineInv DEF Inv
  <2>3. ScriptTypeOK' /\ StopInv'
    BY <2>1 DEF Inv, ScriptTypeOK, StopInv, validation
  <2>. QED
    BY <2>2, <2>3 DEF Inv
<1>. QED
  BY <1>1, <1>2

\* The inductive invariant of the line, the dashboard and the script at work on
\* them: what the reports cover, what the fold made of those it read, what the
\* sums come to, and where the stop is.
THEOREM Invariance == Spec => []Inv
<1>1. ValidationInit => Inv
  BY InitInv
<1>2. Inv /\ [ValidationNext]_everything => Inv'
  BY StepInv
<1>. QED
  BY <1>1, <1>2, PTL DEF Spec

\* fold_metric counts no record of a ranged station twice, and none too few once
\* it folded the station's metrics from the first: for any number of records,
\* reports handed again, refeeds and takeovers.
THEOREM ConsumedExactTheorem == Spec => []ConsumedExact
<1>1. Inv => ConsumedExact
  BY DEF Inv, LineInv, FoldInv
<1>. QED
  BY <1>1, Invariance, PTL

\* What validate.sh is paused for: a drain that ended because every lag was in
\* its limit ended with the loop off, for any number of rounds and any limit of
\* the dashboard's lag.
THEOREM StopHoldsTheorem == Spec => []StopHolds
<1>1. Inv => StopHolds
  <2>. SUFFICES ASSUME Inv, script.pc = "fetch", AllWithin, ~script.disturbed PROVE ~running
    BY DEF StopHolds
  <2>1. "simulator" \in script.within
    BY Groups DEF AllWithin
  <2>2. /\ controls = <<"stop">> /\ committed = 1
        /\ acted = 1 => ~running
    BY <2>1 DEF Inv, StopInv
  <2>3. acted = 1
    <3>1. Len(controls) = 1
      BY <2>2
    <3>. QED
      BY <2>2, <3>1, ControlsType DEF Inv
  <2>. QED
    BY <2>2, <2>3
<1>. QED
  BY <1>1, Invariance, PTL

\* A count that is exact after all metrics of a feed is their total; so is the
\* empty count of an empty feed.
LEMMA AddingAll ==
  ASSUME NEW F, NEW total, NEW rd, NEW count, NEW exact,
         Adding(F, total, rd, count, exact), rd = Len(F),
         exact \/ (Len(F) = 0 /\ count = 0)
  PROVE  count = total
<1>1. PICK g \in [0 .. Len(F) -> 0 .. InputLen] :
        /\ g[0] = 0 /\ g[Len(F)] = total
        /\ exact => count = g[rd]
  BY DEF Adding
<1>. QED
  BY <1>1

\* Below a position the reports reach, every record the station does not
\* dead-letter is at or below a mark no report exceeds.
LEMMA AllBelowMark ==
  ASSUME NEW R, NEW N \in Nat, NEW hw \in Int, NEW o \in Nat, hw < o,
         Covered(R, o, N), \A j \in 1 .. N : R[j].last \in Nat /\ R[j].last <= hw
  PROVE  Healthy(hw) = Healthy(o - 1)
<1>1. \A h \in Nat : hw < h /\ h < o => h \in malformed
  BY NothingSkipped
<1>2. (0 .. o - 1) \ malformed = (0 .. hw) \ malformed
  BY <1>1
<1>. QED
  BY <1>2 DEF Healthy

\* The verdict is sound in every state of the invariant.
LEMMA VerdictFromInv == LineInv => VerdictSound
<1>. SUFFICES ASSUME LineInv, Drained, Complete(model), Whole, ~blurred,
                     refed \cap {"metrics/sim", "dlq"} = {},
                     ranged \/ "metrics/station" \notin refed
              PROVE  Balances(model)
  BY DEF VerdictSound
<1>0. /\ TypeOK /\ ReportsInv /\ FoldInv /\ UnseenInv /\ SumsInv
      /\ "metrics/sim" \in Feeds /\ "metrics/station" \in Feeds /\ "dlq" \in Feeds
      /\ "metrics/sim" \in MetricsOf /\ "metrics/station" \in MetricsOf
  BY DEF LineInv, Feeds, MetricsOf
<1>1. /\ produced \in Nat /\ position = produced /\ unreported = 0 /\ produced > 0
      /\ \A f \in Feeds : Len(feed[f]) \in Nat /\ read[f] = Len(feed[f])
      /\ \A f \in Feeds : model.firstOffset[f] \in Int /\ model.firstOffset[f] < Len(feed[f])
      /\ model.station.hw \in Int /\ model.station.hw >= -1
  BY <1>0, StateType DEF Drained, UnseenInv
<1>t. \A f \in Feeds : model.firstOffset[f] \in {Unseen} \cup Nat
  BY <1>0 DEF TypeOK
\* A feed is folded from its first record, or there is none in it.
<1>2. \A f \in Feeds : model.firstOffset[f] = 0
                       \/ (model.firstOffset[f] = Unseen /\ Len(feed[f]) = 0)
  <2>. SUFFICES ASSUME NEW f \in Feeds
                PROVE  model.firstOffset[f] = 0
                       \/ (model.firstOffset[f] = Unseen /\ Len(feed[f]) = 0)
    OBVIOUS
  <2>0. feed[f] = <<>> => Len(feed[f]) = 0
    <3>1. Len(<<>>) = 0
      OBVIOUS
    <3>. QED
      BY <3>1, Zenon
  <2>1. CASE f \in MetricsOf
    <3>1. model.firstOffset[f] <= 0 /\ (feed[f] # <<>> => model.firstOffset[f] # Unseen)
      BY <2>1 DEF Complete, Whole
    <3>2. model.firstOffset[f] = 0 \/ model.firstOffset[f] = Unseen
      BY <1>t, <3>1 DEF Unseen
    <3>. QED
      BY <2>0, <3>1, <3>2
  <2>2. CASE f = "dlq"
    <3>1. feed["dlq"] # <<>> => model.firstOffset["dlq"] = 0
      BY DEF Whole
    <3>2. Len(feed["dlq"]) = 0 => model.firstOffset["dlq"] = Unseen
      BY <1>0, <1>1, <1>t DEF Unseen
    <3>. QED
      BY <2>0, <2>2, <3>1, <3>2
  <2>. QED
    BY <2>1, <2>2 DEF Feeds
<1>3. model.simProduced = produced
  <2>. DEFINE x == Exact("metrics/sim")
  <2>1. Adding(feed["metrics/sim"], produced - unreported, read["metrics/sim"],
               model.simProduced, x)
    BY <1>0, SumsInvParts, SumsParts
  <2>2. x \/ (Len(feed["metrics/sim"]) = 0 /\ model.simProduced = 0)
    <3>1. CASE model.firstOffset["metrics/sim"] = 0
      BY <3>1 DEF Exact
    <3>2. CASE model.firstOffset["metrics/sim"] = Unseen /\ Len(feed["metrics/sim"]) = 0
      BY <1>0, <3>2 DEF UnseenInv
    <3>. QED
      BY <1>0, <1>2, <3>1, <3>2
  <2>3. read["metrics/sim"] = Len(feed["metrics/sim"])
    BY <1>0, <1>1
  <2>. HIDE DEF x
  <2>4. model.simProduced = produced - unreported
    BY <2>1, <2>2, <2>3, AddingAll
  <2>. QED
    BY <1>1, <2>4
<1>4. model.dlq = Cardinality((0 .. position - 1) \cap malformed)
  <2>1. Len(feed["dlq"]) = Cardinality((0 .. position - 1) \cap malformed)
        /\ (Exact("dlq") => model.dlq = read["dlq"])
    BY <1>0, SumsInvParts
  <2>2. CASE model.firstOffset["dlq"] = 0
    BY <1>0, <1>1, <2>1, <2>2 DEF Exact
  <2>3. CASE model.firstOffset["dlq"] = Unseen /\ Len(feed["dlq"]) = 0
    BY <1>0, <2>1, <2>3 DEF UnseenInv
  <2>. QED
    BY <1>0, <1>2, <2>2, <2>3
<1>5. model.station.consumed = Healthy(position - 1)
  <2>1. CASE ~ranged
    <3>. DEFINE x == Exact("metrics/station")
    <3>1. Adding(Reports, Healthy(position - 1), read["metrics/station"],
                 model.station.consumed, x)
      BY <1>0, <2>1, SumsInvParts, SumsParts
    <3>2. x \/ (Len(Reports) = 0 /\ model.station.consumed = 0)
      <4>1. CASE model.firstOffset["metrics/station"] = 0
        BY <2>1, <4>1 DEF Exact
      <4>2. CASE model.firstOffset["metrics/station"] = Unseen /\ Len(feed["metrics/station"]) = 0
        BY <1>0, <4>2 DEF UnseenInv, NothingFolded, Reports
      <4>. QED
        BY <1>0, <1>2, <4>1, <4>2
    <3>3. read["metrics/station"] = Len(Reports)
      BY <1>0, <1>1 DEF Reports
    <3>. HIDE DEF x
    <3>. QED
      BY <3>1, <3>2, <3>3, AddingAll
  <2>2. CASE ranged
    <3>. DEFINE hw == model.station.hw
    <3>1. Covered(Reports, position, Len(Reports))
      BY <1>0 DEF ReportsInv, Reached, Covered
    <3>2. hw < position /\ hw \in Int /\ position \in Nat /\ Len(Reports) \in Nat
          /\ read["metrics/station"] = Len(Reports)
      BY <1>0, <1>1 DEF FoldInv, Reports
    <3>3. \A j \in 1 .. Len(Reports) : Reports[j].last \in Nat
      <4>1. Inputs \subseteq Nat
        BY <1>0, StateType DEF Inputs
      <4>2. \A j \in 1 .. Len(Reports) : Reports[j].last \in Inputs
        BY <1>0, StateType
      <4>. QED
        BY <4>1, <4>2
    <3>4. /\ model.station.consumed = Healthy(hw)
          /\ \A j \in 1 .. Len(Reports) : Reports[j].last <= hw
      <4>1. CASE model.firstOffset["metrics/station"] = 0
        BY <1>0, <2>2, <3>2, <4>1 DEF FoldInv, ConsumedExact
      <4>2. CASE model.firstOffset["metrics/station"] = Unseen /\ Len(feed["metrics/station"]) = 0
        <5>1. hw = -1 /\ model.station.consumed = 0 /\ Len(Reports) = 0
          BY <1>0, <4>2 DEF UnseenInv, NothingFolded, Reports
        <5>2. Healthy(-1) = 0
          BY CountType DEF Healthy
        <5>. QED
          BY <5>1, <5>2
      <4>. QED
        BY <1>0, <1>2, <4>1, <4>2
    <3>. HIDE DEF hw
    <3>5. Healthy(hw) = Healthy(position - 1)
      BY <3>1, <3>2, <3>3, <3>4, AllBelowMark
    <3>. QED
      BY <3>4, <3>5
  <2>. QED
    BY <2>1, <2>2
<1>6. Healthy(position - 1) + Cardinality((0 .. position - 1) \cap malformed) = position
  BY <1>1, CountSplit DEF Healthy
<1>. QED
  BY <1>1, <1>3, <1>4, <1>5, <1>6 DEF Balances

\* A line that lost nothing passes validate.sh: drained, with every feed folded
\* from its first record and no count blurred, what the simulator produced is
\* what the station consumed and what it dead-lettered.
THEOREM VerdictSoundTheorem == Spec => []VerdictSound
<1>1. Inv => VerdictSound
  BY VerdictFromInv DEF Inv
<1>. QED
  BY <1>1, Invariance, PTL
=============================================================================
