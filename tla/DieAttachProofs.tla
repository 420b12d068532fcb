--------------------------- MODULE DieAttachProofs ---------------------------
(***************************************************************************)
(* What ST-02 and the host around it keep for any number of partitions,    *)
(* logs, batches, trap limits and failures, in both builds.                *)
(***************************************************************************)
EXTENDS DieAttach, TLAPS

(***************************************************************************)
(* The fold of a `consumed` metric, for any state of it and any report.    *)
(***************************************************************************)

Folds == [hw : Int, consumed : Nat, redelivered : Nat]

\* A report's n scaled by a share of its span never exceeds that share, nor n.
LEMMA Share ==
  ASSUME NEW n \in Nat, NEW k \in Nat, NEW s \in Nat \ {0}, n <= s, k <= s
  PROVE  /\ (n * k) \div s \in Nat
         /\ (n * k) \div s <= k
         /\ (n * k) \div s <= n
<1>. DEFINE q == (n * k) \div s
<1>1. q \in Int /\ s * q <= n * k /\ n * k < s * (q + 1)
  OBVIOUS
<1>2. n * k <= s * k /\ n * k <= n * s /\ 0 <= n * k
  OBVIOUS
<1>. HIDE DEF q
<1>3. q <= k
  BY <1>1, <1>2
<1>4. q <= n
  BY <1>1, <1>2
<1>5. q >= 0
  BY <1>1, <1>2
<1>. QED
  BY <1>1, <1>3, <1>4, <1>5 DEF q

\* The whole of it is the share itself.
LEMMA WholeShare ==
  ASSUME NEW k \in Nat, NEW s \in Nat \ {0}
  PROVE  (s * k) \div s = k
OBVIOUS

\* No report of at most as many records as its range holds lets the count run
\* ahead of the high-water mark, however ranges overlap.
LEMMA FoldNeverAhead ==
  ASSUME NEW d \in Folds, NEW n \in Nat, NEW first \in Nat, NEW last \in Nat,
         first <= last, n <= last - first + 1, d.hw >= -1, d.consumed <= d.hw + 1
  PROVE  LET e == FoldConsumed(d, n, first, last) IN
           /\ e \in Folds
           /\ e.hw = Higher(d.hw, last)
           /\ e.consumed <= e.hw + 1
           /\ e.consumed >= d.consumed /\ e.redelivered >= d.redelivered
<1>. DEFINE span    == Positive(last - first + 1)
            newSpan == Positive(last - Higher(first, d.hw + 1) + 1)
            fresh   == (n * newSpan) \div span
<1>1. span \in Nat \ {0} /\ newSpan \in Nat /\ n <= span /\ newSpan <= span
  BY DEF Positive, Higher, Folds
<1>2. fresh \in Nat /\ fresh <= newSpan /\ fresh <= n
  BY <1>1, Share
<1>3. FoldConsumed(d, n, first, last)
        = [hw |-> Higher(d.hw, last), consumed |-> d.consumed + fresh,
           redelivered |-> d.redelivered + (n - fresh)]
  BY <1>1 DEF FoldConsumed
<1>4. newSpan <= Higher(d.hw, last) - d.hw
  BY DEF Positive, Higher, Folds
<1>. HIDE DEF newSpan, fresh
<1>. QED
  BY <1>1, <1>2, <1>3, <1>4 DEF Folds, Higher

\* A report that counts all of its range adds what lies above the mark, and the
\* rest is redelivered.
LEMMA FoldWhole ==
  ASSUME NEW d \in Folds, NEW first \in Nat, NEW last \in Nat, first <= last, d.hw >= -1
  PROVE  LET fresh == Positive(last - Higher(first, d.hw + 1) + 1)
         IN  /\ FoldConsumed(d, last - first + 1, first, last)
                  = [hw |-> Higher(d.hw, last), consumed |-> d.consumed + fresh,
                     redelivered |-> d.redelivered + (last - first + 1 - fresh)]
             /\ fresh \in 0 .. last - first + 1
<1>. DEFINE n     == last - first + 1
            fresh == Positive(last - Higher(first, d.hw + 1) + 1)
<1>1. n \in Nat \ {0} /\ Positive(n) = n /\ fresh \in 0 .. n
  BY DEF Positive, Higher, Folds
<1>2. (n * fresh) \div n = fresh
  BY <1>1, WholeShare
<1>3. FoldConsumed(d, n, first, last)
        = [hw |-> Higher(d.hw, last), consumed |-> d.consumed + (n * fresh) \div n,
           redelivered |-> d.redelivered + (n - (n * fresh) \div n)]
  BY <1>1 DEF FoldConsumed
<1>. QED
  BY <1>1, <1>2, <1>3

(***************************************************************************)
(* ST-02 and its host.                                                     *)
(***************************************************************************)

\* The state of a fresh host.
LEMMA InitTypeOK == Init => TypeOK
BY DeliveryAssumption
   DEF Init, TypeOK, HostInit, HostTypeOK, Records, Offsets, NoWork, NoCall, Idle, Verdicts,
       NothingFolded

\* A partition's fold is one the lemmas on FoldConsumed are about.
LEMMA FoldedType ==
  ASSUME TypeOK, NEW p \in Partitions
  PROVE  folded[p] \in Folds /\ folded[p].hw >= -1
BY DeliveryAssumption DEF TypeOK, Folds

\* A call in hand is a batch from the position, with the loop inside it.
LEMMA CallType ==
  TypeOK /\ CallInv => \A p \in Partitions : work[p].pc # "idle" =>
    /\ ~Idle(p)
    /\ call[p].first = position[p]
    /\ position[p] \in Offsets /\ call[p].last \in Offsets
    /\ position[p] \in Nat /\ call[p].last \in Nat /\ work[p].at \in Nat
    /\ position[p] <= call[p].last
    /\ position[p] <= work[p].at /\ work[p].at <= call[p].last + 1
    /\ work[p].at <= call[p].last => work[p].at \in Offsets
    /\ <<p, position[p]>> \in Records
<1>. HAVE TypeOK /\ CallInv
<1>. TAKE p \in Partitions
<1>. HAVE work[p].pc # "idle"
<1>1. ~Idle(p)
  BY DEF TypeOK, NoWork
<1>. QED
  BY <1>1, DeliveryAssumption DEF TypeOK, HostTypeOK, CallInv, CallAt, Offsets, Records

\* What a report of the handled prefix does to a fold.
LEMMA ReportType ==
  TypeOK /\ CallInv => \A p \in Partitions : \A n \in Nat, last \in Offsets :
    /\ work[p].pc # "idle"
    /\ position[p] <= last /\ n <= last - position[p] + 1
    /\ folded[p].consumed <= folded[p].hw + 1
    => LET e == FoldConsumed(folded[p], n, call[p].first, last) IN
         /\ e \in [hw : -1 .. LogLen - 1, consumed : Nat, redelivered : Nat]
         /\ e.hw = Higher(folded[p].hw, last)
         /\ e.consumed <= e.hw + 1
         /\ e.consumed >= folded[p].consumed
<1>. SUFFICES ASSUME TypeOK, CallInv, NEW p \in Partitions, NEW n \in Nat, NEW last \in Offsets,
                     work[p].pc # "idle", position[p] <= last, n <= last - position[p] + 1,
                     folded[p].consumed <= folded[p].hw + 1
              PROVE  LET e == FoldConsumed(folded[p], n, call[p].first, last) IN
                       /\ e \in [hw : -1 .. LogLen - 1, consumed : Nat, redelivered : Nat]
                       /\ e.hw = Higher(folded[p].hw, last)
                       /\ e.consumed <= e.hw + 1
                       /\ e.consumed >= folded[p].consumed
  OBVIOUS
<1>. DEFINE e == FoldConsumed(folded[p], n, call[p].first, last)
<1>1. folded[p].hw \in -1 .. LogLen - 1 /\ folded[p] \in Folds /\ folded[p].hw >= -1
  BY DeliveryAssumption DEF TypeOK, Folds
<1>2. call[p].first = position[p]
  BY CallType
<1>3. position[p] \in Nat /\ last \in Nat /\ last \in -1 .. LogLen - 1
  BY DeliveryAssumption DEF Offsets, TypeOK, HostTypeOK
<1>4. /\ e \in Folds
      /\ e.hw = Higher(folded[p].hw, last)
      /\ e.consumed <= e.hw + 1
      /\ e.consumed >= folded[p].consumed
  <2>. DEFINE d == folded[p]
  <2>1. d \in Folds /\ d.hw >= -1 /\ d.consumed <= d.hw + 1
    BY <1>1
  <2>. HIDE DEF d
  <2>2. LET f == FoldConsumed(d, n, position[p], last) IN
          f \in Folds /\ f.hw = Higher(d.hw, last) /\ f.consumed <= f.hw + 1
          /\ f.consumed >= d.consumed
    BY <2>1, <1>3, FoldNeverAhead
  <2>. QED
    BY <2>2, <1>2 DEF d
<1>5. Higher(folded[p].hw, last) \in -1 .. LogLen - 1
  BY <1>1, <1>3 DEF Higher
<1>. HIDE DEF e
<1>6. e \in [hw : -1 .. LogLen - 1, consumed : Nat, redelivered : Nat]
  BY <1>4, <1>5 DEF Folds
<1>. QED
  BY <1>4, <1>6 DEF e

-----------------------------------------------------------------------------
(***************************************************************************)
(* Type correctness.                                                       *)
(***************************************************************************)

\* The call of a partition ends: how far it got is the position.
LEMMA EndType ==
  TypeOK => \A p \in Partitions, o \in 0 .. LogLen :
    MoveTo(p, o) /\ work' = [work EXCEPT ![p] = NoWork] =>
      /\ position' \in [Partitions -> 0 .. LogLen]
      /\ committed' \in [Partitions -> 0 .. LogLen]
      /\ call' \in [Partitions -> [first : 0 .. LogLen, last : -1 .. LogLen - 1]]
      /\ work' \in [Partitions -> [pc : {"idle", "records", "report", "answer"},
                                   at : 0 .. LogLen, verdict : Verdicts]]
      /\ \A q \in Partitions : Idle(q)' <=> work'[q] = NoWork
BY DeliveryAssumption DEF TypeOK, HostTypeOK, MoveTo, Idle, NoCall, NoWork, Verdicts

\* The host's dead letter of the head of a batch: one copy more, the head passed.
LEMMA DeadLetterType ==
  TypeOK /\ CallInv => \A p \in Partitions :
    work[p].pc # "idle" /\ DeadLetterHead(p) =>
      /\ dlq' \in [Records -> Nat]
      /\ traps' \in [Partitions -> 0 .. TrapLimit - 1]
      /\ position[p] + 1 \in 0 .. LogLen /\ MoveTo(p, position[p] + 1)
      /\ \A r \in Records : dlq'[r] = IF r = <<p, position[p]>> THEN dlq[r] + 1 ELSE dlq[r]
<1>. HAVE TypeOK /\ CallInv
<1>. TAKE p \in Partitions
<1>. HAVE work[p].pc # "idle" /\ DeadLetterHead(p)
<1>1. call[p].first = position[p] /\ position[p] \in Offsets /\ <<p, position[p]>> \in Records
  BY CallType
<1>2. position[p] + 1 \in 0 .. LogLen
  BY <1>1, DeliveryAssumption DEF Offsets
<1>3. MoveTo(p, position[p] + 1)
  BY <1>1 DEF DeadLetterHead
<1>4. traps' \in [Partitions -> 0 .. TrapLimit - 1]
  BY DeliveryAssumption DEF DeadLetterHead, TypeOK, HostTypeOK
<1>5. dlq' = [dlq EXCEPT ![<<p, position[p]>>] = @ + 1] /\ dlq \in [Records -> Nat]
  BY <1>1 DEF DeadLetterHead, TypeOK, HostTypeOK
<1>. HIDE DEF Records
<1>6. dlq' \in [Records -> Nat]
      /\ \A r \in Records : dlq'[r] = IF r = <<p, position[p]>> THEN dlq[r] + 1 ELSE dlq[r]
  BY <1>1, <1>5
<1>. QED
  BY <1>2, <1>3, <1>4, <1>6

\* A step keeps the types.
LEMMA StepTypeOK == TypeOK /\ CallInv /\ CountInv /\ [Next]_vars => TypeOK'
<1>. SUFFICES ASSUME TypeOK, CallInv, CountInv, [Next]_vars PROVE TypeOK'
  OBVIOUS
<1>. USE DeliveryAssumption
<1>0. \A p \in Partitions : work[p].pc # "idle" /\ work[p].at <= call[p].last =>
        /\ work[p].at \in Offsets /\ <<p, work[p].at>> \in Records
        /\ work[p].at + 1 \in 0 .. LogLen
  <2>1. \A p \in Partitions : work[p].pc # "idle" /\ work[p].at <= call[p].last =>
          work[p].at \in Offsets
    BY CallType
  <2>2. \A o \in Offsets : o + 1 \in 0 .. LogLen
    BY DEF Offsets
  <2>. QED
    BY <2>1, <2>2 DEF Records
<1>1. ASSUME NEW p \in Partitions, Handle(p) PROVE TypeOK'
  <2>1. PICK last \in Offsets, seen \in {-1} \cup highWater[p] :
          /\ Hand(p, last)
          /\ highWater' = [highWater EXCEPT ![p] = @ \cup {Higher(last, seen)}]
          /\ folded' = [folded EXCEPT ![p] =
                          FoldRedelivered(@, SeenAgain(seen, position[p], last))]
    BY <1>1 DEF Handle
  <2>2. seen \in -1 .. LogLen - 1 /\ last \in Int /\ position[p] \in 0 .. LogLen
    BY DEF TypeOK, HostTypeOK, Offsets
  <2>3. Higher(last, seen) \in Offsets /\ SeenAgain(seen, position[p], last) \in Nat
    BY <2>2 DEF Higher, SeenAgain, Positive, Offsets
  <2>4. folded' \in [Partitions -> [hw : -1 .. LogLen - 1, consumed : Nat, redelivered : Nat]]
    <3>. DEFINE k == SeenAgain(seen, position[p], last)
    <3>1. k \in Nat
      BY <2>3
    <3>. HIDE DEF k
    <3>2. FoldRedelivered(folded[p], k) \in [hw : -1 .. LogLen - 1, consumed : Nat, redelivered : Nat]
      BY <3>1 DEF FoldRedelivered, TypeOK
    <3>. QED
      BY <2>1, <3>2 DEF TypeOK, k
  <2>5. highWater' \in [Partitions -> SUBSET Offsets]
    BY <2>1, <2>3 DEF TypeOK
  <2>6. HostTypeOK'
    BY <1>1, <2>1 DEF Handle, Hand, HostTypeOK, TypeOK, Offsets
  <2>7. work' \in [Partitions -> [pc : {"idle", "records", "report", "answer"},
                                 at : 0 .. LogLen, verdict : Verdicts]]
    BY <1>1, <2>2 DEF Handle, TypeOK, Verdicts
  <2>8. \A q \in Partitions : Idle(q)' <=> work'[q] = NoWork
    <3>1. call'[p] # NoCall /\ work'[p] # NoWork
      BY <1>1, <2>1, <2>2 DEF Handle, Hand, NoWork, NoCall, TypeOK, HostTypeOK
    <3>. QED
      BY <1>1, <2>1, <3>1 DEF Handle, Hand, TypeOK, HostTypeOK, Idle
  <2>. QED
    BY <1>1, <2>4, <2>5, <2>6, <2>7, <2>8 DEF Handle, TypeOK
<1>2. ASSUME NEW p \in Partitions, PassRecord(p) \/ FlagRecord(p) PROVE TypeOK'
  <2>1. work[p].pc = "records" /\ work[p].at + 1 \in 0 .. LogLen /\ <<p, work[p].at>> \in Records
    BY <1>0, <1>2 DEF PassRecord, FlagRecord, More, InLoop
  <2>2. work' = [work EXCEPT ![p].at = @ + 1]
    BY <1>2 DEF PassRecord, FlagRecord
  <2>3. /\ work' \in [Partitions -> [pc : {"idle", "records", "report", "answer"},
                                    at : 0 .. LogLen, verdict : Verdicts]]
        /\ \A q \in Partitions : work'[q] = NoWork <=> work[q] = NoWork
    BY <2>1, <2>2 DEF TypeOK, NoWork
  <2>4. flagged' \in [Records -> Nat]
    <3>1. \/ flagged' = flagged
          \/ flagged' = [flagged EXCEPT ![<<p, work[p].at>>] = @ + 1]
      BY <1>2 DEF PassRecord, FlagRecord
    <3>2. flagged \in [Records -> Nat]
      BY DEF TypeOK
    <3>. QED
      BY <2>1, <3>1, <3>2
  <2>. QED
    BY <1>2, <2>3, <2>4 DEF PassRecord, FlagRecord, TypeOK, HostTypeOK, host, Idle
<1>3. ASSUME NEW p \in Partitions, StopAtMalformed(p) \/ LoopDone(p) PROVE TypeOK'
  <2>1. work[p].pc = "records"
    BY <1>3 DEF StopAtMalformed, LoopDone, More, InLoop
  <2>2. PICK v \in Verdicts : Report(p, v)
    BY <1>3 DEF StopAtMalformed, LoopDone, PartialAnswer, Verdicts
  <2>3. /\ work' \in [Partitions -> [pc : {"idle", "records", "report", "answer"},
                                    at : 0 .. LogLen, verdict : Verdicts]]
        /\ \A q \in Partitions : work'[q] = NoWork <=> work[q] = NoWork
    BY <2>1, <2>2 DEF TypeOK, NoWork, Report, Leave
  <2>. QED
    BY <1>3, <2>3 DEF StopAtMalformed, LoopDone, TypeOK, HostTypeOK, host, Idle
<1>4. ASSUME NEW p \in Partitions, SendReport(p) \/ ReportLost(p) PROVE TypeOK'
  <2>1. work[p].pc = "report" /\ work' = [work EXCEPT ![p].pc = "answer"]
    BY <1>4 DEF SendReport, ReportLost
  <2>2. /\ work' \in [Partitions -> [pc : {"idle", "records", "report", "answer"},
                                    at : 0 .. LogLen, verdict : Verdicts]]
        /\ \A q \in Partitions : work'[q] = NoWork <=> work[q] = NoWork
    BY <2>1 DEF TypeOK, NoWork
  <2>3. folded' \in [Partitions -> [hw : -1 .. LogLen - 1, consumed : Nat, redelivered : Nat]]
    <3>. DEFINE n == work[p].at - call[p].first
                e == FoldConsumed(folded[p], n, call[p].first, call[p].last)
    <3>1. CASE folded' = folded
      BY <3>1 DEF TypeOK
    <3>2. CASE folded' = [folded EXCEPT ![p] = e]
      <4>1. n \in Nat /\ call[p].last \in Offsets /\ position[p] <= call[p].last
            /\ n <= call[p].last - position[p] + 1
        <5>1. /\ call[p].first = position[p]
              /\ position[p] \in Nat /\ call[p].last \in Nat /\ work[p].at \in Nat
              /\ position[p] <= call[p].last /\ call[p].last \in Offsets
              /\ position[p] <= work[p].at /\ work[p].at <= call[p].last + 1
          BY <2>1, CallType
        <5>. QED
          BY <5>1, <2>1
      <4>2. folded[p].consumed <= folded[p].hw + 1
        BY DEF CountInv, Behind
      <4>. HIDE DEF n
      <4>3. e \in [hw : -1 .. LogLen - 1, consumed : Nat, redelivered : Nat]
        BY <2>1, <4>1, <4>2, ReportType
      <4>. HIDE DEF e
      <4>. QED
        BY <3>2, <4>3 DEF TypeOK
    <3>. QED
      BY <1>4, <3>1, <3>2 DEF SendReport, ReportLost, FoldReport
  <2>4. missed' \in [Partitions -> BOOLEAN]
    BY <1>4 DEF SendReport, ReportLost, Miss, TypeOK
  <2>5. faults' \in 0 .. MaxFaults
    BY <1>4 DEF SendReport, ReportLost, Fault, TypeOK, HostTypeOK
  <2>. QED
    BY <1>4, <2>2, <2>3, <2>4, <2>5 DEF SendReport, ReportLost, TypeOK, HostTypeOK, host, Idle
<1>5. ASSUME NEW p \in Partitions, FlagFails(p) PROVE TypeOK'
  <2>1. /\ work[p].pc = "records" /\ work[p].at <= call[p].last
        /\ <<p, work[p].at>> \in Records /\ work[p].at \in Offsets
    BY <1>0, <1>5 DEF FlagFails, More, InLoop
  <2>2. PICK v \in Verdicts : Leave(p, "answer", v)
    BY <1>5 DEF FlagFails, PartialAnswer, Verdicts
  <2>3. /\ work' \in [Partitions -> [pc : {"idle", "records", "report", "answer"},
                                    at : 0 .. LogLen, verdict : Verdicts]]
        /\ \A q \in Partitions : work'[q] = NoWork <=> work[q] = NoWork
    BY <2>1, <2>2 DEF TypeOK, NoWork, Leave
  <2>4. folded' \in [Partitions -> [hw : -1 .. LogLen - 1, consumed : Nat, redelivered : Nat]]
    <3>. DEFINE n == work[p].at - call[p].first
                at == work[p].at
                e == FoldConsumed(folded[p], n, call[p].first, at)
    <3>1. CASE folded' = folded
      BY <3>1 DEF TypeOK
    <3>2. CASE folded' = [folded EXCEPT ![p] = e]
      <4>1. n \in Nat /\ at \in Offsets /\ position[p] <= at /\ n <= at - position[p] + 1
        <5>1. /\ call[p].first = position[p]
              /\ position[p] \in Nat /\ call[p].last \in Nat /\ work[p].at \in Nat
              /\ position[p] <= call[p].last /\ call[p].last \in Offsets
              /\ position[p] <= work[p].at /\ work[p].at <= call[p].last + 1
          BY <2>1, CallType
        <5>. QED
          BY <5>1, <2>1
      <4>2. folded[p].consumed <= folded[p].hw + 1
        BY DEF CountInv, Behind
      <4>. HIDE DEF n, at
      <4>3. e \in [hw : -1 .. LogLen - 1, consumed : Nat, redelivered : Nat]
        BY <2>1, <4>1, <4>2, ReportType
      <4>. HIDE DEF e
      <4>. QED
        BY <3>2, <4>3 DEF TypeOK
    <3>. QED
      BY <1>5, <3>1, <3>2 DEF FlagFails, FoldReport
  <2>5. missed' \in [Partitions -> BOOLEAN] /\ faults' \in 0 .. MaxFaults
    BY <1>5 DEF FlagFails, Fault, Miss, TypeOK, HostTypeOK
  <2>6. flagged' \in [Records -> Nat]
    <3>1. flagged' \in {flagged, [flagged EXCEPT ![<<p, work[p].at>>] = @ + 1]}
      BY <1>5 DEF FlagFails
    <3>2. flagged \in [Records -> Nat]
      BY DEF TypeOK
    <3>. QED
      BY <2>1, <3>1, <3>2
  <2>. QED
    BY <1>5, <2>3, <2>4, <2>5, <2>6 DEF FlagFails, TypeOK, HostTypeOK, host, Idle
<1>6. ASSUME NEW p \in Partitions, Answer(p) PROVE TypeOK'
  <2>1. work[p].pc = "answer" /\ work' = [work EXCEPT ![p] = NoWork]
        /\ UNCHANGED <<log, highWater, flagged, folded, naive, missed, faults>>
    BY <1>6 DEF Answer
  <2>2. /\ call[p].first \in 0 .. LogLen /\ call[p].last + 1 \in 0 .. LogLen
        /\ work[p].at - 1 + 1 \in 0 .. LogLen
    BY DEF TypeOK, HostTypeOK
  <2>3. \/ \E o \in 0 .. LogLen : MoveTo(p, o) /\ dlq' = dlq
                                  /\ traps' \in {traps, [traps EXCEPT ![p] = 0]}
        \/ DeadLetterHead(p)
    BY <1>6, <2>2 DEF Answer, Answered
  <2>4. CASE DeadLetterHead(p)
    BY <2>1, <2>4, EndType, DeadLetterType DEF TypeOK, HostTypeOK
  <2>5. CASE \E o \in 0 .. LogLen : MoveTo(p, o) /\ dlq' = dlq
                                  /\ traps' \in {traps, [traps EXCEPT ![p] = 0]}
    <3>1. traps' \in [Partitions -> 0 .. TrapLimit - 1]
      <4>1. traps \in [Partitions -> 0 .. TrapLimit - 1] /\ 0 \in 0 .. TrapLimit - 1
        BY DEF TypeOK, HostTypeOK
      <4>. QED
        BY <2>5, <4>1
    <3>. QED
      BY <2>1, <2>5, <3>1, EndType DEF TypeOK, HostTypeOK
  <2>. QED
    BY <2>3, <2>4, <2>5
<1>7. ASSUME NEW p \in Partitions, NaivePanic(p) \/ Trap(p) PROVE TypeOK'
  <2>1. /\ work[p].pc # "idle" /\ Trapped(p) /\ work' = [work EXCEPT ![p] = NoWork]
        /\ UNCHANGED <<log, highWater, flagged, folded, naive, missed>>
        /\ faults' \in 0 .. MaxFaults
    <3>1. work[p] # NoWork => work[p].pc # "idle"
      BY DEF CallInv, CallAt, TypeOK
    <3>. QED
      BY <1>7, <3>1 DEF NaivePanic, Trap, Panic, More, InLoop, Fault, TypeOK, HostTypeOK
  <2>2. call[p].first \in 0 .. LogLen
    BY DEF TypeOK, HostTypeOK
  <2>3. CASE DeadLetterHead(p)
    BY <2>1, <2>3, EndType, DeadLetterType DEF TypeOK, HostTypeOK
  <2>4. CASE /\ traps[p] + 1 # TrapLimit
             /\ traps' = [traps EXCEPT ![p] = @ + 1]
             /\ MoveTo(p, call[p].first)
             /\ UNCHANGED dlq
    <3>1. traps' \in [Partitions -> 0 .. TrapLimit - 1]
      <4>1. /\ traps \in [Partitions -> 0 .. TrapLimit - 1]
            /\ traps[p] \in 0 .. TrapLimit - 1
        BY DEF TypeOK, HostTypeOK
      <4>2. traps[p] + 1 \in 0 .. TrapLimit - 1
        BY <2>4, <4>1
      <4>. QED
        BY <2>4, <4>1, <4>2
    <3>. QED
      BY <2>1, <2>2, <2>4, <3>1, EndType DEF TypeOK, HostTypeOK
  <2>. QED
    BY <2>1, <2>3, <2>4 DEF Trapped
<1>8. ASSUME NEW p \in Partitions, Commit(p) PROVE TypeOK'
  BY <1>8 DEF Commit, CommitPosition, TypeOK, HostTypeOK, Idle
<1>9. CASE Restart
  <2>1. \A q \in Partitions : Idle(q)' /\ work'[q] = NoWork
    BY <1>9 DEF Restart, HostRestarts, Idle
  <2>2. HostTypeOK'
    BY <1>9 DEF Restart, HostRestarts, HostTypeOK, TypeOK, NoCall, Fault
  <2>3. work' \in [Partitions -> [pc : {"idle", "records", "report", "answer"},
                                 at : 0 .. LogLen, verdict : Verdicts]]
    BY <1>9 DEF Restart, NoWork, Verdicts
  <2>. QED
    BY <1>9, <2>1, <2>2, <2>3 DEF Restart, TypeOK
<1>10. CASE UNCHANGED vars
  BY <1>10 DEF vars, host, TypeOK, HostTypeOK, Idle
<1>. QED
  BY <1>1, <1>2, <1>3, <1>4, <1>5, <1>6, <1>7, <1>8, <1>9, <1>10 DEF Next, Handler

\* A step of one partition leaves the others alone.
LEMMA Frame ==
  TypeOK => \A p \in Partitions :
    Handler(p) \/ FlagFails(p) \/ ReportLost(p) \/ Trap(p) =>
      /\ \A q \in Partitions \ {p} :
           /\ position'[q] = position[q] /\ committed'[q] = committed[q]
           /\ call'[q] = call[q] /\ traps'[q] = traps[q]
           /\ work'[q] = work[q] /\ highWater'[q] = highWater[q]
           /\ folded'[q] = folded[q] /\ missed'[q] = missed[q]
           /\ \A o \in Offsets : /\ flagged'[<<q, o>>] = flagged[<<q, o>>]
                                /\ dlq'[<<q, o>>] = dlq[<<q, o>>]
      /\ log' = log /\ naive' = naive /\ faults' \in {faults, faults + 1}
<1>. HAVE TypeOK
<1>. TAKE p \in Partitions
<1>. HAVE Handler(p) \/ FlagFails(p) \/ ReportLost(p) \/ Trap(p)
<1>. DEFINE OneOf(f, g) == g = f \/ \E x : g = [f EXCEPT ![p] = x]
<1>1. OneOf(position, position') /\ OneOf(committed, committed') /\ OneOf(call, call')
      /\ OneOf(traps, traps') /\ OneOf(work, work')
  BY DEF Handler, Handle, PassRecord, FlagRecord, StopAtMalformed, LoopDone, SendReport, Answer,
         NaivePanic, Commit, FlagFails, ReportLost, Trap, Panic, Report, Leave, Hand, Answered,
         Trapped, DeadLetterHead, MoveTo, CommitPosition, host
<1>2. OneOf(highWater, highWater') /\ OneOf(folded, folded') /\ OneOf(missed, missed')
  BY DEF Handler, Handle, PassRecord, FlagRecord, StopAtMalformed, LoopDone, SendReport, Answer,
         NaivePanic, Commit, FlagFails, ReportLost, Trap, Panic, FoldReport, Miss
<1>3. \/ flagged' = flagged
      \/ \E x : flagged' = [flagged EXCEPT ![<<p, work[p].at>>] = x]
  BY DEF Handler, Handle, PassRecord, FlagRecord, StopAtMalformed, LoopDone, SendReport, Answer,
         NaivePanic, Commit, FlagFails, ReportLost, Trap, Panic
<1>4. \/ dlq' = dlq
      \/ \E x : dlq' = [dlq EXCEPT ![<<p, call[p].first>>] = x]
  BY DEF Handler, Handle, PassRecord, FlagRecord, StopAtMalformed, LoopDone, SendReport, Answer,
         NaivePanic, Commit, FlagFails, ReportLost, Trap, Panic, Hand, Answered,
         Trapped, DeadLetterHead, CommitPosition, host
<1>5. log' = log /\ naive' = naive /\ faults' \in {faults, faults + 1}
  BY DEF Handler, Handle, PassRecord, FlagRecord, StopAtMalformed, LoopDone, SendReport, Answer,
         NaivePanic, Commit, FlagFails, ReportLost, Trap, Panic, Fault
<1>6. \A q \in Partitions \ {p}, o \in Offsets :
        flagged'[<<q, o>>] = flagged[<<q, o>>] /\ dlq'[<<q, o>>] = dlq[<<q, o>>]
  <2>1. \A q \in Partitions \ {p}, o \in Offsets :
          <<q, o>> \in Records /\ \A k : <<q, o>> # <<p, k>>
    BY DEF Records
  <2>2. DOMAIN flagged = Records /\ DOMAIN dlq = Records
    BY DEF TypeOK, HostTypeOK
  <2>. QED
    BY <1>3, <1>4, <2>1, <2>2
<1>7. \A q \in Partitions \ {p} :
        /\ position'[q] = position[q] /\ committed'[q] = committed[q]
        /\ call'[q] = call[q] /\ traps'[q] = traps[q] /\ work'[q] = work[q]
  BY <1>1 DEF TypeOK, HostTypeOK
<1>8. \A q \in Partitions \ {p} :
        highWater'[q] = highWater[q] /\ folded'[q] = folded[q] /\ missed'[q] = missed[q]
  BY <1>2 DEF TypeOK, HostTypeOK
<1>. QED
  BY <1>5, <1>6, <1>7, <1>8

-----------------------------------------------------------------------------
(***************************************************************************)
(* What each action does to the partition it is of.                        *)
(***************************************************************************)

\* Everything about p is as it was, but for the work and what the list below
\* says of an action.
SameHost(p) ==
  /\ position'[p] = position[p] /\ committed'[p] = committed[p]
  /\ call'[p] = call[p] /\ traps'[p] = traps[p] /\ dlq' = dlq

\* A handler call begins: the batch is fixed and what was seen before reported.
LEMMA HandleEffect ==
  TypeOK => \A p \in Partitions : Handle(p) =>
    \E last \in Offsets, seen \in {-1} \cup highWater[p] :
      /\ Idle(p) /\ position[p] <= last /\ (traps[p] > 0 => last = position[p])
      /\ call'[p].first = position[p] /\ call'[p].last = last /\ ~Idle(p)'
      /\ position'[p] = position[p] /\ committed'[p] = committed[p]
      /\ traps'[p] = traps[p] /\ dlq' = dlq /\ flagged' = flagged
      /\ missed' = missed /\ faults' = faults
      /\ work'[p].pc = "records" /\ work'[p].at = position[p] /\ work'[p].verdict = "all"
      /\ highWater'[p] = highWater[p] \cup {Higher(last, seen)}
      /\ folded'[p] = FoldRedelivered(folded[p], SeenAgain(seen, position[p], last))
<1>. HAVE TypeOK
<1>. TAKE p \in Partitions
<1>. HAVE Handle(p)
<1>1. PICK last \in Offsets, seen \in {-1} \cup highWater[p] :
        /\ Hand(p, last)
        /\ work' = [work EXCEPT ![p] = [pc |-> "records", at |-> position[p], verdict |-> "all"]]
        /\ highWater' = [highWater EXCEPT ![p] = @ \cup {Higher(last, seen)}]
        /\ folded' = [folded EXCEPT ![p] =
                        FoldRedelivered(@, SeenAgain(seen, position[p], last))]
        /\ UNCHANGED <<log, flagged, naive, missed, faults>>
  BY DEF Handle
<1>2. position[p] \in Nat /\ last \in Nat
  BY DeliveryAssumption DEF TypeOK, HostTypeOK, Offsets
<1>3. /\ Idle(p) /\ position[p] <= last /\ (traps[p] > 0 => last = position[p])
      /\ call'[p] = [first |-> position[p], last |-> last]
      /\ position' = position /\ committed' = committed /\ traps' = traps /\ dlq' = dlq
  BY <1>1, <1>2 DEF Hand, TypeOK, HostTypeOK
<1>4. ~Idle(p)'
  BY <1>2, <1>3 DEF Idle, NoCall
<1>5. work'[p] = [pc |-> "records", at |-> position[p], verdict |-> "all"]
  BY <1>1 DEF TypeOK
<1>6. highWater'[p] = highWater[p] \cup {Higher(last, seen)}
      /\ folded'[p] = FoldRedelivered(folded[p], SeenAgain(seen, position[p], last))
  BY <1>1 DEF TypeOK
<1>. QED
  BY <1>1, <1>3, <1>4, <1>5, <1>6

\* A record the loop of the handler goes over, with or without a flag.
LEMMA RecordEffect ==
  TypeOK /\ CallInv => \A p \in Partitions : PassRecord(p) \/ FlagRecord(p) =>
    /\ SameHost(p) /\ ~Idle(p) /\ ~Idle(p)' /\ <<p, work[p].at>> \in Records
    /\ work[p].pc = "records" /\ work[p].at <= call[p].last
    /\ work'[p].pc = "records" /\ work'[p].at = work[p].at + 1
    /\ work'[p].verdict = work[p].verdict
    /\ folded' = folded /\ missed' = missed /\ faults' = faults /\ highWater' = highWater
    /\ \/ log[<<p, work[p].at>>] = "in_spec" /\ flagged' = flagged
       \/ /\ log[<<p, work[p].at>>] = "out_of_spec"
          /\ \A r \in Records :
               flagged'[r] = IF r = <<p, work[p].at>> THEN flagged[r] + 1 ELSE flagged[r]
<1>. HAVE TypeOK /\ CallInv
<1>. TAKE p \in Partitions
<1>. HAVE PassRecord(p) \/ FlagRecord(p)
<1>1. work[p].pc = "records" /\ work[p].at <= call[p].last
  BY DEF PassRecord, FlagRecord, More, InLoop
<1>2. ~Idle(p) /\ <<p, work[p].at>> \in Records
  BY <1>1, CallType DEF Records
<1>3. SameHost(p) /\ ~Idle(p)'
  BY <1>2 DEF PassRecord, FlagRecord, host, SameHost, Idle
<1>4. /\ work'[p].pc = "records" /\ work'[p].at = work[p].at + 1
      /\ work'[p].verdict = work[p].verdict
  BY <1>1 DEF PassRecord, FlagRecord, TypeOK
<1>5. folded' = folded /\ missed' = missed /\ faults' = faults /\ highWater' = highWater
  BY DEF PassRecord, FlagRecord
<1>6. \/ log[<<p, work[p].at>>] = "in_spec" /\ flagged' = flagged
      \/ /\ log[<<p, work[p].at>>] = "out_of_spec"
         /\ flagged' = [flagged EXCEPT ![<<p, work[p].at>>] = @ + 1]
  BY DEF PassRecord, FlagRecord, AtKind
<1>7. DOMAIN flagged = Records
  BY DEF TypeOK
<1>. QED
  BY <1>1, <1>2, <1>3, <1>4, <1>5, <1>6, <1>7

\* The loop of the handler ends, at the end of the batch or a malformed record.
LEMMA StopEffect ==
  TypeOK /\ CallInv => \A p \in Partitions : StopAtMalformed(p) \/ LoopDone(p) =>
    /\ SameHost(p) /\ ~Idle(p) /\ ~Idle(p)'
    /\ work[p].pc = "records" /\ work'[p].pc = "report" /\ work'[p].at = work[p].at
    /\ flagged' = flagged /\ folded' = folded /\ missed' = missed /\ faults' = faults
    /\ highWater' = highWater
    /\ \/ work[p].at = call[p].last + 1 /\ work'[p].verdict = "all"
       \/ /\ work[p].at <= call[p].last /\ log[<<p, work[p].at>>] = "malformed" /\ ~naive
          /\ work'[p].verdict = IF work[p].at > position[p] THEN "through" ELSE "permanent"
<1>. HAVE TypeOK /\ CallInv
<1>. TAKE p \in Partitions
<1>. HAVE StopAtMalformed(p) \/ LoopDone(p)
<1>1. work[p].pc = "records"
  BY DEF StopAtMalformed, LoopDone, More, InLoop
<1>2. ~Idle(p) /\ call[p].first = position[p]
  BY <1>1, CallType
<1>3. SameHost(p) /\ ~Idle(p)'
  BY <1>2 DEF StopAtMalformed, LoopDone, host, SameHost, Idle
<1>4. \/ /\ work[p].at > call[p].last
         /\ Report(p, "all")
      \/ /\ work[p].at <= call[p].last /\ log[<<p, work[p].at>>] = "malformed" /\ ~naive
         /\ Report(p, IF work[p].at > position[p] THEN "through" ELSE "permanent")
  BY <1>2 DEF StopAtMalformed, LoopDone, More, AtKind, PartialAnswer
<1>5. \A v \in Verdicts : Report(p, v) =>
        work'[p].pc = "report" /\ work'[p].at = work[p].at /\ work'[p].verdict = v
  BY DEF Report, Leave, TypeOK
<1>6. work[p].at > call[p].last => work[p].at = call[p].last + 1
  <2>1. call[p].last \in Nat /\ position[p] <= work[p].at /\ work[p].at <= call[p].last + 1 /\ work[p].at \in Nat /\ position[p] \in Nat
    BY <1>1, CallType
  <2>. QED
    BY <2>1
<1>. QED
  BY <1>1, <1>2, <1>3, <1>4, <1>5, <1>6 DEF StopAtMalformed, LoopDone, Verdicts

\* The `consumed` report of a call, folded or lost.
LEMMA ReportEffect ==
  TypeOK /\ CallInv => \A p \in Partitions : SendReport(p) \/ ReportLost(p) =>
    /\ SameHost(p) /\ ~Idle(p) /\ ~Idle(p)' /\ flagged' = flagged /\ highWater' = highWater
    /\ work[p].pc = "report" /\ work'[p].pc = "answer" /\ work'[p].at = work[p].at
    /\ work'[p].verdict = work[p].verdict
    /\ \/ folded' = folded /\ faults' = faults + 1 /\ missed'[p] = TRUE
       \/ /\ faults' = faults /\ missed' = missed
          /\ folded'[p] = IF work[p].at > position[p]
                          THEN FoldConsumed(folded[p], work[p].at - position[p],
                                            position[p], call[p].last)
                          ELSE folded[p]
<1>. HAVE TypeOK /\ CallInv
<1>. TAKE p \in Partitions
<1>. HAVE SendReport(p) \/ ReportLost(p)
<1>1. work[p].pc = "report" /\ work' = [work EXCEPT ![p].pc = "answer"]
  BY DEF SendReport, ReportLost
<1>2. ~Idle(p) /\ call[p].first = position[p]
  BY <1>1, CallType
<1>3. SameHost(p) /\ ~Idle(p)'
  BY <1>2 DEF SendReport, ReportLost, host, SameHost, Idle
<1>4. work'[p].pc = "answer" /\ work'[p].at = work[p].at /\ work'[p].verdict = work[p].verdict
  BY <1>1 DEF TypeOK
<1>5. CASE ReportLost(p)
  BY <1>1, <1>2, <1>3, <1>4, <1>5 DEF ReportLost, Fault, Miss, TypeOK
<1>6. CASE SendReport(p)
  <2>1. folded'[p] = IF work[p].at > position[p]
                     THEN FoldConsumed(folded[p], work[p].at - position[p],
                                       position[p], call[p].last)
                     ELSE folded[p]
    BY <1>2, <1>6 DEF SendReport, FoldReport, TypeOK
  <2>. QED
    BY <1>1, <1>2, <1>3, <1>4, <1>6, <2>1 DEF SendReport
<1>. QED
  BY <1>5, <1>6

\* A flag that fails: the answer keeps the records before it, if any.
LEMMA FlagFailsEffect ==
  TypeOK /\ CallInv => \A p \in Partitions : FlagFails(p) =>
    /\ SameHost(p) /\ ~Idle(p) /\ ~Idle(p)' /\ highWater' = highWater
    /\ work[p].pc = "records" /\ work'[p].pc = "answer" /\ work'[p].at = work[p].at
    /\ work[p].at <= call[p].last /\ <<p, work[p].at>> \in Records
    /\ work'[p].verdict = IF work[p].at > position[p] THEN "through" ELSE "transient"
    /\ faults' = faults + 1 /\ missed'[p] = TRUE
    /\ \/ folded' = folded
       \/ folded'[p] = FoldConsumed(folded[p], work[p].at - position[p], position[p], work[p].at)
    /\ \A r \in Records : flagged'[r] \in {flagged[r], flagged[r] + 1}
<1>. HAVE TypeOK /\ CallInv
<1>. TAKE p \in Partitions
<1>. HAVE FlagFails(p)
<1>1. work[p].pc = "records" /\ work[p].at <= call[p].last
  BY DEF FlagFails, More, InLoop
<1>2. ~Idle(p) /\ call[p].first = position[p] /\ <<p, work[p].at>> \in Records
  BY <1>1, CallType DEF Records
<1>3. SameHost(p) /\ ~Idle(p)'
  BY <1>2 DEF FlagFails, host, SameHost, Idle
<1>4. /\ work'[p].pc = "answer" /\ work'[p].at = work[p].at
      /\ work'[p].verdict = IF work[p].at > position[p] THEN "through" ELSE "transient"
  BY <1>2 DEF FlagFails, Leave, PartialAnswer, TypeOK
<1>5. faults' = faults + 1 /\ missed'[p] = TRUE /\ highWater' = highWater
  BY DEF FlagFails, Fault, Miss, TypeOK
<1>6. \/ folded' = folded
      \/ folded'[p] = FoldConsumed(folded[p], work[p].at - position[p], position[p], work[p].at)
  BY <1>2 DEF FlagFails, FoldReport, TypeOK
<1>7. flagged' \in {flagged, [flagged EXCEPT ![<<p, work[p].at>>] = @ + 1]} /\ DOMAIN flagged = Records
  BY DEF FlagFails, TypeOK
<1>8. \A r \in Records : flagged'[r] \in {flagged[r], flagged[r] + 1}
  BY <1>2, <1>7
<1>. QED
  BY <1>1, <1>2, <1>3, <1>4, <1>5, <1>6, <1>8

\* The handler's locals are gone.
EndedAt(p) == work'[p].pc = "idle" /\ work'[p].at = 0 /\ work'[p].verdict = "all"

\* A dead letter of the head of p's batch.
HeadDead(p) ==
  /\ position'[p] = position[p] + 1 /\ traps'[p] = 0
  /\ <<p, position[p]>> \in Records
  /\ \A r \in Records : dlq'[r] = IF r = <<p, position[p]>> THEN dlq[r] + 1 ELSE dlq[r]

\* The verdict of a call and what the host makes of it.
LEMMA AnswerEffect ==
  TypeOK /\ CallInv => \A p \in Partitions : Answer(p) =>
    /\ work[p].pc = "answer" /\ ~Idle(p) /\ Idle(p)' /\ EndedAt(p)
    /\ committed'[p] = committed[p] /\ UNCHANGED <<flagged, folded, missed, faults, highWater>>
    /\ \/ work[p].verdict = "permanent" /\ HeadDead(p)
       \/ /\ dlq' = dlq
          /\ \/ work[p].verdict = "all" /\ position'[p] = call[p].last + 1 /\ traps'[p] = 0
             \/ work[p].verdict = "through" /\ position'[p] = work[p].at /\ traps'[p] = 0
             \/ /\ work[p].verdict = "transient" /\ position'[p] = position[p]
                /\ traps'[p] = traps[p]
<1>. HAVE TypeOK /\ CallInv
<1>. TAKE p \in Partitions
<1>. HAVE Answer(p)
<1>1. /\ work[p].pc = "answer" /\ work' = [work EXCEPT ![p] = NoWork]
      /\ UNCHANGED <<flagged, folded, missed, faults, highWater>>
  BY DEF Answer
<1>2. /\ ~Idle(p) /\ call[p].first = position[p] /\ <<p, position[p]>> \in Records
      /\ work[p].at \in Nat /\ position[p] \in Nat
  BY <1>1, CallType
<1>3. \A o : MoveTo(p, o) =>
        position'[p] = o /\ Idle(p)' /\ committed'[p] = committed[p]
  BY DEF MoveTo, Idle, TypeOK, HostTypeOK
<1>4. EndedAt(p)
  BY <1>1 DEF TypeOK, NoWork, EndedAt
<1>5. CASE work[p].verdict = "permanent" /\ DeadLetterHead(p)
  <2>1. MoveTo(p, position[p] + 1) /\ traps'[p] = 0
    BY <1>2, <1>5 DEF DeadLetterHead, TypeOK, HostTypeOK
  <2>. QED
    BY <1>1, <1>2, <1>3, <1>4, <1>5, <2>1, DeadLetterType DEF HeadDead
<1>6. CASE work[p].verdict = "all" /\ MoveTo(p, call[p].last + 1)
           /\ traps' = [traps EXCEPT ![p] = 0] /\ UNCHANGED dlq
  <2>1. traps'[p] = 0
    BY <1>6 DEF TypeOK, HostTypeOK
  <2>. QED
    BY <1>1, <1>2, <1>3, <1>4, <1>6, <2>1
<1>7. CASE work[p].verdict = "through" /\ MoveTo(p, work[p].at - 1 + 1)
           /\ traps' = [traps EXCEPT ![p] = 0] /\ UNCHANGED dlq
  <2>1. traps'[p] = 0 /\ work[p].at - 1 + 1 = work[p].at
    BY <1>2, <1>7 DEF TypeOK, HostTypeOK
  <2>. QED
    BY <1>1, <1>2, <1>3, <1>4, <1>7, <2>1
<1>8. CASE work[p].verdict = "transient" /\ MoveTo(p, call[p].first)
           /\ UNCHANGED <<traps, dlq>>
  BY <1>1, <1>2, <1>3, <1>4, <1>8
<1>. QED
  BY <1>5, <1>6, <1>7, <1>8 DEF Answer, Answered

\* A call that ends without a verdict counts against the head of its batch.
LEMMA PanicEffect ==
  TypeOK /\ CallInv => \A p \in Partitions : NaivePanic(p) \/ Trap(p) =>
    /\ work[p].pc # "idle" /\ ~Idle(p) /\ Idle(p)' /\ EndedAt(p)
    /\ committed'[p] = committed[p] /\ UNCHANGED <<flagged, folded, missed, highWater>>
    /\ \/ traps[p] + 1 = TrapLimit /\ HeadDead(p)
       \/ /\ dlq' = dlq /\ position'[p] = position[p]
          /\ traps'[p] = traps[p] + 1
    /\ \/ faults' = faults + 1
       \/ /\ faults' = faults /\ naive /\ work[p].at <= call[p].last
          /\ log[<<p, work[p].at>>] = "malformed"
<1>. HAVE TypeOK /\ CallInv
<1>. TAKE p \in Partitions
<1>. HAVE NaivePanic(p) \/ Trap(p)
<1>1. /\ work' = [work EXCEPT ![p] = NoWork] /\ Trapped(p)
      /\ UNCHANGED <<flagged, folded, missed, highWater>>
  BY DEF NaivePanic, Trap, Panic
<1>2. work[p].pc # "idle"
  <2>1. work[p] # NoWork => work[p].pc # "idle"
    BY DEF CallInv, CallAt, TypeOK
  <2>. QED
    BY <2>1 DEF NaivePanic, Trap, More, InLoop
<1>3. ~Idle(p) /\ call[p].first = position[p] /\ <<p, position[p]>> \in Records
  BY <1>2, CallType
<1>4. \A o : MoveTo(p, o) =>
        position'[p] = o /\ Idle(p)' /\ committed'[p] = committed[p]
  BY DEF MoveTo, Idle, TypeOK, HostTypeOK
<1>5. EndedAt(p)
  BY <1>1 DEF TypeOK, NoWork, EndedAt
<1>6. \/ faults' = faults + 1
      \/ /\ faults' = faults /\ naive /\ work[p].at <= call[p].last
         /\ log[<<p, work[p].at>>] = "malformed"
  BY DEF NaivePanic, Trap, More, AtKind, Fault
<1>7. CASE traps[p] + 1 = TrapLimit /\ DeadLetterHead(p)
  <2>1. MoveTo(p, position[p] + 1) /\ traps'[p] = 0
    BY <1>3, <1>7 DEF DeadLetterHead, TypeOK, HostTypeOK
  <2>. QED
    BY <1>1, <1>2, <1>3, <1>4, <1>5, <1>6, <1>7, <2>1, DeadLetterType DEF HeadDead
<1>8. CASE traps' = [traps EXCEPT ![p] = @ + 1] /\ MoveTo(p, call[p].first) /\ UNCHANGED dlq
  <2>1. traps'[p] = traps[p] + 1
    BY <1>8 DEF TypeOK, HostTypeOK
  <2>. QED
    BY <1>1, <1>2, <1>3, <1>4, <1>5, <1>6, <1>8, <2>1
<1>. QED
  BY <1>1, <1>7, <1>8 DEF Trapped

-----------------------------------------------------------------------------
(***************************************************************************)
(* What a call has done at each point of the handler.                      *)
(***************************************************************************)

\* A step keeps each call consistent with the position it started at.
LEMMA StepCallInv == TypeOK /\ TypeOK' /\ CallInv /\ [Next]_vars => CallInv'
<1>. SUFFICES ASSUME TypeOK, TypeOK', CallInv, [Next]_vars PROVE CallInv'
  OBVIOUS
<1>0. ASSUME NEW p \in Partitions,
             Handler(p) \/ FlagFails(p) \/ ReportLost(p) \/ Trap(p), CallAt(p)'
      PROVE  CallInv'
  <2>. SUFFICES ASSUME NEW q \in Partitions, q # p PROVE CallAt(q)'
    BY <1>0 DEF CallInv
  <2>1. CallAt(q)
    BY DEF CallInv
  <2>2. /\ position'[q] = position[q] /\ committed'[q] = committed[q]
        /\ call'[q] = call[q] /\ traps'[q] = traps[q] /\ work'[q] = work[q] /\ log' = log
    BY <1>0, Frame
  <2>. QED
    BY <2>1, <2>2 DEF CallAt, Idle
<1>. USE DEF CallAt, SameHost, EndedAt
<1>a. \A p \in Partitions : CallAt(p) /\ position[p] \in Nat /\ committed[p] \in Nat
  BY DeliveryAssumption DEF CallInv, TypeOK, HostTypeOK
<1>b. \A p \in Partitions : work[p].pc # "idle" =>
        /\ position[p] \in Nat /\ call[p].last \in Nat /\ work[p].at \in Nat
        /\ call[p].first = position[p] /\ position[p] <= call[p].last
        /\ position[p] <= work[p].at /\ work[p].at <= call[p].last + 1
  BY CallType
<1>1. ASSUME NEW p \in Partitions, Handle(p) PROVE CallAt(p)'
  <2>0. CallAt(p) /\ position[p] \in Nat /\ committed[p] \in Nat
    BY <1>a
  <2>1. PICK last \in Offsets :
          /\ position[p] <= last /\ (traps[p] > 0 => last = position[p])
          /\ call'[p].first = position[p] /\ call'[p].last = last /\ ~Idle(p)'
          /\ position'[p] = position[p] /\ committed'[p] = committed[p] /\ traps'[p] = traps[p]
          /\ work'[p].pc = "records" /\ work'[p].at = position[p]
    BY <1>1, HandleEffect
  <2>2. last \in Nat
    BY DeliveryAssumption DEF Offsets
  <2>. QED
    BY <2>0, <2>1, <2>2
<1>2. ASSUME NEW p \in Partitions, PassRecord(p) \/ FlagRecord(p) PROVE CallAt(p)'
  <2>0. /\ CallAt(p) /\ committed[p] \in Nat
        /\ position[p] \in Nat /\ call[p].last \in Nat /\ work[p].at \in Nat
        /\ call[p].first = position[p] /\ position[p] <= call[p].last
        /\ position[p] <= work[p].at /\ work[p].at <= call[p].last + 1
    BY <1>a, <1>b, <1>2, RecordEffect
  <2>1. /\ SameHost(p) /\ ~Idle(p) /\ ~Idle(p)'
        /\ work[p].pc = "records" /\ work[p].at <= call[p].last
        /\ work'[p].pc = "records" /\ work'[p].at = work[p].at + 1
    BY <1>2, RecordEffect
  <2>. QED
    BY <2>0, <2>1
<1>3. ASSUME NEW p \in Partitions, StopAtMalformed(p) \/ LoopDone(p) PROVE CallAt(p)'
  <2>0. /\ CallAt(p) /\ committed[p] \in Nat
        /\ position[p] \in Nat /\ call[p].last \in Nat /\ work[p].at \in Nat
        /\ call[p].first = position[p] /\ position[p] <= call[p].last
        /\ position[p] <= work[p].at /\ work[p].at <= call[p].last + 1
    BY <1>a, <1>b, <1>3, StopEffect
  <2>1. log' = log
    BY <1>3 DEF StopAtMalformed, LoopDone
  <2>2. /\ SameHost(p) /\ ~Idle(p) /\ ~Idle(p)'
        /\ work[p].pc = "records" /\ work'[p].pc = "report" /\ work'[p].at = work[p].at
        /\ \/ work[p].at = call[p].last + 1 /\ work'[p].verdict = "all"
           \/ /\ work[p].at <= call[p].last /\ log[<<p, work[p].at>>] = "malformed"
              /\ work'[p].verdict = IF work[p].at > position[p] THEN "through" ELSE "permanent"
    BY <1>3, StopEffect
  <2>. QED
    BY <2>0, <2>1, <2>2
<1>5. ASSUME NEW p \in Partitions, SendReport(p) \/ ReportLost(p) PROVE CallAt(p)'
  <2>0. /\ CallAt(p) /\ committed[p] \in Nat
        /\ position[p] \in Nat /\ call[p].last \in Nat /\ work[p].at \in Nat
        /\ call[p].first = position[p] /\ position[p] <= call[p].last
        /\ position[p] <= work[p].at /\ work[p].at <= call[p].last + 1
    BY <1>a, <1>b, <1>5, ReportEffect
  <2>1. log' = log
    BY <1>5 DEF SendReport, ReportLost
  <2>2. /\ SameHost(p) /\ ~Idle(p) /\ ~Idle(p)'
        /\ work[p].pc = "report" /\ work'[p].pc = "answer" /\ work'[p].at = work[p].at
        /\ work'[p].verdict = work[p].verdict
    BY <1>5, ReportEffect
  <2>. QED
    BY <2>0, <2>1, <2>2
<1>6. ASSUME NEW p \in Partitions, FlagFails(p) PROVE CallAt(p)'
  <2>0. /\ CallAt(p) /\ committed[p] \in Nat
        /\ position[p] \in Nat /\ call[p].last \in Nat /\ work[p].at \in Nat
        /\ call[p].first = position[p] /\ position[p] <= call[p].last
        /\ position[p] <= work[p].at /\ work[p].at <= call[p].last + 1
    BY <1>a, <1>b, <1>6, FlagFailsEffect
  <2>1. /\ SameHost(p) /\ ~Idle(p) /\ ~Idle(p)'
        /\ work[p].pc = "records" /\ work'[p].pc = "answer" /\ work'[p].at = work[p].at
        /\ work'[p].verdict = IF work[p].at > position[p] THEN "through" ELSE "transient"
    BY <1>6, FlagFailsEffect
  <2>. QED
    BY <2>0, <2>1
<1>7. ASSUME NEW p \in Partitions, Answer(p) PROVE CallAt(p)'
  <2>0. /\ CallAt(p) /\ committed[p] \in Nat
        /\ position[p] \in Nat /\ call[p].last \in Nat /\ work[p].at \in Nat
        /\ call[p].first = position[p] /\ position[p] <= call[p].last
        /\ position[p] <= work[p].at /\ work[p].at <= call[p].last + 1
    BY <1>a, <1>b, <1>7, AnswerEffect
  <2>1. /\ work[p].pc = "answer" /\ Idle(p)' /\ EndedAt(p)
        /\ committed'[p] = committed[p]
        /\ \/ position'[p] = position[p] \/ position'[p] = position[p] + 1
           \/ position'[p] = call[p].last + 1 \/ position'[p] = work[p].at
    BY <1>7, AnswerEffect DEF HeadDead
  <2>. QED
    BY <2>0, <2>1
<1>8. ASSUME NEW p \in Partitions, NaivePanic(p) \/ Trap(p) PROVE CallAt(p)'
  <2>0. CallAt(p) /\ position[p] \in Nat /\ committed[p] \in Nat
    BY <1>a
  <2>1. /\ Idle(p)' /\ EndedAt(p) /\ committed'[p] = committed[p]
        /\ position'[p] = position[p] \/ position'[p] = position[p] + 1
    BY <1>8, PanicEffect DEF HeadDead
  <2>. QED
    BY <2>0, <2>1
<1>9. ASSUME NEW p \in Partitions, Commit(p) PROVE CallAt(p)'
  BY <1>9 DEF Commit, CommitPosition, CallInv, CallAt, Idle, TypeOK, HostTypeOK
<1>10. CASE Restart
  BY <1>10 DEF Restart, HostRestarts, NoWork, CallInv, CallAt, Idle, TypeOK, HostTypeOK
<1>11. CASE UNCHANGED vars
  BY <1>11 DEF vars, host, CallInv, CallAt, Idle
<1>. QED
  BY <1>0, <1>1, <1>2, <1>3, <1>5, <1>6, <1>7, <1>8, <1>9, <1>10, <1>11 DEF Next, Handler

-----------------------------------------------------------------------------
(***************************************************************************)
(* Nothing is left behind.                                                 *)
(***************************************************************************)

\* Flags and dead letters are added and never taken away.
LEMMA OutputsGrow ==
  TypeOK /\ CallInv /\ [Next]_vars =>
    \A r \in Records :
      /\ flagged'[r] = flagged[r] \/ flagged'[r] = flagged[r] + 1
      /\ dlq'[r] = dlq[r] \/ dlq'[r] = dlq[r] + 1
<1>. SUFFICES ASSUME TypeOK, CallInv, [Next]_vars, NEW r \in Records
              PROVE  /\ flagged'[r] = flagged[r] \/ flagged'[r] = flagged[r] + 1
                     /\ dlq'[r] = dlq[r] \/ dlq'[r] = dlq[r] + 1
  OBVIOUS
<1>1. ASSUME NEW p \in Partitions, Handle(p) PROVE flagged' = flagged /\ dlq' = dlq
  BY <1>1 DEF Handle, Hand
<1>2. ASSUME NEW p \in Partitions, PassRecord(p) \/ FlagRecord(p)
      PROVE  dlq' = dlq /\ (flagged'[r] = flagged[r] \/ flagged'[r] = flagged[r] + 1)
  BY <1>2, RecordEffect DEF SameHost
<1>3. ASSUME NEW p \in Partitions, StopAtMalformed(p) \/ LoopDone(p) \/ SendReport(p) \/ ReportLost(p)
      PROVE  flagged' = flagged /\ dlq' = dlq
  BY <1>3 DEF StopAtMalformed, LoopDone, SendReport, ReportLost, host
<1>4. ASSUME NEW p \in Partitions, FlagFails(p)
      PROVE  dlq' = dlq /\ (flagged'[r] = flagged[r] \/ flagged'[r] = flagged[r] + 1)
  BY <1>4, FlagFailsEffect DEF SameHost
<1>5. ASSUME NEW p \in Partitions, Answer(p)
      PROVE  flagged' = flagged /\ (dlq'[r] = dlq[r] \/ dlq'[r] = dlq[r] + 1)
  BY <1>5, AnswerEffect DEF HeadDead
<1>6. ASSUME NEW p \in Partitions, NaivePanic(p) \/ Trap(p)
      PROVE  flagged' = flagged /\ (dlq'[r] = dlq[r] \/ dlq'[r] = dlq[r] + 1)
  BY <1>6, PanicEffect DEF HeadDead
<1>7. ASSUME (\E p \in Partitions : Commit(p)) \/ Restart \/ UNCHANGED vars
      PROVE  flagged' = flagged /\ dlq' = dlq
  BY <1>7 DEF Commit, CommitPosition, Restart, HostRestarts, vars, host
<1>. QED
  BY <1>1, <1>2, <1>3, <1>4, <1>5, <1>6, <1>7 DEF Next, Handler

\* What is settled stays settled.
LEMMA SettledGrows == TypeOK /\ CallInv /\ [Next]_vars => Settled \subseteq Settled'
<1>. SUFFICES ASSUME TypeOK, CallInv, [Next]_vars, NEW r \in Records, r \in Settled
              PROVE  r \in Settled'
  BY DEF Settled
<1>1. log' = log
  BY DEF Next, Handler, vars, Handle, PassRecord, FlagRecord, StopAtMalformed, LoopDone, SendReport,
         Answer, NaivePanic, Panic, Commit, FlagFails, ReportLost, Trap, Restart
<1>2. flagged[r] \in Nat /\ dlq[r] \in Nat
  BY DEF TypeOK, HostTypeOK
<1>3. /\ flagged'[r] = flagged[r] \/ flagged'[r] = flagged[r] + 1
      /\ dlq'[r] = dlq[r] \/ dlq'[r] = dlq[r] + 1
  BY OutputsGrow
<1>. QED
  BY <1>1, <1>2, <1>3 DEF Settled

\* A step keeps every handled record settled.
LEMMA StepSettledInv == TypeOK /\ CallInv /\ SettledInv /\ [Next]_vars => SettledInv'
<1>. SUFFICES ASSUME TypeOK, CallInv, SettledInv, [Next]_vars PROVE SettledInv'
  OBVIOUS
<1>g. Settled \subseteq Settled'
  BY SettledGrows
<1>a. \A p \in Partitions : position[p] \in Nat /\ committed[p] \in Nat /\ committed[p] <= position[p]
  <2>1. \A p \in Partitions : committed[p] <= position[p]
    BY DEF CallInv, CallAt
  <2>2. \A p \in Partitions : position[p] \in Nat /\ committed[p] \in Nat
    BY DeliveryAssumption DEF TypeOK, HostTypeOK
  <2>. QED
    BY <2>1, <2>2
<1>b. \A p \in Partitions : work[p].pc # "idle" =>
        /\ ~Idle(p) /\ call[p].last \in Nat /\ work[p].at \in Nat
        /\ position[p] <= work[p].at /\ work[p].at <= call[p].last + 1
  BY CallType
<1>o. \A o \in Offsets : o \in Nat
  BY DeliveryAssumption DEF Offsets
<1>0. ASSUME NEW p \in Partitions,
             Handler(p) \/ FlagFails(p) \/ ReportLost(p) \/ Trap(p),
             \A o \in Offsets : o < Handled(p)' => o < Handled(p) \/ <<p, o>> \in Settled'
      PROVE  SettledInv'
  <2>. SUFFICES ASSUME NEW q \in Partitions, NEW o \in Offsets, o < Handled(q)'
                PROVE  <<q, o>> \in Settled'
    BY DEF SettledInv
  <2>1. CASE q = p
    BY <2>1, <1>0, <1>g DEF SettledInv
  <2>2. CASE q # p
    <3>1. position'[q] = position[q] /\ call'[q] = call[q] /\ work'[q] = work[q]
      BY <1>0, <2>2, Frame
    <3>2. Handled(q)' = Handled(q)
      BY <3>1 DEF Handled, Idle
    <3>. QED
      BY <3>2, <1>g DEF SettledInv
  <2>. QED
    BY <2>1, <2>2
<1>1. ASSUME NEW p \in Partitions, Handle(p) PROVE SettledInv'
  <2>1. /\ Idle(p) /\ ~Idle(p)' /\ work'[p].at = position[p]
    BY <1>1, HandleEffect
  <2>2. Handled(p)' = Handled(p)
    BY <2>1 DEF Handled
  <2>. QED
    BY <1>0, <1>1, <2>2 DEF Handler
<1>2. ASSUME NEW p \in Partitions, PassRecord(p) \/ FlagRecord(p) PROVE SettledInv'
  <2>0. work[p].at \in Nat
    BY <1>2, <1>b, RecordEffect
  <2>1. /\ ~Idle(p) /\ ~Idle(p)' /\ work'[p].at = work[p].at + 1 /\ <<p, work[p].at>> \in Records
        /\ \/ log[<<p, work[p].at>>] = "in_spec"
           \/ /\ log[<<p, work[p].at>>] = "out_of_spec"
              /\ flagged'[<<p, work[p].at>>] = flagged[<<p, work[p].at>>] + 1
    BY <1>2, RecordEffect
  <2>2. <<p, work[p].at>> \in Settled'
    <3>1. log' = log /\ flagged[<<p, work[p].at>>] \in Nat
      BY <1>2, <2>1 DEF PassRecord, FlagRecord, TypeOK
    <3>2. flagged[<<p, work[p].at>>] + 1 > 0
      BY <3>1
    <3>. QED
      BY <2>1, <3>1, <3>2 DEF Settled
  <2>3. Handled(p)' = work[p].at + 1 /\ Handled(p) = work[p].at
    BY <2>1 DEF Handled
  <2>4. \A o \in Offsets : o < Handled(p)' => o < Handled(p) \/ o = work[p].at
    BY <2>0, <2>3, <1>o
  <2>. QED
    BY <1>0, <1>2, <2>2, <2>4 DEF Handler
<1>3. ASSUME NEW p \in Partitions, \/ StopAtMalformed(p) \/ LoopDone(p)
                                  \/ SendReport(p) \/ ReportLost(p) \/ FlagFails(p)
      PROVE SettledInv'
  <2>1. ~Idle(p) /\ ~Idle(p)' /\ work'[p].at = work[p].at
    BY <1>3, StopEffect, ReportEffect, FlagFailsEffect
  <2>2. Handled(p)' = Handled(p)
    BY <2>1 DEF Handled
  <2>. QED
    BY <1>0, <1>3, <2>2 DEF Handler
<1>4. ASSUME NEW p \in Partitions, Idle(p)', ~Idle(p), work[p].pc # "idle",
             Answer(p) \/ NaivePanic(p) \/ Trap(p),
             HeadDead(p) \/ position'[p] = position[p] \/ position'[p] = work[p].at
      PROVE  SettledInv'
  <2>0. position[p] \in Nat /\ work[p].at \in Nat /\ position[p] <= work[p].at
    BY <1>4, <1>a, <1>b
  <2>1. Handled(p)' = position'[p] /\ Handled(p) = work[p].at
    BY <1>4 DEF Handled
  <2>2. CASE HeadDead(p)
    <3>1. dlq'[<<p, position[p]>>] = dlq[<<p, position[p]>>] + 1 /\ dlq[<<p, position[p]>>] \in Nat
      BY <2>2 DEF HeadDead, TypeOK, HostTypeOK
    <3>2. dlq'[<<p, position[p]>>] > 0
      BY <3>1
    <3>3. <<p, position[p]>> \in Settled'
      BY <2>2, <3>2 DEF Settled, HeadDead
    <3>4. position'[p] = position[p] + 1
      BY <2>2 DEF HeadDead
    <3>5. \A o \in Offsets : o < position[p] + 1 => o < work[p].at \/ o = position[p]
      BY <2>0, <1>o
    <3>. QED
      BY <1>0, <1>4, <2>1, <3>3, <3>4, <3>5 DEF Handler
  <2>3. CASE position'[p] = position[p] \/ position'[p] = work[p].at
    <3>1. \A o \in Offsets : o < position'[p] => o < work[p].at
      BY <2>0, <2>3, <1>o
    <3>. QED
      BY <1>0, <1>4, <2>1, <3>1 DEF Handler
  <2>. QED
    BY <1>4, <2>2, <2>3
<1>5. ASSUME NEW p \in Partitions, Answer(p) PROVE SettledInv'
  <2>1. /\ work[p].pc = "answer" /\ ~Idle(p) /\ Idle(p)'
        /\ HeadDead(p) \/ position'[p] = position[p] \/ position'[p] = work[p].at
    <3>1. work[p].pc = "answer" /\ (work[p].verdict = "all" => work[p].at = call[p].last + 1)
      BY <1>5, AnswerEffect DEF CallInv, CallAt
    <3>. QED
      BY <1>5, <3>1, AnswerEffect
  <2>. QED
    BY <1>4, <1>5, <2>1
<1>6. ASSUME NEW p \in Partitions, NaivePanic(p) \/ Trap(p) PROVE SettledInv'
  <2>1. /\ work[p].pc # "idle" /\ ~Idle(p) /\ Idle(p)'
        /\ HeadDead(p) \/ position'[p] = position[p]
    BY <1>6, PanicEffect
  <2>. QED
    BY <1>4, <1>6, <2>1
<1>7. ASSUME NEW p \in Partitions, Commit(p) PROVE SettledInv'
  <2>1. Handled(p)' = Handled(p)
    BY <1>7 DEF Commit, CommitPosition, Handled, Idle
  <2>. QED
    BY <1>0, <1>7, <2>1 DEF Handler
<1>8. CASE Restart
  <2>. SUFFICES ASSUME NEW q \in Partitions, NEW o \in Offsets, o < Handled(q)'
                PROVE  <<q, o>> \in Settled'
    BY DEF SettledInv
  <2>1. Handled(q)' = committed[q]
    BY <1>8 DEF Restart, HostRestarts, Handled, Idle
  <2>2. committed[q] \in Nat /\ position[q] \in Nat /\ committed[q] <= position[q]
    BY <1>a
  <2>3. o < Handled(q)
    <3>1. CASE Idle(q)
      BY <2>1, <2>2, <3>1, <1>o DEF Handled
    <3>2. CASE ~Idle(q)
      <4>1. work[q].at \in Nat /\ position[q] <= work[q].at
        BY <3>2, <1>b DEF CallInv, CallAt
      <4>. QED
        BY <2>1, <2>2, <3>2, <4>1, <1>o DEF Handled
    <3>. QED
      BY <3>1, <3>2
  <2>. QED
    BY <2>3, <1>g DEF SettledInv
<1>9. CASE UNCHANGED vars
  <2>1. \A q \in Partitions : Handled(q)' = Handled(q)
    BY <1>9 DEF vars, host, Handled, Idle
  <2>. QED
    BY <2>1, <1>g DEF SettledInv
<1>. QED
  BY <1>1, <1>2, <1>3, <1>5, <1>6, <1>7, <1>8, <1>9 DEF Next, Handler

-----------------------------------------------------------------------------
(***************************************************************************)
(* Who is dead-lettered.                                                   *)
(***************************************************************************)

\* A step keeps the traps of a healthy head within the faults.
LEMMA StepHeadInv == TypeOK /\ TypeOK' /\ CallInv /\ HeadInv /\ [Next]_vars => HeadInv'
<1>. SUFFICES ASSUME TypeOK, TypeOK', CallInv, HeadInv, [Next]_vars PROVE HeadInv'
  OBVIOUS
<1>. DEFINE Dead(r)  == dlq[r] > 0 => log[r] = "malformed" \/ faults >= TrapLimit - 1
            Heads(p) == position[p] < LogLen /\ log[<<p, position[p]>>] # "malformed" =>
                          traps[p] <= faults + 1
<1>n. /\ TrapLimit \in Nat /\ faults \in Nat /\ LogLen \in Nat
      /\ \A p \in Partitions : position[p] \in Nat /\ traps[p] \in Nat
      /\ \A r \in Records : dlq[r] \in Nat
  BY DeliveryAssumption DEF TypeOK, HostTypeOK
<1>d. \A r \in Records : Dead(r)
  BY DEF HeadInv, HealthyNeverDeadLettered
<1>h. \A p \in Partitions : Heads(p)
  BY DEF HeadInv
<1>g. (\A r \in Records : Dead(r)') /\ (\A p \in Partitions : Heads(p)') => HeadInv'
  BY DEF HeadInv, HealthyNeverDeadLettered
\* More faults and as many dead letters leave a record as it was.
<1>k. log' = log /\ faults' \in {faults, faults + 1}
  <2>1. ASSUME NEW p \in Partitions, Handler(p) \/ FlagFails(p) \/ ReportLost(p) \/ Trap(p)
        PROVE  log' = log /\ faults' \in {faults, faults + 1}
    BY <2>1, Frame
  <2>2. CASE Restart
    BY <2>2 DEF Restart, Fault
  <2>3. CASE UNCHANGED vars
    BY <2>3 DEF vars
  <2>. QED
    BY <2>1, <2>2, <2>3 DEF Next
<1>z. 0 <= faults' + 1
  <2>1. faults' \in Nat
    BY DEF TypeOK, HostTypeOK
  <2>2. PICK f \in Nat : faults' = f
    BY <2>1
  <2>3. 0 <= f + 1
    OBVIOUS
  <2>. QED
    BY <2>2, <2>3
<1>m. \A r \in Records : dlq'[r] = dlq[r] => Dead(r)'
  BY <1>d, <1>k, <1>n
<1>0. ASSUME NEW p \in Partitions, Handler(p) \/ FlagFails(p) \/ ReportLost(p) \/ Trap(p),
             \A r \in Records : Dead(r)', Heads(p)'
      PROVE  HeadInv'
  <2>1. ASSUME NEW q \in Partitions, q # p PROVE Heads(q)'
    <3>1. position'[q] = position[q] /\ traps'[q] = traps[q]
      BY <1>0, <2>1, Frame
    <3>2. Heads(q) /\ traps[q] \in Nat
      BY <1>h, <1>n
    <3>. QED
      BY <3>1, <3>2, <1>k, <1>n
  <2>. QED
    BY <1>0, <1>g, <2>1
<1>. HIDE DEF Dead, Heads
<1>1. ASSUME NEW p \in Partitions,
             \/ Handle(p) \/ PassRecord(p) \/ FlagRecord(p) \/ StopAtMalformed(p) \/ LoopDone(p)
             \/ SendReport(p) \/ ReportLost(p) \/ FlagFails(p)
      PROVE  HeadInv'
  <2>1. dlq' = dlq /\ position'[p] = position[p] /\ traps'[p] = traps[p]
    BY <1>1, HandleEffect, RecordEffect, StopEffect, ReportEffect, FlagFailsEffect DEF SameHost
  <2>2. Heads(p) /\ traps[p] \in Nat
    BY <1>h, <1>n
  <2>3. Heads(p)'
    BY <2>1, <2>2, <1>k, <1>n DEF Heads
  <2>. QED
    BY <1>0, <1>1, <1>m, <2>1, <2>3 DEF Handler
<1>2. ASSUME NEW p \in Partitions, Commit(p) PROVE HeadInv'
  <2>1. dlq' = dlq /\ position'[p] = position[p] /\ traps'[p] = traps[p]
    BY <1>2 DEF Commit, CommitPosition
  <2>2. Heads(p) /\ traps[p] \in Nat
    BY <1>h, <1>n
  <2>3. Heads(p)'
    BY <2>1, <2>2, <1>k, <1>n DEF Heads
  <2>. QED
    BY <1>0, <1>2, <1>m, <2>1, <2>3 DEF Handler
<1>3. ASSUME NEW p \in Partitions, Answer(p) PROVE HeadInv'
  <2>1. CASE HeadDead(p) /\ work[p].verdict = "permanent"
    <3>1. log[<<p, position[p]>>] = "malformed"
      BY <1>3, <2>1, AnswerEffect DEF CallInv, CallAt
    <3>2. traps'[p] = 0 /\ \A r \in Records : r # <<p, position[p]>> => dlq'[r] = dlq[r]
      BY <2>1 DEF HeadDead
    <3>3. \A r \in Records : Dead(r)'
      BY <3>1, <3>2, <1>k, <1>m DEF Dead
    <3>4. Heads(p)'
      BY <3>2, <1>z DEF Heads
    <3>. QED
      BY <1>0, <1>3, <3>3, <3>4 DEF Handler
  <2>2. CASE dlq' = dlq /\ traps'[p] = 0
    <3>1. Heads(p)'
      BY <2>2, <1>z DEF Heads
    <3>. QED
      BY <1>0, <1>3, <1>m, <2>2, <3>1 DEF Handler
  <2>3. CASE dlq' = dlq /\ position'[p] = position[p] /\ traps'[p] = traps[p]
    <3>1. Heads(p) /\ traps[p] \in Nat
      BY <1>h, <1>n
    <3>2. Heads(p)'
      BY <2>3, <3>1, <1>k, <1>n DEF Heads
    <3>. QED
      BY <1>0, <1>3, <1>m, <2>3, <3>2 DEF Handler
  <2>. QED
    BY <1>3, <2>1, <2>2, <2>3, AnswerEffect
<1>4. ASSUME NEW p \in Partitions, NaivePanic(p) \/ Trap(p) PROVE HeadInv'
  <2>1. \/ faults' = faults + 1
        \/ /\ faults' = faults /\ work[p].at <= call[p].last
           /\ log[<<p, work[p].at>>] = "malformed"
    BY <1>4, PanicEffect
  <2>2. /\ work[p].pc # "idle"
        /\ \/ traps[p] + 1 = TrapLimit /\ HeadDead(p)
           \/ dlq' = dlq /\ position'[p] = position[p] /\ traps'[p] = traps[p] + 1
    BY <1>4, PanicEffect
  <2>3. position[p] \in Nat /\ traps[p] \in Nat /\ Heads(p)
    BY <1>h, <1>n
  <2>4. /\ work[p].at \in Nat /\ call[p].last \in Nat /\ position[p] <= work[p].at
        /\ position[p] \in Offsets /\ ~Idle(p)
    BY <2>2, CallType
  <2>5. traps[p] > 0 => call[p].last = position[p]
    BY <2>4 DEF CallInv, CallAt
  \* The head is healthy: the panic of a later record is the first that counts.
  <2>6. log[<<p, position[p]>>] # "malformed" => traps[p] <= faults'
    <3>. SUFFICES ASSUME log[<<p, position[p]>>] # "malformed" PROVE traps[p] <= faults'
      OBVIOUS
    <3>1. position[p] < LogLen
      BY <2>4, DeliveryAssumption DEF Offsets
    <3>2. traps[p] <= faults + 1
      BY <2>3, <3>1 DEF Heads
    <3>3. CASE faults' = faults + 1
      BY <3>2, <3>3
    <3>4. CASE faults' = faults /\ work[p].at <= call[p].last /\ log[<<p, work[p].at>>] = "malformed"
      <4>1. work[p].at # position[p]
        BY <3>4
      <4>2. ~(traps[p] > 0)
        BY <2>3, <2>4, <2>5, <3>4, <4>1
      <4>. QED
        BY <2>3, <3>4, <4>2, <1>n
    <3>. QED
      BY <2>1, <3>3, <3>4
  <2>7. CASE traps[p] + 1 = TrapLimit /\ HeadDead(p)
    <3>1. traps'[p] = 0 /\ \A r \in Records : r # <<p, position[p]>> => dlq'[r] = dlq[r]
      BY <2>7 DEF HeadDead
    <3>2. log[<<p, position[p]>>] # "malformed" => faults' >= TrapLimit - 1
      BY <2>3, <2>6, <2>7, <1>k, <1>n
    <3>3. \A r \in Records : Dead(r)'
      BY <3>1, <3>2, <1>k, <1>m DEF Dead
    <3>4. Heads(p)'
      BY <3>1, <1>z DEF Heads
    <3>. QED
      BY <1>0, <1>4, <3>3, <3>4 DEF Handler
  <2>8. CASE dlq' = dlq /\ position'[p] = position[p] /\ traps'[p] = traps[p] + 1
    <3>1. Heads(p)'
      BY <2>3, <2>6, <2>8, <1>k, <1>n DEF Heads
    <3>. QED
      BY <1>0, <1>4, <1>m, <2>8, <3>1 DEF Handler
  <2>. QED
    BY <2>2, <2>7, <2>8
<1>5. CASE Restart
  <2>1. dlq' = dlq /\ \A p \in Partitions : traps'[p] = 0
    BY <1>5 DEF Restart, HostRestarts
  <2>2. \A p \in Partitions : Heads(p)'
    BY <2>1, <1>k, <1>n DEF Heads
  <2>. QED
    BY <2>1, <2>2, <1>g, <1>m
<1>6. CASE UNCHANGED vars
  BY <1>6 DEF vars, host, HeadInv, HealthyNeverDeadLettered
<1>. QED
  BY <1>1, <1>2, <1>3, <1>4, <1>5, <1>6 DEF Next, Handler

-----------------------------------------------------------------------------
(***************************************************************************)
(* Nothing is repeated.                                                    *)
(***************************************************************************)

\* How far a partition is handled is an offset or the end.
LEMMA HandledType == TypeOK => \A p \in Partitions : Handled(p) \in Nat
<1>. SUFFICES ASSUME TypeOK, NEW p \in Partitions PROVE Handled(p) \in Nat
  BY Zenon
<1>1. position[p] \in Nat /\ work[p].at \in Nat
  BY DeliveryAssumption DEF TypeOK, HostTypeOK
<1>2. Handled(p) = position[p] \/ Handled(p) = work[p].at
  BY DEF Handled
<1>. QED
  BY <1>1, <1>2

\* Without faults a step repeats no flag and no dead letter.
LEMMA StepOnceInv == TypeOK /\ TypeOK' /\ CallInv /\ OnceInv /\ [Next]_vars => OnceInv'
<1>. SUFFICES ASSUME TypeOK, TypeOK', CallInv, OnceInv, [Next]_vars, faults' = 0, naive' = FALSE
              PROVE  /\ \A r \in Records :
                          /\ flagged'[r] <= 1 /\ dlq'[r] <= 1
                          /\ r[2] >= Handled(r[1])' => flagged'[r] = 0 /\ dlq'[r] = 0
                     /\ \A p \in Partitions : work'[p].verdict # "transient"
  BY DEF OnceInv, TypeOK
<1>f. faults \in Nat
  BY DeliveryAssumption DEF TypeOK, HostTypeOK
<1>r. ~Restart
  BY <1>f DEF Restart, Fault
<1>u. CASE UNCHANGED vars
  <2>1. \A p \in Partitions : Handled(p)' = Handled(p)
    BY <1>u DEF vars, host, Handled, Idle
  <2>2. \A r \in Records : r[1] \in Partitions
    BY DEF Records
  <2>. QED
    BY <1>u, <2>1, <2>2 DEF vars, host, OnceInv
<1>p. ASSUME NEW p \in Partitions, Handler(p) \/ FlagFails(p) \/ ReportLost(p) \/ Trap(p)
      PROVE  /\ \A r \in Records :
                  /\ flagged'[r] <= 1 /\ dlq'[r] <= 1
                  /\ r[2] >= Handled(r[1])' => flagged'[r] = 0 /\ dlq'[r] = 0
             /\ \A q \in Partitions : work'[q].verdict # "transient"
  <2>1. naive = FALSE /\ faults = 0
    <3>1. naive' = naive /\ faults' \in {faults, faults + 1}
      BY <1>p, Frame
    <3>. QED
      BY <3>1, <1>f
  <2>2. /\ \A r \in Records :
             /\ flagged[r] <= 1 /\ dlq[r] <= 1
             /\ r[2] >= Handled(r[1]) => flagged[r] = 0 /\ dlq[r] = 0
        /\ \A q \in Partitions : work[q].verdict # "transient"
    BY <2>1 DEF OnceInv
  <2>3. ~FlagFails(p) /\ ~ReportLost(p) /\ ~Trap(p) /\ ~NaivePanic(p)
    BY <2>1 DEF FlagFails, ReportLost, Trap, NaivePanic, Fault
  <2>t. /\ \A r \in Records : flagged[r] \in Nat /\ dlq[r] \in Nat
        /\ \A r \in Records : r[1] \in Partitions /\ r[2] \in Nat
    BY DeliveryAssumption DEF TypeOK, HostTypeOK, Records, Offsets
  <2>h. /\ Handled(p) \in Nat
        /\ \A q \in Partitions \ {p} : Handled(q)' = Handled(q) /\ work'[q] = work[q]
    <3>1. \A q \in Partitions \ {p} :
            position'[q] = position[q] /\ call'[q] = call[q] /\ work'[q] = work[q]
      BY <1>p, Frame
    <3>. QED
      BY <3>1, HandledType DEF Handled, Idle
  \* Outputs only ever for the record the call is at, and then it is behind.
  <2>4. ASSUME work'[p].verdict # "transient",
               \/ Handled(p)' = Handled(p) /\ flagged' = flagged /\ dlq' = dlq
               \/ /\ Handled(p)' = Handled(p) + 1
                  /\ \A r \in Records : r # <<p, Handled(p)>> =>
                       flagged'[r] = flagged[r] /\ dlq'[r] = dlq[r]
                  /\ \A r \in Records :
                       /\ flagged'[r] = flagged[r] \/ flagged'[r] = flagged[r] + 1
                       /\ dlq'[r] = dlq[r] \/ dlq'[r] = dlq[r] + 1
        PROVE  /\ \A r \in Records :
                    /\ flagged'[r] <= 1 /\ dlq'[r] <= 1
                    /\ r[2] >= Handled(r[1])' => flagged'[r] = 0 /\ dlq'[r] = 0
               /\ \A q \in Partitions : work'[q].verdict # "transient"
    <3>1. \A q \in Partitions : work'[q].verdict # "transient"
      BY <2>2, <2>4, <2>h
    <3>2. ASSUME NEW r \in Records
          PROVE  /\ flagged'[r] <= 1 /\ dlq'[r] <= 1
                 /\ r[2] >= Handled(r[1])' => flagged'[r] = 0 /\ dlq'[r] = 0
      <4>0. /\ flagged[r] \in Nat /\ dlq[r] \in Nat /\ r[1] \in Partitions /\ r[2] \in Nat
            /\ flagged[r] <= 1 /\ dlq[r] <= 1
            /\ r[2] >= Handled(r[1]) => flagged[r] = 0 /\ dlq[r] = 0
        BY <2>2, <2>t
      <4>1. CASE r = <<p, Handled(p)>> /\ Handled(p)' = Handled(p) + 1
        <5>1. r[1] = p /\ r[2] = Handled(p)
          BY <4>1
        <5>2. flagged[r] = 0 /\ dlq[r] = 0 /\ ~(r[2] >= Handled(r[1])')
          BY <4>0, <4>1, <5>1, <2>h
        <5>3. /\ flagged'[r] = flagged[r] \/ flagged'[r] = flagged[r] + 1
              /\ dlq'[r] = dlq[r] \/ dlq'[r] = dlq[r] + 1
          BY OutputsGrow
        <5>. QED
          BY <5>2, <5>3
      <4>2. CASE flagged'[r] = flagged[r] /\ dlq'[r] = dlq[r]
        <5>1. r[2] >= Handled(r[1])' => r[2] >= Handled(r[1])
          <6>1. CASE r[1] = p
            BY <6>1, <4>0, <2>4, <2>h
          <6>2. CASE r[1] # p
            BY <6>2, <4>0, <2>h
          <6>. QED
            BY <6>1, <6>2
        <5>. QED
          BY <4>0, <4>2, <5>1
      <4>. QED
        BY <4>1, <4>2, <2>4
    <3>. QED
      BY <3>1, <3>2
  <2>5. CASE Handle(p)
    <3>1. /\ Idle(p) /\ ~Idle(p)' /\ work'[p].at = position[p] /\ work'[p].verdict = "all"
          /\ dlq' = dlq /\ flagged' = flagged
      BY <2>5, HandleEffect
    <3>2. Handled(p)' = Handled(p)
      BY <3>1 DEF Handled
    <3>. QED
      BY <2>4, <3>1, <3>2
  <2>6. CASE PassRecord(p) \/ FlagRecord(p)
    <3>1. /\ ~Idle(p) /\ ~Idle(p)' /\ work'[p].at = work[p].at + 1 /\ dlq' = dlq
          /\ work'[p].verdict = work[p].verdict
          /\ \/ flagged' = flagged
             \/ \A r \in Records :
                  flagged'[r] = IF r = <<p, work[p].at>> THEN flagged[r] + 1 ELSE flagged[r]
      BY <2>6, RecordEffect DEF SameHost
    <3>2. Handled(p) = work[p].at /\ Handled(p)' = Handled(p) + 1
      BY <3>1 DEF Handled
    <3>. QED
      BY <2>2, <2>4, <3>1, <3>2
  <2>7. CASE StopAtMalformed(p) \/ LoopDone(p)
    <3>1. /\ ~Idle(p) /\ ~Idle(p)' /\ work'[p].at = work[p].at /\ dlq' = dlq /\ flagged' = flagged
          /\ work'[p].verdict # "transient"
      BY <2>7, StopEffect DEF SameHost
    <3>2. Handled(p)' = Handled(p)
      BY <3>1 DEF Handled
    <3>. QED
      BY <2>4, <3>1, <3>2
  <2>8. CASE SendReport(p)
    <3>1. /\ ~Idle(p) /\ ~Idle(p)' /\ work'[p].at = work[p].at /\ dlq' = dlq /\ flagged' = flagged
          /\ work'[p].verdict = work[p].verdict
      BY <2>8, ReportEffect DEF SameHost
    <3>2. Handled(p)' = Handled(p)
      BY <3>1 DEF Handled
    <3>. QED
      BY <2>2, <2>4, <3>1, <3>2
  <2>9. CASE Answer(p)
    <3>1. /\ work[p].pc = "answer" /\ ~Idle(p) /\ Idle(p)' /\ EndedAt(p) /\ flagged' = flagged
          /\ \/ work[p].verdict = "permanent" /\ HeadDead(p)
             \/ /\ dlq' = dlq
                /\ \/ work[p].verdict = "all" /\ position'[p] = call[p].last + 1
                   \/ position'[p] = work[p].at
                   \/ work[p].verdict = "transient"
      BY <2>9, AnswerEffect
    <3>2. /\ work[p].verdict = "all" => work[p].at = call[p].last + 1
          /\ work[p].verdict = "permanent" => work[p].at = position[p]
      BY <3>1 DEF CallInv, CallAt
    <3>3. Handled(p) = work[p].at /\ Handled(p)' = position'[p] /\ work'[p].verdict # "transient"
      BY <3>1 DEF Handled, EndedAt
    <3>4. CASE work[p].verdict = "permanent" /\ HeadDead(p)
      <4>1. /\ position'[p] = position[p] + 1
            /\ \A r \in Records : dlq'[r] = IF r = <<p, position[p]>> THEN dlq[r] + 1 ELSE dlq[r]
        BY <3>4 DEF HeadDead
      <4>. QED
        BY <2>4, <3>1, <3>2, <3>3, <3>4, <4>1
    <3>5. CASE dlq' = dlq /\ position'[p] = work[p].at
      BY <2>4, <3>1, <3>3, <3>5
    <3>. QED
      BY <2>2, <3>1, <3>2, <3>4, <3>5
  <2>10. CASE Commit(p)
    <3>1. Handled(p)' = Handled(p) /\ dlq' = dlq /\ flagged' = flagged /\ work' = work
      BY <2>10 DEF Commit, CommitPosition, Handled, Idle
    <3>. QED
      BY <2>2, <2>4, <3>1
  <2>. QED
    BY <1>p, <2>3, <2>5, <2>6, <2>7, <2>8, <2>9, <2>10 DEF Handler
<1>. QED
  BY <1>r, <1>u, <1>p DEF Next

-----------------------------------------------------------------------------
(***************************************************************************)
(* What the dashboard counts.                                              *)
(***************************************************************************)

\* A batch that is handled whole, reported once.
LEMMA WholeReport ==
  ASSUME NEW d \in Folds, NEW first \in Nat, NEW last \in Nat, first <= last, d.hw >= -1
  PROVE  LET e == FoldConsumed(d, last - first + 1, first, last) IN
           /\ e.hw = Higher(d.hw, last)
           /\ d.consumed = d.hw + 1 /\ first <= d.consumed =>
                e.consumed = e.hw + 1 /\ last + 1 <= e.consumed
           /\ d.hw = first - 1 => e.hw = last /\ e.redelivered = d.redelivered
<1>. DEFINE fresh == Positive(last - Higher(first, d.hw + 1) + 1)
            e     == FoldConsumed(d, last - first + 1, first, last)
<1>0. d.hw \in Int /\ d.consumed \in Nat /\ d.redelivered \in Nat
  BY DEF Folds
<1>1. e = [hw |-> Higher(d.hw, last), consumed |-> d.consumed + fresh,
           redelivered |-> d.redelivered + (last - first + 1 - fresh)]
  BY FoldWhole
<1>2. fresh = IF last > d.hw THEN last - Higher(first, d.hw + 1) + 1 ELSE 0
  BY <1>0 DEF Positive, Higher
<1>. HIDE DEF e, fresh
<1>3. /\ e.hw = Higher(d.hw, last) /\ e.consumed = d.consumed + fresh
      /\ e.redelivered = d.redelivered + (last - first + 1 - fresh)
  BY <1>1
<1>4. ASSUME d.consumed = d.hw + 1, first <= d.consumed
      PROVE  e.consumed = e.hw + 1 /\ last + 1 <= e.consumed
  BY <1>0, <1>2, <1>3, <1>4 DEF Higher
<1>5. ASSUME d.hw = first - 1
      PROVE  e.hw = last /\ e.redelivered = d.redelivered
  BY <1>0, <1>2, <1>3, <1>5 DEF Higher
<1>. QED
  BY <1>3, <1>4, <1>5 DEF e

\* A call that starts behind everything the partition's instances were handed
\* sees nothing again.
LEMMA NothingSeen ==
  ASSUME NEW seen \in Int, NEW first \in Nat, NEW last \in Nat, seen < first, first <= last
  PROVE  SeenAgain(seen, first, last) = 0 /\ Higher(last, seen) = last
BY DEF SeenAgain, Positive, Higher

\* What a step of another partition leaves as it was.
LEMMA CountFrame ==
  TypeOK => \A p \in Partitions :
    Handler(p) \/ FlagFails(p) \/ ReportLost(p) \/ Trap(p) =>
      \A q \in Partitions \ {p} :
        Behind(q) /\ CountedExactly(q) /\ SeenOnce(q) =>
          (Behind(q) /\ CountedExactly(q) /\ SeenOnce(q))'
<1>. HAVE TypeOK
<1>. TAKE p \in Partitions
<1>. HAVE Handler(p) \/ FlagFails(p) \/ ReportLost(p) \/ Trap(p)
<1>. TAKE q \in Partitions \ {p}
<1>. HAVE Behind(q) /\ CountedExactly(q) /\ SeenOnce(q)
<1>1. /\ position'[q] = position[q] /\ call'[q] = call[q] /\ work'[q] = work[q]
      /\ folded'[q] = folded[q] /\ missed'[q] = missed[q] /\ highWater'[q] = highWater[q]
      /\ \A o \in Offsets : dlq'[<<q, o>>] = dlq[<<q, o>>]
      /\ log' = log /\ faults' \in {faults, faults + 1}
  BY Frame
<1>2. Healthy(q)' = Healthy(q) /\ Clean(q)' = Clean(q) /\ Idle(q)' = Idle(q)
  BY <1>1 DEF Clean, Healthy, Idle
<1>3. faults' = 0 => faults = 0
  BY <1>1, DeliveryAssumption DEF TypeOK, HostTypeOK
<1>4. Behind(q)'
  BY <1>1 DEF Behind
<1>5. CountedExactly(q)'
  BY <1>1, <1>2 DEF CountedExactly
<1>6. SeenOnce(q)'
  BY <1>1, <1>2, <1>3 DEF SeenOnce
<1>. QED
  BY <1>4, <1>5, <1>6

\* A step keeps the count behind or at what was handled.
LEMMA StepCountInv == TypeOK /\ TypeOK' /\ CallInv /\ CountInv /\ [Next]_vars => CountInv'
<1>. SUFFICES ASSUME TypeOK, TypeOK', CallInv, CountInv, [Next]_vars PROVE CountInv'
  OBVIOUS
<1>0. ASSUME NEW p \in Partitions, Handler(p) \/ FlagFails(p) \/ ReportLost(p) \/ Trap(p),
             Behind(p)', CountedExactly(p)', SeenOnce(p)'
      PROVE  CountInv'
  BY <1>0, CountFrame DEF CountInv
<1>n. /\ faults \in Nat /\ LogLen \in Nat
      /\ \A p \in Partitions : position[p] \in Nat /\ committed[p] \in Nat
      /\ \A r \in Records : dlq[r] \in Nat
      /\ \A p \in Partitions : \A o \in highWater[p] : o \in Nat
  BY DeliveryAssumption DEF TypeOK, HostTypeOK, Offsets
\* What p's fold is about, and the call in it.
<1>i. ASSUME NEW p \in Partitions
      PROVE  /\ Behind(p) /\ CountedExactly(p) /\ SeenOnce(p)
             /\ folded[p] \in Folds /\ folded[p].hw >= -1
             /\ folded[p].hw \in Int /\ folded[p].consumed \in Nat /\ folded[p].redelivered \in Nat
             /\ work[p].pc # "idle" =>
                  /\ ~Idle(p) /\ position[p] \in Nat /\ call[p].last \in Nat /\ work[p].at \in Nat
                  /\ call[p].last \in Offsets /\ position[p] <= call[p].last
                  /\ position[p] <= work[p].at /\ work[p].at <= call[p].last + 1
  <2>1. Behind(p) /\ CountedExactly(p) /\ SeenOnce(p)
    BY DEF CountInv
  <2>2. folded[p] \in Folds /\ folded[p].hw >= -1
    BY FoldedType
  <2>3. folded[p].hw \in Int /\ folded[p].consumed \in Nat /\ folded[p].redelivered \in Nat
    BY <2>2 DEF Folds
  <2>4. work[p].pc # "idle" =>
          /\ ~Idle(p) /\ position[p] \in Nat /\ call[p].last \in Nat /\ work[p].at \in Nat
          /\ call[p].last \in Offsets /\ position[p] <= call[p].last
          /\ position[p] <= work[p].at /\ work[p].at <= call[p].last + 1
    BY CallType
  <2>. QED
    BY <2>1, <2>2, <2>3, <2>4
\* A clean partition was clean before.
<1>c. ASSUME NEW p \in Partitions, missed'[p] = missed[p] \/ missed'[p] = TRUE, log' = log
      PROVE  /\ Healthy(p)' = Healthy(p)
             /\ Clean(p)' => Clean(p) /\ missed'[p] = FALSE
  <2>1. Healthy(p)' = Healthy(p)
    BY <1>c DEF Healthy
  <2>2. ASSUME Clean(p)', NEW o \in Offsets PROVE dlq[<<p, o>>] = 0
    <3>1. <<p, o>> \in Records /\ dlq[<<p, o>>] \in Nat
      BY <1>n DEF Records
    <3>2. dlq'[<<p, o>>] = 0
      BY <2>2 DEF Clean
    <3>3. dlq'[<<p, o>>] = dlq[<<p, o>>] \/ dlq'[<<p, o>>] = dlq[<<p, o>>] + 1
      BY <3>1, OutputsGrow
    <3>. QED
      BY <3>1, <3>2, <3>3
  <2>3. missed[p] \in BOOLEAN /\ missed'[p] \in BOOLEAN
    BY DEF TypeOK
  <2>. QED
    BY <1>c, <2>1, <2>2, <2>3 DEF Clean
<1>1. ASSUME NEW p \in Partitions, Handle(p) PROVE CountInv'
  <2>1. PICK last \in Offsets, seen \in {-1} \cup highWater[p] :
          /\ Idle(p) /\ position[p] <= last
          /\ call'[p].last = last /\ ~Idle(p)'
          /\ position'[p] = position[p] /\ dlq' = dlq /\ missed' = missed /\ faults' = faults
          /\ work'[p].pc = "records" /\ work'[p].at = position[p] /\ work'[p].verdict = "all"
          /\ highWater'[p] = highWater[p] \cup {Higher(last, seen)}
          /\ folded'[p] = FoldRedelivered(folded[p], SeenAgain(seen, position[p], last))
    BY <1>1, HandleEffect
  <2>2. log' = log
    BY <1>1 DEF Handle
  <2>3. /\ folded'[p].hw = folded[p].hw /\ folded'[p].consumed = folded[p].consumed
        /\ folded'[p].redelivered = folded[p].redelivered + SeenAgain(seen, position[p], last)
    BY <2>1, <1>i DEF FoldRedelivered, Folds
  <2>4. last \in Nat /\ position[p] \in Nat
    BY <1>n DEF Offsets
  <2>5. Behind(p)'
    BY <2>3, <1>i DEF Behind
  <2>6. CountedExactly(p)'
    <3>1. Clean(p)' => Clean(p)
      BY <2>1, <2>2, <1>c
    <3>. QED
      BY <2>1, <2>3, <3>1, <1>i DEF CountedExactly
  <2>7. SeenOnce(p)'
    <3>. SUFFICES ASSUME faults' = 0, Healthy(p)'
                  PROVE  /\ folded'[p].redelivered = 0 /\ work'[p].verdict = "all"
                         /\ folded'[p].hw = IF work'[p].pc = "answer" THEN call'[p].last
                                            ELSE position'[p] - 1
                         /\ \A o \in highWater'[p] :
                              o < IF Idle(p)' THEN position'[p] ELSE call'[p].last + 1
      BY DEF SeenOnce
    <3>1. faults = 0 /\ Healthy(p)
      BY <2>1, <2>2, <1>c
    <3>2. /\ folded[p].redelivered = 0
          /\ folded[p].hw = IF work[p].pc = "answer" THEN call[p].last ELSE position[p] - 1
          /\ \A o \in highWater[p] : o < position[p]
      BY <3>1, <2>1, <1>i DEF SeenOnce
    <3>3. seen \in Int /\ seen < position[p]
      BY <3>2, <2>4, <1>n
    <3>4. SeenAgain(seen, position[p], last) = 0 /\ Higher(last, seen) = last
      BY <3>3, <2>1, <2>4, NothingSeen
    <3>5. work[p].pc # "answer"
      BY <2>1, <1>i
    <3>6. \A o \in highWater'[p] : o < last + 1
      BY <3>2, <3>4, <2>1, <2>4, <1>n
    <3>. QED
      BY <2>1, <2>3, <3>2, <3>4, <3>5, <3>6
  <2>. QED
    BY <1>0, <1>1, <2>5, <2>6, <2>7 DEF Handler
<1>2. ASSUME NEW p \in Partitions, PassRecord(p) \/ FlagRecord(p) PROVE CountInv'
  <2>1. /\ work[p].pc = "records" /\ work'[p].pc = "records" /\ work'[p].verdict = work[p].verdict
        /\ folded' = folded /\ missed' = missed /\ faults' = faults /\ highWater' = highWater
        /\ position'[p] = position[p] /\ call'[p] = call[p] /\ ~Idle(p) /\ ~Idle(p)'
    BY <1>2, RecordEffect DEF SameHost
  <2>2. log' = log
    BY <1>2 DEF PassRecord, FlagRecord
  <2>3. Healthy(p)' = Healthy(p) /\ (Clean(p)' => Clean(p))
    BY <2>1, <2>2, <1>c
  <2>4. Behind(p)' /\ CountedExactly(p)' /\ SeenOnce(p)'
    BY <2>1, <2>3, <1>i DEF Behind, CountedExactly, SeenOnce
  <2>. QED
    BY <1>0, <1>2, <2>4 DEF Handler
<1>3. ASSUME NEW p \in Partitions, StopAtMalformed(p) \/ LoopDone(p) PROVE CountInv'
  <2>1. /\ work[p].pc = "records" /\ work'[p].pc = "report"
        /\ folded' = folded /\ missed' = missed /\ faults' = faults /\ highWater' = highWater
        /\ position'[p] = position[p] /\ call'[p] = call[p] /\ ~Idle(p) /\ ~Idle(p)'
        /\ \/ work'[p].verdict = "all"
           \/ log[<<p, work[p].at>>] = "malformed" /\ work[p].at <= call[p].last
    BY <1>3, StopEffect DEF SameHost
  <2>2. log' = log
    BY <1>3 DEF StopAtMalformed, LoopDone
  <2>3. Healthy(p)' = Healthy(p) /\ (Clean(p)' => Clean(p))
    BY <2>1, <2>2, <1>c
  <2>4. Healthy(p) => work'[p].verdict = "all"
    <3>1. work[p].at <= call[p].last => work[p].at \in Offsets
      BY <2>1, CallType
    <3>. QED
      BY <2>1, <3>1 DEF Healthy
  <2>5. Behind(p)' /\ CountedExactly(p)' /\ SeenOnce(p)'
    BY <2>1, <2>3, <2>4, <1>i DEF Behind, CountedExactly, SeenOnce, Clean
  <2>. QED
    BY <1>0, <1>3, <2>5 DEF Handler
<1>4. ASSUME NEW p \in Partitions, SendReport(p) \/ ReportLost(p) PROVE CountInv'
  <2>1. /\ position'[p] = position[p] /\ call'[p] = call[p] /\ ~Idle(p) /\ ~Idle(p)'
        /\ highWater' = highWater
        /\ work[p].pc = "report" /\ work'[p].pc = "answer" /\ work'[p].at = work[p].at
        /\ work'[p].verdict = work[p].verdict
        /\ \/ folded' = folded /\ faults' = faults + 1 /\ missed'[p] = TRUE
           \/ /\ faults' = faults /\ missed' = missed
              /\ folded'[p] = IF work[p].at > position[p]
                              THEN FoldConsumed(folded[p], work[p].at - position[p],
                                                position[p], call[p].last)
                              ELSE folded[p]
    BY <1>4, ReportEffect DEF SameHost
  <2>2. log' = log
    BY <1>4 DEF SendReport, ReportLost
  <2>3. Healthy(p)' = Healthy(p) /\ (Clean(p)' => Clean(p) /\ missed'[p] = FALSE)
    BY <2>1, <2>2, <1>c
  <2>4. CASE folded' = folded /\ faults' = faults + 1 /\ missed'[p] = TRUE
    <3>1. Behind(p)'
      BY <2>4, <1>i DEF Behind
    <3>2. CountedExactly(p)'
      BY <2>3, <2>4 DEF CountedExactly
    <3>3. SeenOnce(p)'
      BY <2>4, <1>n DEF SeenOnce
    <3>. QED
      BY <1>0, <1>4, <3>1, <3>2, <3>3 DEF Handler
  <2>5. CASE /\ faults' = faults /\ missed' = missed
             /\ folded'[p] = IF work[p].at > position[p]
                             THEN FoldConsumed(folded[p], work[p].at - position[p],
                                               position[p], call[p].last)
                             ELSE folded[p]
    <3>. DEFINE n == work[p].at - position[p]
                e == FoldConsumed(folded[p], n, position[p], call[p].last)
    <3>0. /\ position[p] \in Nat /\ call[p].last \in Nat /\ work[p].at \in Nat
          /\ position[p] <= call[p].last
          /\ position[p] <= work[p].at /\ work[p].at <= call[p].last + 1
      BY <2>1, <1>i
    <3>1. n \in Nat /\ n <= call[p].last - position[p] + 1
      BY <3>0
    <3>2. folded[p] \in Folds /\ folded[p].hw >= -1 /\ folded[p].consumed <= folded[p].hw + 1
      BY <1>i DEF Behind
    <3>3. e.consumed <= e.hw + 1
      <4>. DEFINE d == folded[p]
                  last == call[p].last
                  first == position[p]
      <4>1. d \in Folds /\ d.hw >= -1 /\ d.consumed <= d.hw + 1
            /\ first \in Nat /\ last \in Nat /\ first <= last
            /\ n \in Nat /\ n <= last - first + 1
        BY <3>0, <3>1, <3>2
      <4>. HIDE DEF d, last, first, n
      <4>2. LET f == FoldConsumed(d, n, first, last) IN f.consumed <= f.hw + 1
        BY <4>1, FoldNeverAhead
      <4>. QED
        BY <4>2 DEF d, last, first
    <3>4. Behind(p)'
      BY <2>5, <3>2, <3>3 DEF Behind
    \* The whole batch is counted.
    <3>5. ASSUME work[p].verdict = "all"
          PROVE  /\ folded'[p] = e /\ work[p].at = call[p].last + 1
                 /\ e.hw = Higher(folded[p].hw, call[p].last)
                 /\ folded[p].consumed = folded[p].hw + 1 /\ position[p] <= folded[p].consumed =>
                      e.consumed = e.hw + 1 /\ call[p].last + 1 <= e.consumed
                 /\ folded[p].hw = position[p] - 1 =>
                      e.hw = call[p].last /\ e.redelivered = folded[p].redelivered
      <4>1. work[p].at = call[p].last + 1
        BY <2>1, <3>5 DEF CallInv, CallAt
      <4>2. n = call[p].last - position[p] + 1 /\ work[p].at > position[p]
        BY <3>0, <4>1
      <4>. DEFINE d == folded[p]
                  last == call[p].last
                  first == position[p]
      <4>3. d \in Folds /\ d.hw >= -1 /\ first \in Nat /\ last \in Nat /\ first <= last
        BY <3>0, <3>2
      <4>. HIDE DEF d, last, first
      <4>4. LET f == FoldConsumed(d, last - first + 1, first, last) IN
              /\ f.hw = Higher(d.hw, last)
              /\ d.consumed = d.hw + 1 /\ first <= d.consumed =>
                   f.consumed = f.hw + 1 /\ last + 1 <= f.consumed
              /\ d.hw = first - 1 => f.hw = last /\ f.redelivered = d.redelivered
        BY <4>3, WholeReport
      <4>5. e = FoldConsumed(d, last - first + 1, first, last)
        BY <4>2 DEF d, last, first
      <4>. HIDE DEF e
      <4>6. /\ e.hw = Higher(folded[p].hw, call[p].last)
            /\ folded[p].consumed = folded[p].hw + 1 /\ position[p] <= folded[p].consumed =>
                 e.consumed = e.hw + 1 /\ call[p].last + 1 <= e.consumed
            /\ folded[p].hw = position[p] - 1 =>
                 e.hw = call[p].last /\ e.redelivered = folded[p].redelivered
        BY <4>4, <4>5 DEF d, last, first
      <4>7. folded'[p] = e
        BY <2>5, <4>2 DEF e
      <4>. QED
        BY <4>1, <4>6, <4>7
    <3>. HIDE DEF e, n
    <3>6. CountedExactly(p)'
      <4>. SUFFICES ASSUME Clean(p)'
                    PROVE  /\ folded'[p].consumed = folded'[p].hw + 1
                           /\ position'[p] <= folded'[p].consumed
                           /\ work'[p].verdict = "all"
                           /\ work'[p].pc = "answer" => work'[p].at <= folded'[p].consumed
        BY DEF CountedExactly
      <4>1. /\ folded[p].consumed = folded[p].hw + 1
            /\ position[p] <= folded[p].consumed
            /\ work[p].verdict = "all"
        BY <2>3, <1>i DEF CountedExactly
      <4>2. /\ folded'[p] = e /\ work[p].at = call[p].last + 1
            /\ e.consumed = e.hw + 1 /\ call[p].last + 1 <= e.consumed
        BY <3>5, <4>1
      <4>3. work[p].at <= folded'[p].consumed
        BY <4>2
      <4>4. folded'[p].consumed \in Nat
        BY DEF TypeOK
      <4>5. position[p] <= folded'[p].consumed
        BY <3>0, <4>3, <4>4
      <4>. QED
        BY <2>1, <4>1, <4>2, <4>3, <4>5
    <3>7. SeenOnce(p)'
      <4>. SUFFICES ASSUME faults' = 0, Healthy(p)'
                    PROVE  /\ folded'[p].redelivered = 0 /\ work'[p].verdict = "all"
                           /\ folded'[p].hw = IF work'[p].pc = "answer" THEN call'[p].last
                                              ELSE position'[p] - 1
                           /\ \A o \in highWater'[p] :
                                o < IF Idle(p)' THEN position'[p] ELSE call'[p].last + 1
        BY DEF SeenOnce
      <4>1. faults = 0 /\ Healthy(p)
        BY <2>3, <2>5
      <4>2. /\ folded[p].redelivered = 0 /\ work[p].verdict = "all"
            /\ folded[p].hw = position[p] - 1
            /\ \A o \in highWater[p] : o < call[p].last + 1
        BY <4>1, <2>1, <1>i DEF SeenOnce
      <4>3. folded'[p] = e /\ e.hw = call[p].last /\ e.redelivered = folded[p].redelivered
        BY <3>5, <4>2
      <4>. QED
        BY <2>1, <4>2, <4>3
    <3>. QED
      BY <1>0, <1>4, <3>4, <3>6, <3>7 DEF Handler
  <2>. QED
    BY <2>1, <2>4, <2>5
<1>5. ASSUME NEW p \in Partitions, FlagFails(p) PROVE CountInv'
  <2>1. /\ work[p].pc = "records" /\ work[p].at <= call[p].last
        /\ faults' = faults + 1 /\ missed'[p] = TRUE
        /\ \/ folded' = folded
           \/ folded'[p] = FoldConsumed(folded[p], work[p].at - position[p], position[p], work[p].at)
    BY <1>5, FlagFailsEffect
  <2>2. CountedExactly(p)' /\ SeenOnce(p)'
    BY <2>1, <1>n DEF CountedExactly, Clean, SeenOnce
  <2>3. folded[p] \in Folds /\ folded[p].hw >= -1 /\ folded[p].consumed <= folded[p].hw + 1
    BY <1>i DEF Behind
  <2>4. Behind(p)'
    <3>. DEFINE d == folded[p]
                first == position[p]
                at == work[p].at
                n == at - first
    <3>1. position[p] \in Nat /\ work[p].at \in Nat /\ position[p] <= work[p].at
      BY <2>1, <1>i
    <3>2. /\ d \in Folds /\ d.hw >= -1 /\ d.consumed <= d.hw + 1
          /\ first \in Nat /\ at \in Nat /\ first <= at
          /\ n \in Nat /\ n <= at - first + 1
      BY <2>3, <3>1
    <3>. HIDE DEF d, first, at, n
    <3>3. LET f == FoldConsumed(d, n, first, at) IN f.consumed <= f.hw + 1
      BY <3>2, FoldNeverAhead
    <3>. USE DEF d, first, at, n
    <3>4. CASE folded' = folded
      BY <2>3, <3>4 DEF Behind
    <3>5. CASE folded'[p] = FoldConsumed(d, n, first, at)
      BY <3>3, <3>5 DEF Behind
    <3>. QED
      BY <2>1, <3>4, <3>5
  <2>. QED
    BY <1>0, <1>5, <2>2, <2>4
<1>6. ASSUME NEW p \in Partitions, Answer(p) PROVE CountInv'
  <2>1. /\ work[p].pc = "answer" /\ ~Idle(p) /\ Idle(p)' /\ EndedAt(p)
        /\ folded' = folded /\ missed' = missed /\ faults' = faults /\ highWater' = highWater
        /\ \/ work[p].verdict = "permanent"
           \/ work[p].verdict = "all" /\ position'[p] = call[p].last + 1
           \/ work[p].verdict = "through"
           \/ work[p].verdict = "transient"
    BY <1>6, AnswerEffect
  <2>2. log' = log
    BY <1>6 DEF Answer
  <2>3. Healthy(p)' = Healthy(p) /\ (Clean(p)' => Clean(p))
    BY <2>1, <2>2, <1>c
  <2>4. work[p].verdict = "all" =>
          work[p].at = call[p].last + 1 /\ position'[p] = call[p].last + 1
    BY <2>1 DEF CallInv, CallAt
  <2>5. Behind(p)'
    BY <2>1, <1>i DEF Behind
  <2>6. CountedExactly(p)'
    BY <2>1, <2>3, <2>4, <1>i DEF CountedExactly, EndedAt
  <2>7. SeenOnce(p)'
    <3>. SUFFICES ASSUME faults' = 0, Healthy(p)'
                  PROVE  /\ folded'[p].redelivered = 0 /\ work'[p].verdict = "all"
                         /\ folded'[p].hw = IF work'[p].pc = "answer" THEN call'[p].last
                                            ELSE position'[p] - 1
                         /\ \A o \in highWater'[p] :
                              o < IF Idle(p)' THEN position'[p] ELSE call'[p].last + 1
      BY DEF SeenOnce
    <3>1. /\ folded[p].redelivered = 0 /\ work[p].verdict = "all"
          /\ folded[p].hw = call[p].last
          /\ \A o \in highWater[p] : o < call[p].last + 1
      BY <2>1, <2>3, <1>i DEF SeenOnce
    <3>2. position'[p] = call[p].last + 1 /\ call[p].last \in Nat
      BY <2>1, <2>4, <3>1, <1>i
    <3>. QED
      BY <2>1, <3>1, <3>2 DEF EndedAt
  <2>. QED
    BY <1>0, <1>6, <2>5, <2>6, <2>7 DEF Handler
<1>7. ASSUME NEW p \in Partitions, NaivePanic(p) \/ Trap(p) PROVE CountInv'
  <2>1. /\ work[p].pc # "idle" /\ EndedAt(p)
        /\ folded' = folded /\ missed' = missed
        /\ \/ HeadDead(p)
           \/ dlq' = dlq /\ position'[p] = position[p]
        /\ \/ faults' = faults + 1
           \/ /\ work[p].at <= call[p].last
              /\ log[<<p, work[p].at>>] = "malformed"
    BY <1>7, PanicEffect
  <2>2. log' = log
    BY <1>7 DEF NaivePanic, Trap, Panic
  <2>3. Healthy(p)' = Healthy(p) /\ (Clean(p)' => Clean(p))
    BY <2>1, <2>2, <1>c
  <2>4. Behind(p)'
    BY <2>1, <1>i DEF Behind
  <2>5. Clean(p)' => position'[p] = position[p]
    <3>. SUFFICES ASSUME Clean(p)', HeadDead(p) PROVE FALSE
      BY <2>1
    <3>1. position[p] \in Offsets /\ <<p, position[p]>> \in Records
      BY <2>1, CallType
    <3>2. dlq'[<<p, position[p]>>] = dlq[<<p, position[p]>>] + 1
      BY <3>1 DEF HeadDead
    <3>3. dlq'[<<p, position[p]>>] = 0
      BY <3>1 DEF Clean
    <3>. QED
      BY <3>1, <3>2, <3>3, <1>n
  <2>6. CountedExactly(p)'
    BY <2>1, <2>3, <2>5, <1>i DEF CountedExactly, EndedAt
  <2>7. SeenOnce(p)'
    <3>1. CASE faults' = faults + 1
      BY <3>1, <1>n DEF SeenOnce
    <3>2. CASE work[p].at <= call[p].last /\ log[<<p, work[p].at>>] = "malformed"
      <4>1. work[p].at \in Offsets
        BY <2>1, <3>2, CallType
      <4>2. ~Healthy(p)'
        BY <2>3, <3>2, <4>1 DEF Healthy
      <4>. QED
        BY <4>2 DEF SeenOnce
    <3>. QED
      BY <2>1, <3>1, <3>2
  <2>. QED
    BY <1>0, <1>7, <2>4, <2>6, <2>7 DEF Handler
<1>8. ASSUME NEW p \in Partitions, Commit(p) PROVE CountInv'
  BY <1>8 DEF Commit, CommitPosition, CountInv, Behind, CountedExactly, SeenOnce, Clean, Healthy,
              Idle
<1>9. CASE Restart
  <2>. SUFFICES ASSUME NEW p \in Partitions PROVE Behind(p)' /\ CountedExactly(p)' /\ SeenOnce(p)'
    BY DEF CountInv
  <2>1. /\ folded' = folded /\ missed' = missed /\ log' = log /\ dlq' = dlq
        /\ faults' = faults + 1 /\ work'[p] = NoWork /\ position'[p] = committed[p]
    BY <1>9 DEF Restart, HostRestarts, Fault
  <2>2. committed[p] <= position[p]
    BY DEF CallInv, CallAt
  <2>3. Clean(p)' => Clean(p)
    BY <2>1 DEF Clean, Healthy
  <2>4. Behind(p)' /\ SeenOnce(p)'
    BY <2>1, <1>i, <1>n DEF Behind, SeenOnce
  <2>5. CountedExactly(p)'
    <3>. SUFFICES ASSUME Clean(p)'
                  PROVE  /\ folded'[p].consumed = folded'[p].hw + 1
                         /\ position'[p] <= folded'[p].consumed
                         /\ work'[p].verdict = "all"
                         /\ work'[p].pc = "answer" => work'[p].at <= folded'[p].consumed
      BY DEF CountedExactly
    <3>1. folded[p].consumed = folded[p].hw + 1 /\ position[p] <= folded[p].consumed
      BY <2>3, <1>i DEF CountedExactly
    <3>2. committed[p] <= folded[p].consumed
      BY <2>2, <3>1, <1>i, <1>n
    <3>. QED
      BY <2>1, <3>1, <3>2 DEF NoWork
  <2>. QED
    BY <2>4, <2>5
<1>10. CASE UNCHANGED vars
  BY <1>10 DEF vars, host, CountInv, Behind, CountedExactly, SeenOnce, Clean, Healthy, Idle
<1>. QED
  BY <1>1, <1>2, <1>3, <1>4, <1>5, <1>6, <1>7, <1>8, <1>9, <1>10 DEF Next, Handler

-----------------------------------------------------------------------------
(***************************************************************************)
(* The theorems.                                                           *)
(***************************************************************************)

\* The inductive invariant at the start.
LEMMA InitInv == Init => Inv
<1>. SUFFICES ASSUME Init PROVE Inv
  OBVIOUS
<1>1. TypeOK
  BY InitTypeOK
<1>2. ASSUME NEW p \in Partitions
      PROVE  /\ position[p] = 0 /\ committed[p] = 0 /\ traps[p] = 0 /\ call[p] = NoCall
             /\ work[p] = NoWork /\ highWater[p] = {} /\ folded[p] = NothingFolded
  BY DEF Init, HostInit
<1>3. ASSUME NEW r \in Records PROVE dlq[r] = 0 /\ flagged[r] = 0
  BY DEF Init, HostInit
<1>4. ASSUME NEW p \in Partitions
      PROVE  CallAt(p) /\ Handled(p) = 0 /\ Behind(p) /\ CountedExactly(p) /\ SeenOnce(p)
             /\ traps[p] <= 1 /\ work[p].verdict = "all"
  <2>1. /\ position[p] = 0 /\ committed[p] = 0 /\ traps[p] = 0 /\ Idle(p)
        /\ folded[p].hw = -1 /\ folded[p].consumed = 0 /\ folded[p].redelivered = 0
        /\ work[p].pc = "idle" /\ work[p].verdict = "all" /\ highWater[p] = {}
    BY <1>2 DEF Idle, NothingFolded, NoWork
  <2>. QED
    BY <2>1 DEF CallAt, Handled, Behind, CountedExactly, SeenOnce
<1>5. SettledInv
  BY <1>4, DeliveryAssumption DEF SettledInv, Offsets
<1>6. HeadInv
  BY <1>3, <1>4 DEF Init, HostInit, HeadInv, HealthyNeverDeadLettered
<1>7. OnceInv
  BY <1>3, <1>4 DEF OnceInv
<1>. QED
  BY <1>1, <1>4, <1>5, <1>6, <1>7 DEF Inv, CallInv, CountInv

\* The inductive invariant over a step.
LEMMA StepInv == Inv /\ [Next]_vars => Inv'
<1>. SUFFICES ASSUME Inv, [Next]_vars PROVE Inv'
  OBVIOUS
<1>1. TypeOK'
  BY StepTypeOK DEF Inv
<1>2. CallInv' /\ SettledInv' /\ HeadInv' /\ OnceInv' /\ CountInv'
  BY <1>1, StepCallInv, StepSettledInv, StepHeadInv, StepOnceInv, StepCountInv DEF Inv
<1>. QED
  BY <1>1, <1>2 DEF Inv

\* What a call has done at each point of the handler, what lies settled behind
\* it, how far the traps of a head have got and what the dashboard has counted:
\* the inductive invariant holds of every behaviour of ST-02.
THEOREM Invariance == Spec => []Inv
BY InitInv, StepInv, PTL DEF Spec

\* A malformed record costs its neighbours nothing: a record that parses is
\* dead-lettered only after instances were lost TrapLimit - 1 times.
THEOREM HealthyNeverDeadLetteredTheorem == Spec => []HealthyNeverDeadLettered
<1>1. Inv => HealthyNeverDeadLettered
  BY DEF Inv, HeadInv
<1>. QED
  BY <1>1, Invariance, PTL

\* Without failures the robust build flags and dead-letters nothing twice, however
\* batches are cut by partial answers.
THEOREM PartialRepeatsNothingTheorem == Spec => []PartialRepeatsNothing
<1>1. Inv => PartialRepeatsNothing
  BY DEF Inv, OnceInv, PartialRepeatsNothing
<1>. QED
  BY <1>1, Invariance, PTL

\* The dashboard's counts of this station: exact on a partition where nothing was
\* lost, never too many, and no redelivery reported that did not happen.
THEOREM AccountingTheorem == Spec => []Accounting
<1>1. ASSUME Inv PROVE AccountingExact
  <2>. SUFFICES ASSUME NEW p \in Partitions, Clean(p)
                PROVE  /\ folded[p].consumed = folded[p].hw + 1
                       /\ Idle(p) => folded[p].consumed >= position[p]
    BY DEF AccountingExact
  <2>1. folded[p].consumed = folded[p].hw + 1 /\ position[p] <= folded[p].consumed
    BY <1>1 DEF Inv, CountInv, CountedExactly
  <2>2. position[p] \in Int /\ folded[p].consumed \in Int
    BY <1>1, DeliveryAssumption DEF Inv, TypeOK, HostTypeOK
  <2>. QED
    BY <2>1, <2>2
<1>2. ASSUME Inv, NEW p \in Partitions PROVE folded[p].consumed <= folded[p].hw + 1
  BY <1>2 DEF Inv, CountInv, Behind
<1>3. Inv => NoFalseRedelivery
  BY DEF Inv, CountInv, SeenOnce, NoFalseRedelivery
<1>4. Inv => Accounting
  BY <1>1, <1>2, <1>3 DEF Accounting, NeverOvercounts
<1>. QED
  BY <1>4, Invariance, PTL

\* A restart goes back to what is committed; no other step takes a partition back.
LEMMA PositionGrows ==
  TypeOK /\ CallInv /\ [Next]_vars =>
    \/ position' = committed /\ Settled' = Settled
    \/ \A p \in Partitions : position[p] <= position'[p]
<1>. SUFFICES ASSUME TypeOK, CallInv, [Next]_vars
              PROVE  \/ position' = committed /\ Settled' = Settled
                     \/ \A p \in Partitions : position[p] <= position'[p]
  OBVIOUS
<1>n. \A p \in Partitions : position[p] \in Nat /\ position[p] <= position[p]
  BY DeliveryAssumption DEF TypeOK, HostTypeOK
<1>1. CASE Restart
  BY <1>1 DEF Restart, HostRestarts, Settled
<1>2. ASSUME NEW p \in Partitions, Handler(p) \/ FlagFails(p) \/ ReportLost(p) \/ Trap(p),
             position[p] <= position'[p]
      PROVE  \A q \in Partitions : position[q] <= position'[q]
  <2>1. \A q \in Partitions \ {p} : position'[q] = position[q]
    BY <1>2, Frame
  <2>. QED
    BY <1>2, <1>n, <2>1
<1>3. ASSUME NEW p \in Partitions, Answer(p) PROVE position[p] <= position'[p]
  <2>1. work[p].pc = "answer" /\ \/ position'[p] = position[p] + 1
                                 \/ position'[p] = call[p].last + 1
                                 \/ position'[p] = work[p].at
                                 \/ position'[p] = position[p]
    BY <1>3, AnswerEffect DEF HeadDead
  <2>2. /\ position[p] \in Nat /\ call[p].last \in Nat /\ work[p].at \in Nat
        /\ position[p] <= call[p].last /\ position[p] <= work[p].at
    BY <2>1, CallType
  <2>. QED
    BY <2>1, <2>2
<1>4. ASSUME NEW p \in Partitions, NaivePanic(p) \/ Trap(p) PROVE position[p] <= position'[p]
  <2>1. position'[p] = position[p] + 1 \/ position'[p] = position[p]
    BY <1>4, PanicEffect DEF HeadDead
  <2>. QED
    BY <2>1, <1>n
<1>5. ASSUME NEW p \in Partitions,
             \/ Handle(p) \/ PassRecord(p) \/ FlagRecord(p) \/ StopAtMalformed(p) \/ LoopDone(p)
             \/ SendReport(p) \/ Commit(p) \/ FlagFails(p) \/ ReportLost(p)
      PROVE  position' = position
  BY <1>5 DEF Handle, Hand, PassRecord, FlagRecord, StopAtMalformed, LoopDone, SendReport, Commit,
              CommitPosition, FlagFails, ReportLost, host
<1>6. CASE UNCHANGED vars
  BY <1>6, <1>n DEF vars, host
<1>. QED
  BY <1>n, <1>1, <1>2, <1>3, <1>4, <1>5, <1>6 DEF Next, Handler

\* At least once, of ST-02: the position passes a record only when it is settled,
\* and falls back only to what was committed, with what is settled kept.
THEOREM ImplementsAtLeastOnce == Spec => AtLeastOnceSpec
<1>0. Promise!Records = Records
  BY DEF Records, Offsets, Promise!Records
<1>1. Init => Promise!Init
  BY <1>0 DEF Init, HostInit, Promise!Init, Settled
<1>2. ASSUME Inv, Inv', [Next]_vars
      PROVE  [Promise!Next]_<<position, Settled>>
  <2>1. Settled \subseteq Settled' /\ Settled' \in SUBSET Records
    BY <1>2, SettledGrows DEF Inv, Settled
  <2>2. position' \in [Partitions -> 0 .. LogLen]
    BY <1>2 DEF Inv, TypeOK, HostTypeOK
  <2>3. CASE position' = committed /\ Settled' = Settled
    BY <1>2, <2>2, <2>3 DEF Inv, CallInv, CallAt, Promise!FallBack, Promise!Next
  <2>4. CASE \A p \in Partitions : position[p] <= position'[p]
    <3>1. ASSUME NEW p \in Partitions, NEW o \in Offsets, o < position'[p]
          PROVE  <<p, o>> \in Settled'
      <4>0. position'[p] \in Nat /\ work'[p].at \in Nat /\ o \in Nat
        BY <1>2, DeliveryAssumption DEF Inv, TypeOK, HostTypeOK, Offsets
      <4>1. ~Idle(p)' => position'[p] <= work'[p].at
        BY <1>2 DEF Inv, CallInv, CallAt
      <4>2. o < Handled(p)'
        BY <3>1, <4>0, <4>1 DEF Handled
      <4>. QED
        BY <1>2, <4>2 DEF Inv, SettledInv
    <3>2. Promise!Below(position') \subseteq Settled'
      BY <1>0, <3>1 DEF Records, Promise!Below
    <3>3. Promise!Advance
      BY <1>0, <2>1, <2>2, <2>4, <3>2 DEF Promise!Advance
    <3>. QED
      BY <3>3 DEF Promise!Next
  <2>. QED
    BY <1>2, <2>3, <2>4, PositionGrows DEF Inv
<1>. QED
  BY <1>1, <1>2, Invariance, PTL DEF Spec, AtLeastOnceSpec, Promise!Spec
=============================================================================
