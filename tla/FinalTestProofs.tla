-------------------------- MODULE FinalTestProofs --------------------------
(***************************************************************************)
(* Proofs about ST-06 for every set of partitions, log length, batch size  *)
(* and number of faults.                                                   *)
(***************************************************************************)
EXTENDS FinalTest, FiniteSetTheorems, WellFoundedInduction, TLAPS

\* A non-empty set of offsets has a largest element, and Max names it.
LEMMA MaxOffset ==
  ASSUME NEW S \in SUBSET Offsets, S # {}
  PROVE  Max(S) \in S /\ \A o \in S : o <= Max(S)
<1>. DEFINE T == {n \in Nat : LogLen - n \in S}
<1>1. T # {} /\ T \subseteq Nat
  <2>1. PICK o \in S : TRUE
    OBVIOUS
  <2>2. o \in Nat /\ LogLen - o \in Nat /\ LogLen - (LogLen - o) = o
    BY LogAssumption DEF Offsets
  <2>. QED
    BY <2>1, <2>2
<1>2. IsWellFoundedOn({ss \in Nat \X Nat : ss[1] < ss[2]}, Nat)
  BY NatLessThanWellFounded DEF OpToRel
<1>3. PICK n \in T : \A m \in T : n <= m
  <2>. DEFINE R == {ss \in Nat \X Nat : ss[1] < ss[2]}
  <2>1. \E n \in T : \A m \in T : ~(<<m, n>> \in R)
    <3>. HIDE DEF R, T
    <3>1. IsWellFoundedOn(R, Nat)
      BY <1>2 DEF R
    <3>. QED
      BY <3>1, <1>1, WFMin
  <2>2. PICK n \in T : \A m \in T : ~(<<m, n>> \in R)
    BY <2>1
  <2>3. ASSUME NEW m \in T, ~(<<m, n>> \in R) PROVE n <= m
    <3>1. m \in Nat /\ n \in Nat
      OBVIOUS
    <3>2. ~(m < n)
      BY <2>3, <3>1
    <3>. QED
      BY <3>1, <3>2
  <2>. QED
    <3>. HIDE DEF R, T
    <3>. QED BY <2>2, <2>3
<1>4. LogLen - n \in S
  OBVIOUS
<1>5. \A o \in S : o <= LogLen - n
  <2>. SUFFICES ASSUME NEW o \in S PROVE o <= LogLen - n
    OBVIOUS
  <2>1. o \in Nat /\ LogLen - o \in Nat /\ LogLen - (LogLen - o) = o
    BY LogAssumption DEF Offsets
  <2>2. LogLen - o \in T
    BY <2>1
  <2>3. n <= LogLen - o /\ n \in Nat
    <3>1. n \in Nat
      OBVIOUS
    <3>. HIDE DEF T
    <3>. QED BY <3>1, <2>2, <1>3
  <2>. QED
    BY <2>1, <2>3, LogAssumption
<1>6. \E x \in S : \A y \in S : x >= y
  <2>1. \A y \in S : LogLen - n >= y
    BY <1>5, LogAssumption DEF Offsets
  <2>. QED
    BY <1>4, <2>1
<1>7. Max(S) \in S /\ \A y \in S : Max(S) >= y
  BY <1>6 DEF Max
<1>. QED
  BY <1>7, LogAssumption DEF Offsets

\* commit_positions() stays on the log, and names one past the last record.
LEMMA CommitPositionsType ==
  ASSUME NEW b \in [Records -> Nat], TypeOK
  PROVE  /\ CommitPositions(b) \in [Partitions -> 0 .. LogLen]
         /\ \A p \in Partitions : Held(b, p) = {} => CommitPositions(b)[p] = committed[p]
         /\ \A p \in Partitions : Held(b, p) # {} =>
              \E o \in Offsets : /\ b[<<p, o>>] > 0
                                 /\ CommitPositions(b)[p] = o + 1
                                 /\ \A q \in Offsets : b[<<p, q>>] > 0 => q <= o
<1>1. ASSUME NEW p \in Partitions, Held(b, p) # {}
      PROVE  /\ Max(Held(b, p)) \in Offsets
             /\ b[<<p, Max(Held(b, p))>>] > 0
             /\ \A q \in Offsets : b[<<p, q>>] > 0 => q <= Max(Held(b, p))
  <2>1. Held(b, p) \in SUBSET Offsets
    BY DEF Held
  <2>2. Max(Held(b, p)) \in Held(b, p) /\ \A o \in Held(b, p) : o <= Max(Held(b, p))
    BY <1>1, <2>1, MaxOffset
  <2>. QED
    BY <2>2 DEF Held
<1>2. ASSUME NEW p \in Partitions
      PROVE  CommitPositions(b)[p] \in 0 .. LogLen
  <2>1. CASE Held(b, p) = {}
    BY <2>1 DEF CommitPositions, TypeOK
  <2>2. CASE Held(b, p) # {}
    <3>1. Max(Held(b, p)) \in Offsets
      BY <2>2, <1>1
    <3>. DEFINE m == Max(Held(b, p))
    <3>2. m + 1 \in 0 .. LogLen
      BY <3>1, LogAssumption DEF Offsets
    <3>. HIDE DEF m
    <3>3. CommitPositions(b)[p] = m + 1
      BY <2>2 DEF CommitPositions, m
    <3>. QED
      BY <3>2, <3>3
  <2>. QED
    BY <2>1, <2>2
<1>3. CommitPositions(b) \in [Partitions -> 0 .. LogLen]
  BY <1>2 DEF CommitPositions
<1>4. \A p \in Partitions : Held(b, p) = {} => CommitPositions(b)[p] = committed[p]
  BY DEF CommitPositions
<1>5. ASSUME NEW p \in Partitions, Held(b, p) # {}
      PROVE  \E o \in Offsets : /\ b[<<p, o>>] > 0
                                /\ CommitPositions(b)[p] = o + 1
                                /\ \A q \in Offsets : b[<<p, q>>] > 0 => q <= o
  BY <1>1, <1>5 DEF CommitPositions
<1>. QED
  BY <1>3, <1>4, <1>5

-----------------------------------------------------------------------------
(***************************************************************************)
(* Type correctness.                                                       *)
(***************************************************************************)

\* The empty transaction has its type.
LEMMA NoTxnType == Empty \in [Records -> Nat] /\ NoTxn \in Transactions
<1>1. Empty \in [Records -> Nat]
  BY DEF Empty
<1>. QED
  BY <1>1 DEF NoTxn, Transactions

\* The state of a fresh station.
LEMMA InitTypeOK == Init => TypeOK
<1>1. Init => /\ shipped \in [Topics -> [Records -> Nat]]
              /\ pos \in [Partitions -> 0 .. LogLen]
              /\ committed \in [Partitions -> 0 .. LogLen]
  BY NoTxnType, LogAssumption DEF Init
<1>2. Init => faults \in 0 .. MaxFaults /\ held \in Nat /\ batches \in Nat /\ reported \in Nat
  BY FaultAssumption DEF Init
<1>. QED
  BY <1>1, <1>2, NoTxnType DEF Init, TypeOK

\* A step keeps the types.
LEMMA StepTypeOK == TypeOK /\ [Next]_vars => TypeOK'
<1>. SUFFICES ASSUME TypeOK, [Next]_vars PROVE TypeOK'
  OBVIOUS
<1>. USE LogAssumption, FaultAssumption, NoTxnType
     DEF TypeOK, Steps, Fault, station, broker, history
<1>1. CASE Open
  BY <1>1 DEF Open
<1>2. ASSUME NEW p \in Partitions, Deliver(p) PROVE TypeOK'
  <2>1. <<p, pos[p]>> \in Records
    BY <1>2 DEF Deliver, Records, Offsets
  <2>2. batch' \in [Records -> Nat]
    BY <1>2, <2>1 DEF Deliver
  <2>3. pos' \in [Partitions -> 0 .. LogLen]
    BY <1>2 DEF Deliver
  <2>. QED
    BY <1>2, <2>2, <2>3 DEF Deliver
<1>3. CASE StreamEnd
  BY <1>3 DEF StreamEnd
<1>4. CASE Begin
  BY <1>4 DEF Begin, NoTxn, Transactions, Topics
<1>5. CASE BeginFails
  BY <1>5 DEF BeginFails, AfterErr
<1>6. ASSUME NEW t \in Topics, Send(t) PROVE TypeOK'
  BY <1>6 DEF Send, AfterSend, Transactions, Topics
<1>7. CASE SendOffsets
  BY <1>7 DEF SendOffsets, Transactions
<1>8. CASE StepFails
  BY <1>8 DEF StepFails
<1>9. CASE Commit
  BY <1>9 DEF Commit, Transactions
<1>10. CASE CommitOk
  BY <1>10 DEF CommitOk
<1>11. CASE CommitFails
  BY <1>11 DEF CommitFails
<1>12. CASE Abort
  BY <1>12 DEF Abort, AfterErr
<1>13. CASE ReportTxn
  BY <1>13 DEF ReportTxn
<1>14. CASE ReportAbort
  BY <1>14 DEF ReportAbort
<1>15. CASE Close
  BY <1>15 DEF Close, Exit
<1>16. CASE Crash
  <2>1. faults' \in 0 .. MaxFaults
    BY <1>16 DEF Crash
  <2>. QED
    BY <1>16, <2>1 DEF Crash, Exit
<1>17. CASE CommitApplied
  <2>1. committed' \in [Partitions -> 0 .. LogLen]
    BY <1>17, CommitPositionsType DEF CommitApplied, Transactions
  <2>2. \A t \in Topics, r \in Records : shipped[t][r] \in Nat /\ txn.batch[r] \in Nat
    BY DEF Transactions
  <2>3. shipped' \in [Topics -> [Records -> Nat]]
    BY <1>17, <2>2 DEF CommitApplied
  <2>4. txn' \in Transactions
    BY <1>17 DEF CommitApplied, Transactions
  <2>. QED
    BY <1>17, <2>1, <2>3, <2>4 DEF CommitApplied
<1>18. CASE TxnTimeout
  BY <1>18 DEF TxnTimeout
<1>19. CASE Rebalance
  BY <1>19 DEF Rebalance
<1>20. CASE UNCHANGED vars
  BY <1>20 DEF vars
<1>. QED
  BY <1>1, <1>2, <1>3, <1>4, <1>5, <1>6, <1>7, <1>8, <1>9, <1>10, <1>11, <1>12,
     <1>13, <1>14, <1>15, <1>16, <1>17, <1>18, <1>19, <1>20
     DEF Next, Station, Coordinator

\* Every reachable state of ST-06 is well typed: in particular no commit
\* moves the group past the end of a partition.
THEOREM TypeCorrect == Spec => []TypeOK
  BY InitTypeOK, StepTypeOK, PTL DEF Spec

-----------------------------------------------------------------------------
(***************************************************************************)
(* The parts of the inductive invariant, one lemma each.                   *)
(***************************************************************************)

\* The transaction of a process at work is its own and holds what it has sent.
LEMMA StepTxnInv == TypeOK /\ TxnInv /\ [Next]_vars => TxnInv'
<1>. SUFFICES ASSUME TypeOK, TxnInv, [Next]_vars PROVE TxnInv'
  OBVIOUS
<1>. USE DEF TxnInv, Open_, NoTxn, Topics, station, broker, history
<1>1. CASE Open
  BY <1>1 DEF Open, OffsetsPending
<1>2. ASSUME NEW p \in Partitions, Deliver(p) PROVE TxnInv'
  BY <1>2 DEF Deliver
<1>3. CASE StreamEnd
  BY <1>3 DEF StreamEnd
<1>4. CASE Begin
  BY <1>4 DEF Begin, NoTxn, SentBefore, Topics
<1>5. CASE BeginFails
  BY <1>5 DEF BeginFails, AfterErr
<1>6. ASSUME NEW t \in Topics, Send(t) PROVE TxnInv'
  <2>1. CASE t = "dispositions"
    BY <1>6, <2>1 DEF Send, AfterSend, SentBefore, Topics, TypeOK, Transactions
  <2>2. CASE t = "moves"
    BY <1>6, <2>2 DEF Send, AfterSend, SentBefore, Topics, TypeOK, Transactions
  <2>3. CASE t = "metrics"
    BY <1>6, <2>3 DEF Send, AfterSend, SentBefore, Topics, TypeOK, Transactions
  <2>. QED
    BY <2>1, <2>2, <2>3 DEF Topics
<1>7. CASE SendOffsets
  BY <1>7 DEF SendOffsets, SentBefore, Topics, TypeOK, Transactions
<1>8. CASE StepFails
  BY <1>8 DEF StepFails, Topics
<1>9. CASE Commit
  BY <1>9 DEF Commit, SentBefore, Topics, TypeOK, Transactions
<1>10. CASE CommitOk
  BY <1>10 DEF CommitOk
<1>11. CASE CommitFails
  BY <1>11 DEF CommitFails
<1>12. CASE Abort
  BY <1>12 DEF Abort, AfterErr
<1>13. CASE ReportTxn
  BY <1>13 DEF ReportTxn
<1>14. CASE ReportAbort
  BY <1>14 DEF ReportAbort
<1>15. CASE Close
  BY <1>15 DEF Close, Exit
<1>16. CASE Crash
  BY <1>16 DEF Crash, Exit
<1>17. CASE CommitApplied
  BY <1>17 DEF CommitApplied, Topics, TypeOK, Transactions
<1>18. CASE TxnTimeout
  BY <1>18 DEF TxnTimeout
<1>19. CASE Rebalance
  BY <1>19 DEF Rebalance
<1>20. CASE UNCHANGED vars
  BY <1>20 DEF vars
<1>. QED
  BY <1>1, <1>2, <1>3, <1>4, <1>5, <1>6, <1>7, <1>8, <1>9, <1>10, <1>11, <1>12,
     <1>13, <1>14, <1>15, <1>16, <1>17, <1>18, <1>19, <1>20
     DEF Next, Station, Coordinator

\* A process about to report has a committed batch that is not reported yet.
LEMMA StepReportInv == TypeOK /\ TxnInv /\ ReportInv /\ [Next]_vars => ReportInv'
<1>. SUFFICES ASSUME TypeOK, TxnInv, ReportInv, [Next]_vars PROVE ReportInv'
  OBVIOUS
<1>. USE DEF ReportInv, NoTxn, station, broker, history
<1>1. CASE Open
  BY <1>1 DEF Open
<1>2. ASSUME NEW p \in Partitions, Deliver(p) PROVE ReportInv'
  BY <1>2 DEF Deliver
<1>3. CASE StreamEnd
  BY <1>3 DEF StreamEnd
<1>4. CASE Begin
  BY <1>4 DEF Begin, NoTxn
<1>5. CASE BeginFails
  BY <1>5 DEF BeginFails, AfterErr
<1>6. ASSUME NEW t \in Topics, Send(t) PROVE ReportInv'
  BY <1>6 DEF Send, AfterSend, TypeOK, Transactions, Topics
<1>7. CASE SendOffsets
  BY <1>7 DEF SendOffsets
<1>8. CASE StepFails
  BY <1>8 DEF StepFails
<1>9. CASE Commit
  BY <1>9 DEF Commit, TxnInv, TypeOK, Transactions
<1>10. CASE CommitOk
  BY <1>10 DEF CommitOk
<1>11. CASE CommitFails
  BY <1>11 DEF CommitFails
<1>12. CASE Abort
  BY <1>12 DEF Abort, AfterErr
<1>13. CASE ReportTxn
  BY <1>13 DEF ReportTxn, TypeOK
<1>14. CASE ReportAbort
  BY <1>14 DEF ReportAbort
<1>15. CASE Close
  BY <1>15 DEF Close, Exit
<1>16. CASE Crash
  BY <1>16 DEF Crash, Exit
<1>17. CASE CommitApplied
  BY <1>17 DEF CommitApplied, TxnInv, TypeOK, Transactions
<1>18. CASE TxnTimeout
  BY <1>18 DEF TxnTimeout
<1>19. CASE Rebalance
  BY <1>19 DEF Rebalance
<1>20. CASE UNCHANGED vars
  BY <1>20 DEF vars
<1>. QED
  BY <1>1, <1>2, <1>3, <1>4, <1>5, <1>6, <1>7, <1>8, <1>9, <1>10, <1>11, <1>12,
     <1>13, <1>14, <1>15, <1>16, <1>17, <1>18, <1>19, <1>20
     DEF Next, Station, Coordinator

\* Only the coordinator's commit makes outputs visible or moves the group.
LEMMA OnlyCommitShips == [Next]_vars => CommitApplied \/ UNCHANGED <<shipped, committed>>
  BY DEF Next, Station, Coordinator, vars, station, broker, history, Open, Deliver,
     StreamEnd, Begin, BeginFails, Send, SendOffsets, StepFails, Commit, CommitOk,
     CommitFails, Abort, ReportTxn, ReportAbort, Close, Crash, Exit, TxnTimeout, Rebalance

\* A batch that spans from the committed position to the stream's commits the
\* stream's position.
LEMMA SpansCommits ==
  ASSUME NEW b \in [Records -> Nat], TypeOK, Spans(b),
         \A p \in Partitions : committed[p] <= pos[p]
  PROVE  CommitPositions(b) = pos
<1>1. ASSUME NEW p \in Partitions PROVE CommitPositions(b)[p] = pos[p]
  <2>1. committed[p] \in 0 .. LogLen /\ pos[p] \in 0 .. LogLen /\ committed[p] <= pos[p]
    BY DEF TypeOK
  <2>2. \A o \in Offsets : b[<<p, o>>] > 0 <=> (committed[p] <= o /\ o < pos[p])
    BY DEF Spans, Records
  <2>3. CASE Held(b, p) = {}
    <3>1. ASSUME committed[p] < pos[p] PROVE FALSE
      <4>1. committed[p] \in Offsets
        BY <3>1, <2>1, LogAssumption DEF Offsets
      <4>2. b[<<p, committed[p]>>] > 0
        BY <4>1, <2>2, <2>1, <3>1
      <4>. QED
        BY <4>1, <4>2, <2>3 DEF Held
    <3>. QED
      BY <3>1, <2>1, <2>3, CommitPositionsType
  <2>4. CASE Held(b, p) # {}
    <3>1. PICK o \in Offsets : /\ b[<<p, o>>] > 0
                               /\ CommitPositions(b)[p] = o + 1
                               /\ \A q \in Offsets : b[<<p, q>>] > 0 => q <= o
      BY <2>4, CommitPositionsType
    <3>2. o \in Nat /\ committed[p] <= o /\ o < pos[p]
      BY <3>1, <2>2, LogAssumption DEF Offsets
    <3>3. pos[p] - 1 \in Offsets /\ committed[p] <= pos[p] - 1 /\ pos[p] - 1 < pos[p]
      BY <2>1, <3>2, LogAssumption DEF Offsets
    <3>4. pos[p] - 1 <= o
      BY <3>1, <3>3, <2>2
    <3>. QED
      BY <3>1, <3>2, <3>4, <2>1
  <2>. QED
    BY <2>3, <2>4
<1>2. CommitPositions(b) \in [Partitions -> 0 .. LogLen] /\ pos \in [Partitions -> 0 .. LogLen]
  BY CommitPositionsType DEF TypeOK
<1>. QED
  BY <1>1, <1>2

\* Exactly once until a rewind: the batch, or the transaction that is being
\* decided, is the gap between the committed position and the stream's.
LEMMA StepOnceInv == TypeOK /\ TxnInv /\ OnceInv /\ [Next]_vars => OnceInv'
<1>. SUFFICES ASSUME TypeOK, TxnInv, OnceInv, [Next]_vars PROVE OnceInv'
  OBVIOUS
<1>. USE DEF OnceInv, Filling, Topics, Open_, NoTxn, station, broker, history
<1>1. CASE Open
  BY <1>1, LogAssumption DEF Open, TypeOK, Spans, ExactlyOnce, Records, Offsets, OffsetsPending, Empty, TxnInv
<1>2. ASSUME NEW p \in Partitions, Deliver(p) PROVE OnceInv'
  <2>. SUFFICES ASSUME ~rewound PROVE OnceInv'
    BY <1>2 DEF Deliver
  <2>1. Spans(batch) /\ committed[p] <= pos[p] /\ pos[p] \in Offsets
    BY <1>2, LogAssumption DEF Deliver, TypeOK, Offsets
  <2>2. /\ pos' = [pos EXCEPT ![p] = @ + 1]
        /\ batch' = [batch EXCEPT ![<<p, pos[p]>>] = @ + 1]
        /\ committed' = committed /\ shipped' = shipped /\ txn' = txn
        /\ pc' \in {"read", "begin"} /\ pc = "read" /\ rewound' = rewound
    BY <1>2 DEF Deliver
  <2>3. ASSUME NEW r \in Records
        PROVE  batch'[r] = IF committed[r[1]] <= r[2] /\ r[2] < pos'[r[1]] THEN 1 ELSE 0
    <3>. PICK q \in Partitions, o \in Offsets : r = <<q, o>>
      BY DEF Records
    <3>1. o \in Nat /\ pos[q] \in Nat /\ committed[q] \in Nat /\ pos[p] \in Nat
      BY LogAssumption DEF Offsets, TypeOK
    <3>2. batch[<<q, o>>] = IF committed[q] <= o /\ o < pos[q] THEN 1 ELSE 0
      BY <2>1 DEF Spans
    <3>3. CASE q = p /\ o = pos[p]
      BY <2>1, <2>2, <3>1, <3>2, <3>3 DEF TypeOK
    <3>4. CASE q = p /\ o # pos[p]
      <4>1. batch'[r] = batch[r] /\ pos'[q] = pos[q] + 1
        BY <2>2, <3>4 DEF TypeOK
      <4>. QED
        BY <4>1, <3>1, <3>2, <3>4
    <3>5. CASE q # p
      <4>1. batch'[r] = batch[r] /\ pos'[q] = pos[q]
        BY <2>2, <3>5 DEF TypeOK
      <4>. QED
        BY <4>1, <3>2
    <3>. QED
      BY <3>3, <3>4, <3>5
  <2>4. Spans(batch)'
    BY <2>2, <2>3 DEF Spans
  <2>5. ASSUME NEW q \in Partitions PROVE committed'[q] <= pos'[q]
    <3>1. committed[q] \in Nat /\ pos[q] \in Nat /\ committed[q] <= pos[q]
      BY <2>2 DEF TypeOK
    <3>2. pos'[q] = pos[q] \/ pos'[q] = pos[q] + 1
      BY <2>2 DEF TypeOK
    <3>. QED
      BY <2>2, <3>1, <3>2
  <2>6. txn.phase # "committing"
    BY <2>2 DEF TxnInv
  <2>. QED
    BY <2>2, <2>4, <2>5, <2>6 DEF ExactlyOnce
<1>3. CASE StreamEnd
  BY <1>3 DEF StreamEnd, Spans, ExactlyOnce
<1>4. CASE Begin
  BY <1>4 DEF Begin, NoTxn, Spans, ExactlyOnce
<1>5. CASE BeginFails
  BY <1>5 DEF BeginFails, AfterErr, Spans, ExactlyOnce
<1>6. ASSUME NEW t \in Topics, Send(t) PROVE OnceInv'
  BY <1>6 DEF Send, AfterSend, TypeOK, Transactions, Spans, ExactlyOnce
<1>7. CASE SendOffsets
  BY <1>7 DEF SendOffsets, TypeOK, Transactions, Spans, ExactlyOnce
<1>8. CASE StepFails
  BY <1>8 DEF StepFails, Spans, ExactlyOnce
<1>9. CASE Commit
  BY <1>9 DEF Commit, TxnInv, TypeOK, Transactions, Spans, ExactlyOnce
<1>10. CASE CommitOk
  BY <1>10 DEF CommitOk, Spans, ExactlyOnce
<1>11. CASE CommitFails
  BY <1>11 DEF CommitFails, Spans, ExactlyOnce
<1>12. CASE Abort
  BY <1>12 DEF Abort, AfterErr, Spans, ExactlyOnce
<1>13. CASE ReportTxn
  <2>1. \A r \in Records : ~(pos[r[1]] <= r[2] /\ r[2] < pos[r[1]])
    BY LogAssumption DEF Records, Offsets, TypeOK
  <2>2. ~rewound => committed = pos
    BY <1>13 DEF ReportTxn
  <2>. QED
    BY <1>13, <2>1, <2>2 DEF ReportTxn, Empty, TxnInv, Spans, ExactlyOnce
<1>14. CASE ReportAbort
  BY <1>14 DEF ReportAbort, Spans, ExactlyOnce
<1>15. CASE Close
  BY <1>15 DEF Close, Exit, Spans, ExactlyOnce
<1>16. CASE Crash
  BY <1>16 DEF Crash, Exit, Spans, ExactlyOnce
<1>17. CASE CommitApplied
  <2>. SUFFICES ASSUME ~rewound PROVE OnceInv'
    BY <1>17 DEF CommitApplied
  <2>. DEFINE b == txn.batch
  <2>1. Spans(b) /\ txn.sent = Topics /\ txn.offsets /\ b \in [Records -> Nat]
    BY <1>17 DEF CommitApplied, TxnInv, TypeOK, Transactions
  <2>2. committed' = CommitPositions(b)
    BY <1>17, <2>1 DEF CommitApplied
  <2>. HIDE DEF b
  <2>3. committed' = pos
    BY <2>1, <2>2, SpansCommits
  <2>4. \A t \in Topics, r \in Records :
          shipped'[t][r] = IF Carries(t, r) THEN shipped[t][r] + b[r] ELSE shipped[t][r]
    BY <1>17, <2>1 DEF CommitApplied, b
  <2>5. ExactlyOnce'
    <3>. SUFFICES ASSUME NEW t \in Topics, NEW r \in Records
                  PROVE  shipped'[t][r] = IF Carries(t, r) /\ r[2] < pos[r[1]] THEN 1 ELSE 0
      BY <2>3 DEF ExactlyOnce, Carries
    <3>1. /\ shipped[t][r] = IF Carries(t, r) /\ r[2] < committed[r[1]] THEN 1 ELSE 0
          /\ b[r] = IF committed[r[1]] <= r[2] /\ r[2] < pos[r[1]] THEN 1 ELSE 0
          /\ committed[r[1]] <= pos[r[1]]
      BY <2>1 DEF ExactlyOnce, Spans, Records
    <3>2. r[2] \in Nat /\ committed[r[1]] \in Nat /\ pos[r[1]] \in Nat
      BY LogAssumption DEF Records, Offsets, TypeOK
    <3>. QED
      BY <3>1, <3>2, <2>4
  <2>6. /\ pc' = pc /\ pos' = pos /\ txn'.phase = "committed"
        /\ pc \in {"commit_wait", "abort", "report_abort", "close", "down"}
    BY <1>17 DEF CommitApplied, TxnInv, TypeOK, Transactions
  <2>7. \A p \in Partitions : committed'[p] <= pos'[p]
    BY <2>3, <2>6, LogAssumption DEF TypeOK
  <2>8. pc' \notin Filling /\ txn'.phase # "committing"
    BY <2>6
  <2>9. committed' = pos'
    BY <2>3, <2>6
  <2>. QED
    BY <2>5, <2>7, <2>8, <2>9
<1>18. CASE TxnTimeout
  BY <1>18 DEF TxnTimeout, Spans, ExactlyOnce
<1>19. CASE Rebalance
  <2>. SUFFICES ASSUME ~rewound' PROVE OnceInv'
    OBVIOUS
  <2>1. ~rewound /\ pos' = pos
    BY <1>19 DEF Rebalance
  <2>. QED
    BY <1>19, <2>1 DEF Rebalance, Spans, ExactlyOnce
<1>20. CASE UNCHANGED vars
  BY <1>20 DEF vars, Spans, ExactlyOnce
<1>. QED
  BY <1>1, <1>2, <1>3, <1>4, <1>5, <1>6, <1>7, <1>8, <1>9, <1>10, <1>11, <1>12,
     <1>13, <1>14, <1>15, <1>16, <1>17, <1>18, <1>19, <1>20
     DEF Next, Station, Coordinator

\* The topics agree because a transaction that commits holds a send to each.
LEMMA StepTopicsAgree == TypeOK /\ TxnInv /\ TopicsAgree /\ [Next]_vars => TopicsAgree'
<1>. SUFFICES ASSUME TypeOK, TxnInv, TopicsAgree, [Next]_vars PROVE TopicsAgree'
  OBVIOUS
<1>1. CASE UNCHANGED <<shipped, committed>>
  BY <1>1 DEF TopicsAgree, Carries
<1>2. CASE CommitApplied
  <2>1. \A t \in Topics, r \in Records :
          shipped'[t][r] = IF Carries(t, r) THEN shipped[t][r] + txn.batch[r]
                                            ELSE shipped[t][r]
    BY <1>2 DEF CommitApplied, TxnInv
  <2>. QED
    BY <2>1 DEF TopicsAgree, Carries
<1>. QED
  BY <1>1, <1>2, OnlyCommitShips

\* Nothing is lost: what lies before a record in hand is in hand or shipped,
\* so the position a batch commits has nothing unshipped behind it.
LEMMA StepLossInv == TypeOK /\ TxnInv /\ LossInv /\ [Next]_vars => LossInv'
<1>. SUFFICES ASSUME TypeOK, TxnInv, LossInv, [Next]_vars PROVE LossInv'
  OBVIOUS
<1>. USE DEF LossInv, Filling, Topics, Open_, NoTxn, station, broker, history
<1>1. CASE Open
  <2>1. batch = Empty /\ \A r \in Records : Empty[r] = 0
    BY <1>1 DEF Open, TxnInv, Empty
  <2>. QED
    BY <1>1, <2>1 DEF Open, OffsetsPending, TxnInv, Closed, Covered, Shipped, NothingLost
<1>2. ASSUME NEW p \in Partitions, Deliver(p) PROVE LossInv'
  <2>1. /\ pos' = [pos EXCEPT ![p] = @ + 1] /\ pos[p] \in Offsets
        /\ batch' = [batch EXCEPT ![<<p, pos[p]>>] = @ + 1]
        /\ committed' = committed /\ shipped' = shipped /\ txn' = txn
        /\ pc' \in {"read", "begin"} /\ pc = "read"
    BY <1>2, LogAssumption DEF Deliver, TypeOK, Offsets
  <2>2. \A r \in Records : batch'[r] > 0 <=> (batch[r] > 0 \/ r = <<p, pos[p]>>)
    <3>1. <<p, pos[p]>> \in Records
      BY <2>1 DEF Records
    <3>. QED
      BY <2>1, <3>1 DEF TypeOK
  <2>3. ASSUME NEW r \in Records, r[2] < pos'[r[1]]
        PROVE  r[2] < pos[r[1]] \/ r = <<p, pos[p]>>
    <3>. PICK q \in Partitions, o \in Offsets : r = <<q, o>>
      BY DEF Records
    <3>1. o \in Nat /\ pos[q] \in Nat /\ pos[p] \in Nat
      BY LogAssumption DEF Offsets, TypeOK
    <3>2. CASE q = p
      <4>1. o < pos[p] + 1
        BY <2>1, <2>3, <3>2 DEF TypeOK
      <4>. QED
        BY <4>1, <3>1, <3>2
    <3>3. CASE q # p
      <4>1. o < pos[q]
        BY <2>1, <2>3, <3>3 DEF TypeOK
      <4>. QED
        BY <4>1
    <3>. QED
      BY <3>2, <3>3
  <2>4. Closed(batch) /\ \A r \in Records : r[2] < pos[r[1]] => Covered(batch, r)
    BY <2>1
  <2>5. \A r \in Records : Covered(batch, r) \/ r = <<p, pos[p]>> => Covered(batch, r)'
    BY <2>1, <2>2 DEF Covered, Shipped
  <2>6. \A r \in Records : r[2] < pos'[r[1]] => Covered(batch, r)'
    BY <2>3, <2>4, <2>5
  <2>7. ASSUME NEW r \in Records, NEW x \in Records,
               batch'[r] > 0, x[1] = r[1], x[2] < r[2]
        PROVE  Covered(batch, x)'
    BY <2>2, <2>4, <2>5, <2>7 DEF Closed
  <2>8. Closed(batch)'
    BY <2>7 DEF Closed, Covered, Shipped
  <2>. QED
    BY <2>1, <2>6, <2>8 DEF TxnInv, NothingLost
<1>3. CASE StreamEnd
  BY <1>3 DEF StreamEnd, Closed, Covered, Shipped, NothingLost
<1>4. CASE Begin
  BY <1>4 DEF Begin, Closed, Covered, Shipped, NothingLost
<1>5. CASE BeginFails
  BY <1>5 DEF BeginFails, AfterErr, Closed, Covered, Shipped, NothingLost
<1>6. ASSUME NEW t \in Topics, Send(t) PROVE LossInv'
  BY <1>6 DEF Send, AfterSend, TypeOK, Transactions, Closed, Covered, Shipped, NothingLost
<1>7. CASE SendOffsets
  BY <1>7 DEF SendOffsets, TypeOK, Transactions, Closed, Covered, Shipped, NothingLost
<1>8. CASE StepFails
  BY <1>8 DEF StepFails, Closed, Covered, Shipped, NothingLost
<1>9. CASE Commit
  BY <1>9 DEF Commit, TxnInv, TypeOK, Transactions, Closed, Covered, Shipped, NothingLost
<1>10. CASE CommitOk
  BY <1>10 DEF CommitOk, Closed, Covered, Shipped, NothingLost
<1>11. CASE CommitFails
  BY <1>11 DEF CommitFails, Closed, Covered, Shipped, NothingLost
<1>12. CASE Abort
  BY <1>12 DEF Abort, AfterErr, Closed, Covered, Shipped, NothingLost
<1>13. CASE ReportTxn
  <2>1. \A r \in Records : Empty[r] = 0
    BY DEF Empty
  <2>. QED
    BY <1>13, <2>1 DEF ReportTxn, TxnInv, Closed, Covered, Shipped, NothingLost
<1>14. CASE ReportAbort
  BY <1>14 DEF ReportAbort, Closed, Covered, Shipped, NothingLost
<1>15. CASE Close
  BY <1>15 DEF Close, Exit, Closed, Covered, Shipped, NothingLost
<1>16. CASE Crash
  BY <1>16 DEF Crash, Exit, Closed, Covered, Shipped, NothingLost
<1>17. CASE CommitApplied
  <2>. DEFINE b == txn.batch
  <2>1. /\ Closed(b) /\ txn.sent = Topics /\ txn.offsets /\ b \in [Records -> Nat]
        /\ txn.phase = "committing"
    BY <1>17 DEF CommitApplied, TxnInv, TypeOK, Transactions
  <2>2. committed' = CommitPositions(b)
    BY <1>17, <2>1 DEF CommitApplied
  <2>3. \A t \in Topics, r \in Records :
          shipped'[t][r] = IF Carries(t, r) THEN shipped[t][r] + b[r] ELSE shipped[t][r]
    BY <1>17, <2>1 DEF CommitApplied
  <2>4. /\ pc' = pc /\ pos' = pos /\ batch' = batch /\ txn'.phase = "committed"
        /\ pc \in {"commit_wait", "abort", "report_abort", "close", "down"}
        /\ pc = "commit_wait" => b = batch
    BY <1>17, <2>1 DEF CommitApplied, TxnInv, TypeOK, Transactions
  <2>. HIDE DEF b
  <2>5. \A r \in Records : Covered(b, r) => Shipped(r)'
    <3>. SUFFICES ASSUME NEW r \in Records, Covered(b, r), NEW t \in Topics, Carries(t, r)
                  PROVE  shipped'[t][r] >= 1
      BY DEF Shipped, Carries
    <3>1. shipped[t][r] \in Nat /\ b[r] \in Nat
      BY <2>1 DEF TypeOK
    <3>. QED
      BY <3>1, <2>3 DEF Covered, Shipped
  <2>6. ASSUME NEW r \in Records, r[2] < committed'[r[1]] PROVE Shipped(r)'
    <3>. PICK p \in Partitions, k \in Offsets : r = <<p, k>>
      BY DEF Records
    <3>1. CASE Held(b, p) = {}
      <4>1. k < committed[p]
        BY <2>1, <2>2, <2>6, <3>1, CommitPositionsType
      <4>2. Shipped(r)
        BY <4>1 DEF NothingLost, Shipped
      <4>. QED
        BY <4>2, <2>5 DEF Covered
    <3>2. CASE Held(b, p) # {}
      <4>1. PICK o \in Offsets : b[<<p, o>>] > 0 /\ CommitPositions(b)[p] = o + 1
        BY <2>1, <3>2, CommitPositionsType
      <4>2. k < o + 1 /\ k \in Nat /\ o \in Nat
        BY <4>1, <2>2, <2>6, LogAssumption DEF Offsets
      <4>3. CASE k = o
        BY <4>1, <4>3, <2>5 DEF Covered
      <4>4. CASE k < o
        <5>1. <<p, o>> \in Records
          BY DEF Records
        <5>2. Covered(b, r)
          BY <2>1, <4>1, <4>4, <5>1 DEF Closed
        <5>. QED
          BY <5>2, <2>5
      <4>. QED
        BY <4>2, <4>3, <4>4
    <3>. QED
      BY <3>1, <3>2
  <2>7. NothingLost'
    BY <2>6 DEF NothingLost, Shipped
  <2>8. \A r \in Records : Covered(batch, r) => Covered(batch, r)'
    <3>1. \A r \in Records : Shipped(r) => Shipped(r)'
      BY <2>5 DEF Covered
    <3>. QED
      BY <3>1, <2>4 DEF Covered
  <2>9. pc' = "commit_wait" =>
          /\ Closed(batch)'
          /\ \A r \in Records : r[2] < pos'[r[1]] => Covered(batch, r)' /\ Shipped(r)'
    BY <2>4, <2>5, <2>8 DEF Closed
  <2>. QED
    BY <2>4, <2>7, <2>9
<1>18. CASE TxnTimeout
  BY <1>18 DEF TxnTimeout, Closed, Covered, Shipped, NothingLost
<1>19. CASE Rebalance
  <2>1. \A r \in Records : r[2] < pos'[r[1]] => Shipped(r)
    BY <1>19 DEF Rebalance, Shipped, NothingLost
  <2>. QED
    BY <1>19, <2>1 DEF Rebalance, Closed, Covered, Shipped, NothingLost
<1>20. CASE UNCHANGED vars
  BY <1>20 DEF vars, Closed, Covered, Shipped, NothingLost
<1>. QED
  BY <1>1, <1>2, <1>3, <1>4, <1>5, <1>6, <1>7, <1>8, <1>9, <1>10, <1>11, <1>12,
     <1>13, <1>14, <1>15, <1>16, <1>17, <1>18, <1>19, <1>20
     DEF Next, Station, Coordinator

-----------------------------------------------------------------------------
(***************************************************************************)
(* The results.                                                            *)
(***************************************************************************)

\* The inductive invariant at the start.
LEMMA InitInv == Init => Inv
<1>. SUFFICES ASSUME Init PROVE Inv
  OBVIOUS
<1>1. /\ \A r \in Records : Empty[r] = 0
      /\ \A p \in Partitions : committed[p] = 0 /\ pos[p] = 0
      /\ \A r \in Records : r[1] \in Partitions /\ r[2] \in Nat
  BY LogAssumption DEF Init, Empty, Records, Offsets
<1>2. TypeOK
  BY InitTypeOK
<1>3. TxnInv /\ ReportInv /\ TopicsAgree
  BY DEF Init, TxnInv, ReportInv, TopicsAgree, NoTxn, Topics
<1>4. \A t \in Topics, r \in Records : shipped[t][r] = 0 /\ ~(r[2] < committed[r[1]])
  BY <1>1 DEF Init
<1>5. OnceInv
  BY <1>1, <1>4 DEF Init, OnceInv, ExactlyOnce, NoTxn, Filling, Topics
<1>6. LossInv
  BY <1>4 DEF Init, LossInv, NothingLost, NoTxn, Filling, Topics
<1>. QED
  BY <1>2, <1>3, <1>5, <1>6 DEF Inv

\* The inductive invariant holds of every behaviour of ST-06.
THEOREM Invariance == Spec => []Inv
<1>1. Inv /\ [Next]_vars => Inv'
  BY StepTypeOK, StepTxnInv, StepReportInv, StepTopicsAgree, StepOnceInv, StepLossInv
     DEF Inv
<1>. QED
  BY InitInv, <1>1, PTL DEF Spec

\* Through every crash, lost commit answer, failed abort, timeout and fencing,
\* each record below the committed position is shipped exactly once per topic
\* and none above it, until a rebalance rewinds a batch in hand.
THEOREM ExactlyOnceTheorem == Spec => []ExactlyOnceUntilRewind
<1>1. Inv => ExactlyOnceUntilRewind
  BY DEF Inv, OnceInv, ExactlyOnceUntilRewind
<1>. QED
  BY <1>1, Invariance, PTL

\* No unit below the committed position is missing from a topic, rebalances or not.
THEOREM NothingLostTheorem == Spec => []NothingLost
<1>1. Inv => NothingLost
  BY DEF Inv, LossInv
<1>. QED
  BY <1>1, Invariance, PTL

\* Dispositions, moves and metrics agree on every unit, rebalances or not.
THEOREM TopicsAgreeTheorem == Spec => []TopicsAgree
<1>1. Inv => TopicsAgree
  BY DEF Inv
<1>. QED
  BY <1>1, Invariance, PTL

\* There is never a `txn` record too many.
THEOREM ReportedCommittedTheorem == Spec => []ReportedCommitted
<1>1. Inv => ReportedCommitted
  BY DEF Inv, ReportInv, ReportedCommitted
<1>. QED
  BY <1>1, Invariance, PTL

\* What a commit does in a session no rebalance has rewound: it moves every
\* partition to the stream's position and ships the records in between.
LEMMA CommitShipsGap ==
  ASSUME Inv, CommitApplied, ~rewound
  PROVE  /\ committed' = pos
         /\ \A p \in Partitions : committed[p] <= pos[p]
         /\ \A t \in Topics, r \in Records :
              shipped'[t][r] = IF /\ committed[r[1]] <= r[2] /\ r[2] < pos[r[1]]
                                  /\ Carries(t, r)
                               THEN shipped[t][r] + 1 ELSE shipped[t][r]
<1>. DEFINE b == txn.batch
<1>1. /\ Spans(b) /\ txn.sent = Topics /\ txn.offsets /\ b \in [Records -> Nat]
      /\ TypeOK /\ \A p \in Partitions : committed[p] <= pos[p]
  BY DEF CommitApplied, Inv, OnceInv, TxnInv, TypeOK, Transactions
<1>2. committed' = CommitPositions(b)
  BY <1>1 DEF CommitApplied
<1>3. \A t \in Topics, r \in Records :
        shipped'[t][r] = IF Carries(t, r) THEN shipped[t][r] + b[r] ELSE shipped[t][r]
  BY <1>1 DEF CommitApplied
<1>. HIDE DEF b
<1>4. committed' = pos
  BY <1>1, <1>2, SpansCommits
<1>5. \A t \in Topics, r \in Records : shipped[t][r] \in Nat
  BY <1>1 DEF TypeOK
<1>. QED
  BY <1>1, <1>3, <1>4, <1>5 DEF Spans

\* ST-06 implements the transactional ledger.
THEOREM ImplementsLedger == Spec => LedgerSpec
<1>1. Init => Ledger!Init
  BY DEF Init, Ledger!Init, Empty, Records, Offsets, Ledger!Records
<1>2. ASSUME Inv, Inv', [Next]_vars
      PROVE  [Ledger!Next]_<<shipped, committed, rewound>>
  <2>0. Ledger!Records = Records
    BY DEF Records, Offsets, Ledger!Records
  <2>1. CASE CommitApplied /\ ~rewound
    <3>1. /\ committed' = pos
          /\ \A p \in Partitions : committed[p] <= committed'[p]
          /\ \A t \in Topics, r \in Records :
               shipped'[t][r] = IF Ledger!Moved(r) /\ Carries(t, r)
                                THEN shipped[t][r] + 1 ELSE shipped[t][r]
      BY <1>2, <2>1, CommitShipsGap DEF Ledger!Moved
    <3>2. committed' \in [Partitions -> 0 .. LogLen]
      BY <1>2 DEF Inv, TypeOK
    <3>3. shipped' = [t \in Topics |-> [r \in Records |-> shipped'[t][r]]]
      BY <2>1 DEF CommitApplied
    <3>4. shipped' = [t \in Topics |-> [r \in Records |->
                        IF Ledger!Moved(r) /\ Carries(t, r)
                        THEN shipped[t][r] + 1 ELSE shipped[t][r]]]
      BY <3>1, <3>3
    <3>5. rewound' = rewound
      BY <2>1 DEF CommitApplied, history
    <3>. QED
      BY <2>0, <2>1, <3>1, <3>2, <3>4, <3>5 DEF Ledger!Next, Ledger!Ship
  <2>2. CASE CommitApplied /\ rewound
    <3>1. \A t \in Topics, r \in Records : shipped'[t][r] >= shipped[t][r]
      <4>1. \A t \in Topics, r \in Records :
              shipped[t][r] \in Nat /\ txn.batch[r] \in Nat
        BY <1>2 DEF Inv, TypeOK, Transactions
      <4>. QED
        BY <2>2, <4>1 DEF CommitApplied
    <3>2. /\ committed' \in [Partitions -> 0 .. LogLen]
          /\ NothingLost' /\ TopicsAgree'
      BY <1>2 DEF Inv, TypeOK, LossInv
    <3>3. rewound' = rewound
      BY <2>2 DEF CommitApplied, history
    <3>4. \A t \in Topics, r \in Records :
            /\ r[2] < committed'[r[1]] /\ Carries(t, r) => shipped'[t][r] >= 1
            /\ \A u \in Topics : Carries(t, r) /\ Carries(u, r) =>
                                  shipped'[t][r] = shipped'[u][r]
      BY <3>2 DEF NothingLost, TopicsAgree, Carries
    <3>. QED
      BY <2>0, <2>2, <3>1, <3>2, <3>3, <3>4 DEF Ledger!Next, Ledger!ShipAgain
  <2>3. CASE Rebalance
    BY <2>3, <1>2 DEF Rebalance, broker, Ledger!Next, Ledger!Rewind, Inv, TypeOK
  <2>4. CASE UNCHANGED <<shipped, committed>> /\ UNCHANGED rewound
    BY <2>4
  <2>5. [Next]_vars => Rebalance \/ UNCHANGED rewound
    BY DEF Next, Station, Coordinator, vars, station, broker, history, Open, Deliver,
       StreamEnd, Begin, BeginFails, Send, SendOffsets, StepFails, Commit, CommitOk,
       CommitFails, Abort, ReportTxn, ReportAbort, Close, Crash, Exit, CommitApplied,
       TxnTimeout
  <2>. QED
    BY <1>2, <2>1, <2>2, <2>3, <2>4, <2>5, OnlyCommitShips
<1>. QED
  BY <1>1, <1>2, Invariance, PTL DEF Spec, LedgerSpec, Ledger!Spec

\* Until a rewind, no position moves back and outputs only appear together
\* with one that moves forward.
THEOREM ShipsWithOffsetsTheorem == Spec => ShipsWithOffsets
<1>1. ASSUME Inv, [Next]_vars
      PROVE  [~rewound => /\ \A p \in Partitions : committed'[p] >= committed[p]
                          /\ shipped' # shipped => committed' # committed]_vars
  <2>. SUFFICES ASSUME ~rewound
                PROVE  /\ \A p \in Partitions : committed'[p] >= committed[p]
                       /\ shipped' # shipped => committed' # committed
    OBVIOUS
  <2>0. \A p \in Partitions : committed[p] \in Nat /\ pos[p] \in Nat
    BY <1>1 DEF Inv, TypeOK
  <2>1. CASE UNCHANGED <<shipped, committed>>
    BY <2>0, <2>1
  <2>2. CASE CommitApplied
    <3>1. /\ committed' = pos /\ \A p \in Partitions : committed[p] <= pos[p]
          /\ \A t \in Topics, r \in Records :
               shipped'[t][r] = IF /\ committed[r[1]] <= r[2] /\ r[2] < pos[r[1]]
                                   /\ Carries(t, r)
                                THEN shipped[t][r] + 1 ELSE shipped[t][r]
      BY <1>1, <2>2, CommitShipsGap
    <3>2. ASSUME committed' = committed PROVE shipped' = shipped
      <4>1. \A r \in Records : ~(committed[r[1]] <= r[2] /\ r[2] < pos[r[1]])
        BY <3>1, <3>2, <2>0, LogAssumption DEF Records, Offsets
      <4>2. \A t \in Topics, r \in Records : shipped'[t][r] = shipped[t][r]
        BY <3>1, <4>1
      <4>3. /\ shipped \in [Topics -> [Records -> Nat]]
            /\ shipped' = [t \in Topics |-> [r \in Records |-> shipped'[t][r]]]
        BY <1>1, <2>2 DEF CommitApplied, Inv, TypeOK
      <4>. QED
        BY <4>2, <4>3
    <3>. QED
      BY <3>1, <3>2, <2>0
  <2>. QED
    BY <1>1, <2>1, <2>2, OnlyCommitShips
<1>. QED
  BY <1>1, Invariance, PTL DEF Spec, ShipsWithOffsets
=============================================================================
